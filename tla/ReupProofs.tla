----------------------------- MODULE ReupProofs -----------------------------
(***************************************************************************)
(* The types of ReupPipeline and its remediation cap, for every number of  *)
(* clips, workers and operators, every overlap of their transactions and   *)
(* every loss.  Each operator of ReupItems is shown to map a clip to one   *)
(* that "grew" (Grows), a transaction to "serve" its clips (Serves), and   *)
(* what one commits on top of an older view to leave them well formed.     *)
(***************************************************************************)
EXTENDS ReupPipeline, SequenceTheorems, WellFoundedInduction, TLAPS

\* The values of a few columns.
Steps == Stages \cup ParkedSteps \cup {"none"}
ItemStatuses == Active \cup {"FAILED", "CANCELLED"}
\* The item names jobs of its own clip only.
Links(it, n) == it.job <= n /\ \A s \in Stages : it.link[s] <= n
\* A clip in the middle of a transaction: a preview may still be unlinked.
ClipType == [it : ItemType, jobs : Seq(JobType), talk : Talks, bind : {"no", "preview", "residual"}]
Clip(c) ==
  /\ c \in ClipType /\ Links(c.it, Len(c.jobs))
  /\ c.bind # "no" => 0 < Len(c.jobs)

\* What an operator on clips may do: jobs are only added, the mode and the wait
\* stay, the recorded progress does not go back, and only full-auto clips queue
\* previews.
Grows(c, d) ==
  /\ Clip(d) /\ Len(c.jobs) <= Len(d.jobs) /\ d.talk = c.talk
  /\ d.it.mode = c.it.mode /\ d.it.wait = c.it.wait /\ d.it.tries = c.it.tries
  /\ Rank(c.it.last) <= Rank(d.it.last)
  /\ d.bind \in {c.bind, "preview"} /\ (c.it.mode # "auto_to_render" => d.bind = c.bind)

LEMMA StageSet == Stages = {"download", "analyze_audio", "translate", "tts", "ocr", "render"}
BY DEF Stages, Order

LEMMA RankType == \A s \in Stages \cup {"none"} : Rank(s) \in 0..6
BY DEF Stages, Rank, Order

\* CHOOSE finds the least and the greatest element.
LEMMA MinIn ==
  ASSUME NEW S, S \subseteq Nat, S # {} PROVE Min(S) \in S /\ \A y \in S : Min(S) <= y
<1>1. PICK x \in S : \A y \in S : ~ (<<y, x>> \in OpToRel(<, Nat))
  BY WFMin, NatLessThanWellFounded
<1>2. \A y \in S : x <= y
  <2> TAKE y \in S
  <2>1. x \in Nat /\ y \in Nat OBVIOUS
  <2>2. ~(y < x) BY <1>1, <2>1 DEF OpToRel
  <2> QED BY <2>1, <2>2
<1> QED BY <1>2 DEF Min

LEMMA MaxIn ==
  ASSUME NEW n \in Nat, NEW S, S \subseteq 1..n, S # {} 
  PROVE Max(S) \in S /\ \A y \in S : y <= Max(S)
<1> DEFINE T == {n - x : x \in S}
<1>1. T \subseteq Nat
  <2> SUFFICES ASSUME NEW x \in S PROVE n - x \in Nat OBVIOUS
  <2> x \in 1..n OBVIOUS
  <2> QED OBVIOUS
<1>2. T # {} OBVIOUS
<1>3. PICK t \in T : \A y \in T : t <= y BY <1>1, <1>2, MinIn
<1>4. PICK x \in S : t = n - x BY <1>3
<1>5. \A y \in S : y <= x
  <2> TAKE y \in S
  <2>1. n - y \in T OBVIOUS
  <2>2. x \in 1..n /\ y \in 1..n OBVIOUS
  <2> QED BY <1>3, <1>4, <2>1, <2>2
<1> QED BY <1>4, <1>5 DEF Max

\* The plan names stages.
LEMMA NextStepIn ==
  ASSUME NEW done \in Stages \cup {"none"}, NEW mode, NEW skip
  PROVE  NextStep(done, mode, skip) \in Stages \cup {"none"}
<1> DEFINE ahead == {k \in DOMAIN Order :
                  /\ k > Rank(done) /\ k <= Rank(LastStep(mode))
                  /\ ~(skip /\ Order[k] \in Dubbing)}
<1>1. DOMAIN Order = 1..6 BY DEF Order
<1>2. ahead # {} => Min(ahead) \in ahead BY <1>1, MinIn
<1> HIDE DEF ahead
<1>3. ahead # {} => Min(ahead) \in DOMAIN Order BY <1>2 DEF ahead
<1> QED BY <1>3 DEF NextStep, Stages, ahead

-----------------------------------------------------------------------------
LEMMA ClipParts ==
  ASSUME NEW c, Clip(c)
  PROVE  /\ c.it \in ItemType /\ c.jobs \in Seq(JobType) /\ Len(c.jobs) \in Nat
         /\ c.talk \in Talks /\ c.bind \in {"no", "preview", "residual"}
         /\ Links(c.it, Len(c.jobs)) /\ (c.bind # "no" => 0 < Len(c.jobs))
BY LenProperties DEF Clip, ClipType

LEMMA ItemParts ==
  ASSUME NEW it \in ItemType
  PROVE  /\ it.status \in ItemStatuses /\ it.job \in Nat /\ it.step \in Steps
         /\ it.last \in Stages \cup {"none"} /\ Rank(it.last) \in 0..6
         /\ it.tries \in Nat /\ it.mode \in AutoModes \cup {"manual"} /\ it.wait \in BOOLEAN
         /\ it.failed \in Steps \cup {"unknown", "render_preview"}
         /\ it.link \in [Stages -> Nat]
BY RankType DEF ItemType, ItemStatuses, Steps

LEMMA GrowsReflexive == \A c : Clip(c) => Grows(c, c)
BY ClipParts, ItemParts DEF Grows

LEMMA GrowsTransitive == \A c, d, e : Clip(c) /\ Grows(c, d) /\ Grows(d, e) => Grows(c, e)
<1> SUFFICES ASSUME NEW c, NEW d, NEW e, Clip(c), Grows(c, d), Grows(d, e) PROVE Grows(c, e)
  OBVIOUS
<1>1. \A x : Clip(x) => Len(x.jobs) \in Nat /\ Rank(x.it.last) \in 0..6
  BY ClipParts, ItemParts
<1>2. Clip(d) /\ Clip(e) BY DEF Grows
<1> QED BY <1>1, <1>2 DEF Grows

\* The clip with another item, or other jobs.
LEMMA WithItem ==
  ASSUME NEW c, Clip(c), NEW it \in ItemType, Links(it, Len(c.jobs)),
         it.mode = c.it.mode, it.wait = c.it.wait, it.tries = c.it.tries,
         Rank(c.it.last) <= Rank(it.last)
  PROVE  Grows(c, [c EXCEPT !.it = it])
<1> DEFINE d == [c EXCEPT !.it = it]
<1>1. d \in ClipType BY DEF Clip, ClipType
<1>2. d.it = it /\ d.jobs = c.jobs /\ d.talk = c.talk /\ d.bind = c.bind BY DEF Clip, ClipType
<1>3. Len(c.jobs) \in Nat /\ (c.bind # "no" => 0 < Len(c.jobs)) BY ClipParts
<1> HIDE DEF d
<1>4. Clip(d) BY <1>1, <1>2, <1>3 DEF Clip
<1>5. Grows(c, d) BY <1>2, <1>3, <1>4 DEF Grows
<1> QED BY <1>5 DEF d

\* One lemma for each operator on clips.
LEMMA AttentionGrows ==
  ASSUME NEW c, Clip(c), NEW step \in Steps \cup {"render_preview"}
  PROVE  Grows(c, Attention(c, step)) /\ Attention(c, step).it.status = "FAILED"
<1> DEFINE it == [c.it EXCEPT !.status = "FAILED", !.step = "needs_attention",
                             !.hold = TRUE, !.failed = Resolved(step)]
<1>1. Resolved(step) \in Stages \cup ParkedSteps \cup {"none", "unknown", "render_preview"}
  BY DEF Resolved, Steps
<1>2. c.it \in ItemType /\ Links(c.it, Len(c.jobs)) /\ Rank(c.it.last) \in 0..6 BY ClipParts, ItemParts
<1>3. it \in ItemType BY <1>1, <1>2 DEF ItemType, ParkedSteps
<1>4. /\ it.job = c.it.job /\ it.link = c.it.link /\ it.mode = c.it.mode /\ it.wait = c.it.wait
      /\ it.tries = c.it.tries /\ it.last = c.it.last /\ it.status = "FAILED"
  BY <1>2 DEF ItemType
<1>5. Attention(c, step) = [c EXCEPT !.it = it] BY DEF Attention
<1>6. [c EXCEPT !.it = it].it = it BY DEF Clip, ClipType
<1> HIDE DEF it
<1>7. Links(it, Len(c.jobs)) BY <1>2, <1>4 DEF Links
<1> QED BY <1>2, <1>3, <1>4, <1>5, <1>6, <1>7, WithItem

LEMMA AtStepGrows ==
  ASSUME NEW c, Clip(c), NEW step \in Steps
  PROVE  Grows(c, AtStep(c, step)) /\ AtStep(c, step).it.step = step
<1> DEFINE it == [c.it EXCEPT !.step = step]
<1>1. c.it \in ItemType /\ Links(c.it, Len(c.jobs)) /\ Rank(c.it.last) \in 0..6 BY ClipParts, ItemParts
<1>2. it \in ItemType BY <1>1 DEF ItemType, Steps
<1>3. /\ it.job = c.it.job /\ it.link = c.it.link /\ it.mode = c.it.mode /\ it.wait = c.it.wait
      /\ it.tries = c.it.tries /\ it.last = c.it.last /\ it.step = step
  BY <1>1 DEF ItemType
<1>4. AtStep(c, step) = [c EXCEPT !.it = it] BY DEF AtStep
<1>5. [c EXCEPT !.it = it].it = it BY DEF Clip, ClipType
<1> HIDE DEF it
<1>6. Links(it, Len(c.jobs)) BY <1>1, <1>3 DEF Links
<1> QED BY <1>1, <1>2, <1>3, <1>4, <1>5, <1>6, WithItem

LEMMA LinkedGrows ==
  ASSUME NEW c, Clip(c), NEW step \in Stages, NEW status \in ItemStatuses
  PROVE  Grows(c, Linked(c, step, status))
<1> DEFINE it == [c.it EXCEPT !.step = step, !.status = status, !.link[step] = c.it.job]
<1>1. /\ c.it \in ItemType /\ Links(c.it, Len(c.jobs)) /\ Rank(c.it.last) \in 0..6
      /\ c.it.link \in [Stages -> Nat] /\ c.it.job \in Nat
  BY ClipParts, ItemParts
<1>2. it = [c.it EXCEPT !.step = step, !.status = status, !.link = [@ EXCEPT ![step] = c.it.job]]
  OBVIOUS
<1>3. [c.it.link EXCEPT ![step] = c.it.job] \in [Stages -> Nat] BY <1>1
<1>4. it \in ItemType BY <1>1, <1>3 DEF ItemType, ItemStatuses
<1>5. /\ it.job = c.it.job /\ it.mode = c.it.mode /\ it.wait = c.it.wait
      /\ it.tries = c.it.tries /\ it.last = c.it.last
      /\ it.link = [c.it.link EXCEPT ![step] = c.it.job]
  BY <1>1 DEF ItemType
<1>6. Linked(c, step, status) = [c EXCEPT !.it = it] BY DEF Linked
<1> HIDE DEF it
<1>7. Links(it, Len(c.jobs)) BY <1>1, <1>5 DEF Links
<1> QED BY <1>1, <1>4, <1>5, <1>6, <1>7, WithItem

LEMMA UseJobGrows ==
  ASSUME NEW c, Clip(c), NEW n \in 0..Len(c.jobs)
  PROVE  Grows(c, UseJob(c, n))
<1> DEFINE it == [c.it EXCEPT !.job = n]
<1>1. /\ c.it \in ItemType /\ Links(c.it, Len(c.jobs)) /\ Rank(c.it.last) \in 0..6
      /\ Len(c.jobs) \in Nat
  BY ClipParts, ItemParts
<1>2. it \in ItemType BY <1>1, SMTT(40) DEF ItemType
<1>3. /\ it.job = n /\ it.link = c.it.link /\ it.mode = c.it.mode /\ it.wait = c.it.wait
      /\ it.tries = c.it.tries /\ it.last = c.it.last
  BY <1>1 DEF ItemType
<1>4. UseJob(c, n) = [c EXCEPT !.it = it] BY DEF UseJob
<1> HIDE DEF it
<1>5. Links(it, Len(c.jobs)) BY <1>1, <1>3 DEF Links
<1> QED BY <1>1, <1>2, <1>3, <1>4, <1>5, WithItem

\* The clip with its job rows updated, or with one more job bound to its item.
LEMMA WithJobs ==
  ASSUME NEW c, Clip(c), NEW jobs \in Seq(JobType), Len(c.jobs) <= Len(jobs)
  PROVE  Grows(c, [c EXCEPT !.jobs = jobs])
<1> DEFINE d == [c EXCEPT !.jobs = jobs]
<1>1. d \in ClipType BY DEF Clip, ClipType
<1>2. d.it = c.it /\ d.jobs = jobs /\ d.talk = c.talk /\ d.bind = c.bind BY DEF Clip, ClipType
<1>3. /\ Len(c.jobs) \in Nat /\ Len(jobs) \in Nat /\ c.it \in ItemType /\ Links(c.it, Len(c.jobs))
      /\ c.it.job \in Nat /\ c.it.link \in [Stages -> Nat] /\ Rank(c.it.last) \in 0..6
      /\ (c.bind # "no" => 0 < Len(c.jobs))
  BY ClipParts, ItemParts, LenProperties
<1> HIDE DEF d
<1>4. Links(c.it, Len(jobs))
  <2>1. c.it.job <= Len(jobs) BY <1>3 DEF Links
  <2>2. \A s \in Stages : c.it.link[s] <= Len(jobs) BY <1>3 DEF Links
  <2> QED BY <2>1, <2>2 DEF Links
<1>5. Clip(d) BY <1>1, <1>2, <1>3, <1>4 DEF Clip
<1>6. Grows(c, d) BY <1>2, <1>3, <1>5 DEF Grows
<1> QED BY <1>6 DEF d

LEMMA ReleasedGrows ==
  ASSUME NEW c, Clip(c), NEW n \in 0..Len(c.jobs)
  PROVE  Grows(c, Released(c, n))
<1>1. CASE n = 0 BY <1>1, GrowsReflexive DEF Released
<1>2. CASE n # 0
  <2> DEFINE job == [c.jobs[n] EXCEPT !.key = FALSE]
  <2>1. c.jobs \in Seq(JobType) /\ Len(c.jobs) \in Nat /\ n \in 1..Len(c.jobs) BY <1>2, ClipParts
  <2>2. c.jobs[n] \in JobType BY <2>1, LenProperties
  <2>3. job \in JobType BY <2>2 DEF JobType
  <2> HIDE DEF job
  <2>4. /\ [c.jobs EXCEPT ![n] = job] \in Seq(JobType)
        /\ Len([c.jobs EXCEPT ![n] = job]) = Len(c.jobs)
    BY <2>1, <2>3, ExceptSeq
  <2> DEFINE jobs == [c.jobs EXCEPT ![n] = job]
  <2>5. Released(c, n) = [c EXCEPT !.jobs = jobs]
    BY <1>2 DEF Released, job
  <2>6. jobs \in Seq(JobType) /\ Len(c.jobs) <= Len(jobs) BY <2>1, <2>4
  <2> HIDE DEF jobs
  <2>7. Grows(c, [c EXCEPT !.jobs = jobs]) BY <2>6, WithJobs
  <2> QED BY <2>5, <2>7
<1> QED BY <1>1, <1>2

LEMMA UseNewGrows ==
  ASSUME NEW c, Clip(c), NEW kind \in JobKinds, NEW key \in BOOLEAN,
         NEW variant \in {"plain", "auto", "approve"}
  PROVE  Grows(c, UseNew(c, kind, key, variant))
<1> DEFINE job == [kind |-> kind, status |-> "live", key |-> key, variant |-> variant]
           more == Append(c.jobs, job)
           mid == [c EXCEPT !.jobs = more]
<1>1. c.jobs \in Seq(JobType) /\ Len(c.jobs) \in Nat BY ClipParts
<1>2. job \in JobType BY DEF JobType, JobStates
<1>3. more \in Seq(JobType) /\ Len(more) = Len(c.jobs) + 1 BY <1>1, <1>2, AppendProperties
<1>4. UseNew(c, kind, key, variant) = UseJob(mid, Len(c.jobs) + 1) BY DEF UseNew, UseJob
<1>5. mid.jobs = more BY DEF Clip, ClipType
<1> HIDE DEF mid, more
<1>6. Grows(c, mid) BY <1>1, <1>3, WithJobs DEF mid
<1>7. Len(c.jobs) + 1 \in 0..Len(mid.jobs) BY <1>1, <1>3, <1>5
<1>8. Clip(mid) BY <1>6 DEF Grows
<1>9. Grows(mid, UseJob(mid, Len(c.jobs) + 1)) BY <1>7, <1>8, UseJobGrows
<1> QED BY <1>4, <1>6, <1>9, GrowsTransitive

LEMMA JobKnown ==
  ASSUME NEW c, Clip(c), NEW n \in 1..Len(c.jobs)
  PROVE  c.jobs[n].kind \in JobKinds /\ c.jobs[n].status \in JobStates
<1>1. c.jobs[n] \in JobType BY ClipParts, LenProperties
<1> QED BY <1>1 DEF JobType

\* The largest of some of a clip's jobs is one of them.
LEMMA MaxJob ==
  ASSUME NEW c, Clip(c), NEW S, S \subseteq DOMAIN c.jobs, S # {}
  PROVE  Max(S) \in S /\ Max(S) \in 1..Len(c.jobs) /\ Max(S) \in 0..Len(c.jobs)
<1>1. Len(c.jobs) \in Nat /\ DOMAIN c.jobs = 1..Len(c.jobs) BY ClipParts, LenProperties
<1>2. Max(S) \in S BY <1>1, MaxIn
<1> QED BY <1>1, <1>2

LEMMA ShedGrows ==
  ASSUME NEW c, Clip(c), NEW kind
  PROVE  Grows(c, Shed(c, kind))
<1>1. c.it.job \in 0..Len(c.jobs) BY ClipParts, ItemParts DEF Links
<1>2. Grows(c, Released(c, c.it.job)) BY <1>1, ReleasedGrows
<1>3. Clip(Released(c, c.it.job)) BY <1>2 DEF Grows
<1>4. 0 \in 0..Len(Released(c, c.it.job).jobs) BY <1>3, ClipParts
<1>5. Grows(Released(c, c.it.job), UseJob(Released(c, c.it.job), 0)) BY <1>3, <1>4, UseJobGrows
<1>6. Grows(c, UseJob(Released(c, c.it.job), 0)) BY <1>2, <1>5, GrowsTransitive
<1> QED BY <1>6, GrowsReflexive DEF Shed

LEMMA RecordedGrows ==
  ASSUME NEW c, Clip(c), NEW step
  PROVE  Grows(c, Recorded(c, step))
<1>1. CASE step \in Stages /\ Later(step, c.it.last)
  <2> DEFINE it == [c.it EXCEPT !.last = step]
  <2>1. /\ c.it \in ItemType /\ Links(c.it, Len(c.jobs)) /\ Rank(c.it.last) \in 0..6
        /\ Rank(step) \in 0..6
    BY <1>1, ClipParts, ItemParts, RankType
  <2>2. it \in ItemType BY <1>1, <2>1 DEF ItemType
  <2>3. /\ it.job = c.it.job /\ it.link = c.it.link /\ it.mode = c.it.mode
        /\ it.wait = c.it.wait /\ it.tries = c.it.tries /\ it.last = step
    BY <2>1 DEF ItemType
  <2>4. Recorded(c, step) = [c EXCEPT !.it = it] BY <1>1 DEF Recorded
  <2> HIDE DEF it
  <2>5. Links(it, Len(c.jobs)) BY <2>1, <2>3 DEF Links
  <2>6. Rank(c.it.last) <= Rank(it.last) BY <1>1, <2>1, <2>3 DEF Later
  <2> QED BY <2>2, <2>3, <2>4, <2>5, <2>6, WithItem
<1>2. CASE ~(step \in Stages /\ Later(step, c.it.last))
  BY <1>2, GrowsReflexive DEF Recorded
<1> QED BY <1>1, <1>2

LEMMA FinishedGrows ==
  ASSUME NEW c, Clip(c), NEW step \in {"ready_final", "quality_review"}
  PROVE  LET d == [c EXCEPT !.it = [@ EXCEPT !.step = step, !.status = "METADATA"]]
         IN Grows(c, d) /\ d.it.step = step
<1> DEFINE it == [c.it EXCEPT !.step = step, !.status = "METADATA"]
<1>1. c.it \in ItemType /\ Links(c.it, Len(c.jobs)) /\ Rank(c.it.last) \in 0..6 BY ClipParts, ItemParts
<1>2. it \in ItemType BY <1>1 DEF ItemType, Active, ParkedSteps
<1>3. /\ it.job = c.it.job /\ it.link = c.it.link /\ it.mode = c.it.mode /\ it.wait = c.it.wait
      /\ it.tries = c.it.tries /\ it.last = c.it.last /\ it.step = step
  BY <1>1 DEF ItemType
<1>4. [c EXCEPT !.it = it].it = it BY DEF Clip, ClipType
<1> HIDE DEF it
<1>5. Links(it, Len(c.jobs)) BY <1>1, <1>3 DEF Links
<1>6. Grows(c, [c EXCEPT !.it = it]) BY <1>1, <1>2, <1>3, <1>5, WithItem
<1> QED BY <1>3, <1>4, <1>6 DEF it

LEMMA KeepDownloadGrows ==
  ASSUME NEW c, Clip(c) PROVE Grows(c, KeepDownload(c))
<1>1. 0 \in 0..Len(c.jobs) BY ClipParts
<1> QED BY <1>1, ShedGrows, UseJobGrows DEF KeepDownload

LEMMA DownloadJobGrows ==
  ASSUME NEW c, Clip(c), NEW was, Clip(was), Len(was.jobs) <= Len(c.jobs)
  PROVE  Grows(c, DownloadJob(c, was))
<1> DEFINE keyed == KeyedJobs(was, "download")
<1>1. CASE Owns(c, "download") BY <1>1, GrowsReflexive DEF DownloadJob
<1>2. CASE ~Owns(c, "download") /\ keyed # {}
  <2>1. keyed \subseteq DOMAIN c.jobs
    <3>1. /\ DOMAIN c.jobs = 1..Len(c.jobs) /\ DOMAIN was.jobs = 1..Len(was.jobs)
          /\ Len(c.jobs) \in Nat /\ Len(was.jobs) \in Nat
      BY ClipParts, LenProperties
    <3>2. keyed \subseteq DOMAIN was.jobs BY DEF KeyedJobs
    <3> QED BY <3>1, <3>2
  <2>2. Grows(c, UseJob(c, Max(keyed))) BY <1>2, <2>1, MaxJob, UseJobGrows
  <2> QED BY <1>2, <2>2 DEF DownloadJob
<1>3. CASE ~Owns(c, "download") /\ keyed = {}
  <2>1. Grows(c, UseNew(c, "download", TRUE, "plain")) BY UseNewGrows, StageSet DEF JobKinds
  <2> QED BY <1>3, <2>1 DEF DownloadJob
<1> QED BY <1>1, <1>2, <1>3

LEMMA SingleFlightGrows ==
  ASSUME NEW c, Clip(c), NEW kind \in Stages PROVE Grows(c, SingleFlight(c, kind))
<1> DEFINE live == LiveJobs(c, kind)
<1>1. CASE live # {}
  <2>1. live \subseteq DOMAIN c.jobs BY DEF LiveJobs
  <2>2. Grows(c, UseJob(c, Max(live))) BY <1>1, <2>1, MaxJob, UseJobGrows
  <2> QED BY <1>1, <2>2 DEF SingleFlight
<1>2. CASE live = {}
  <2>1. Grows(c, UseNew(c, kind, FALSE, "plain")) BY UseNewGrows DEF JobKinds
  <2> QED BY <1>2, <2>1 DEF SingleFlight
<1> QED BY <1>1, <1>2

LEMMA TtsJobGrows ==
  ASSUME NEW c, Clip(c), NEW ans PROVE Grows(c, TtsJob(c, ans))
<1> DEFINE live == LiveJobs(c, "tts")
           keyed == KeyedJobs(c, "tts")
           n == Max(keyed)
<1>0. /\ live \subseteq DOMAIN c.jobs /\ keyed \subseteq DOMAIN c.jobs
      /\ "tts" \in JobKinds
  BY StageSet DEF LiveJobs, KeyedJobs, JobKinds
<1>1. CASE live # {}
  <2>1. Grows(c, UseJob(c, Max(live))) BY <1>0, <1>1, MaxJob, UseJobGrows
  <2> QED BY <1>1, <2>1 DEF TtsJob
<1>2. CASE live = {} /\ keyed = {}
  <2>1. Grows(c, UseNew(c, "tts", TRUE, "plain")) BY <1>0, UseNewGrows
  <2> QED BY <1>2, <2>1 DEF TtsJob
<1>3. CASE live = {} /\ keyed # {}
  <2> DEFINE job == [c.jobs[n] EXCEPT !.status = "live"]
             jobs == [c.jobs EXCEPT ![n] = job]
             mid == [c EXCEPT !.jobs = jobs]
  <2>1. n \in 1..Len(c.jobs) /\ n \in 0..Len(c.jobs) BY <1>0, <1>3, MaxJob
  <2> HIDE DEF n
  <2>2. Grows(c, UseNew(c, "tts", FALSE, "plain")) BY <1>0, UseNewGrows
  <2>3. Grows(c, UseJob(c, n)) BY <2>1, UseJobGrows
  <2>4. c.jobs \in Seq(JobType) /\ Len(c.jobs) \in Nat BY ClipParts
  <2>5. job \in JobType
    <3>1. c.jobs[n] \in JobType BY <2>1, <2>4, LenProperties
    <3> QED BY <3>1 DEF JobType, JobStates
  <2>6. jobs \in Seq(JobType) /\ Len(jobs) = Len(c.jobs)
    <3> HIDE DEF job
    <3> QED BY <2>1, <2>4, <2>5, ExceptSeq
  <2>7. mid.jobs = jobs BY DEF Clip, ClipType
  <2> HIDE DEF jobs
  <2>8. Grows(c, mid) BY <2>4, <2>6, WithJobs
  <2>9. Grows(mid, UseJob(mid, n))
    <3> HIDE DEF mid
    <3>1. Clip(mid) BY <2>8 DEF Grows
    <3> QED BY <3>1, <2>1, <2>6, <2>7, UseJobGrows
  <2>10. Grows(c, UseJob(mid, n))
    <3> HIDE DEF mid
    <3> QED BY <2>8, <2>9, GrowsTransitive
  <2>11. mid = [c EXCEPT !.jobs[n].status = "live"] BY DEF jobs
  <2>12. TtsJob(c, ans) \in {UseNew(c, "tts", FALSE, "plain"), UseJob(mid, n), UseJob(c, n)}
    <3> HIDE DEF mid
    <3> QED BY <1>3, <2>11 DEF TtsJob, n
  <2> HIDE DEF mid
  <2> QED BY <2>2, <2>3, <2>10, <2>12
<1> QED BY <1>1, <1>2, <1>3

LEMMA StartedGrows ==
  ASSUME NEW c, Clip(c) PROVE Grows(c, [c EXCEPT !.it.started = TRUE])
<1> DEFINE it == [c.it EXCEPT !.started = TRUE]
<1>1. c.it \in ItemType /\ Links(c.it, Len(c.jobs)) /\ Rank(c.it.last) \in 0..6 BY ClipParts, ItemParts
<1>2. it \in ItemType BY <1>1 DEF ItemType
<1>3. /\ it.job = c.it.job /\ it.link = c.it.link /\ it.mode = c.it.mode /\ it.wait = c.it.wait
      /\ it.tries = c.it.tries /\ it.last = c.it.last
  BY <1>1 DEF ItemType
<1> HIDE DEF it
<1>4. Links(it, Len(c.jobs)) BY <1>1, <1>3 DEF Links
<1>5. Grows(c, [c EXCEPT !.it = it]) BY <1>1, <1>2, <1>3, <1>4, WithItem
<1> QED BY <1>5 DEF it

LEMMA ReadyGrows ==
  ASSUME NEW c, Clip(c) PROVE Grows(c, [c EXCEPT !.it.ready = TRUE])
<1> DEFINE it == [c.it EXCEPT !.ready = TRUE]
<1>1. c.it \in ItemType /\ Links(c.it, Len(c.jobs)) /\ Rank(c.it.last) \in 0..6 BY ClipParts, ItemParts
<1>2. it \in ItemType BY <1>1 DEF ItemType
<1>3. /\ it.job = c.it.job /\ it.link = c.it.link /\ it.mode = c.it.mode /\ it.wait = c.it.wait
      /\ it.tries = c.it.tries /\ it.last = c.it.last
  BY <1>1 DEF ItemType
<1> HIDE DEF it
<1>4. Links(it, Len(c.jobs)) BY <1>1, <1>3 DEF Links
<1>5. Grows(c, [c EXCEPT !.it = it]) BY <1>1, <1>2, <1>3, <1>4, WithItem
<1> QED BY <1>5 DEF it

LEMMA AttentionHereGrows ==
  ASSUME NEW c, Clip(c)
  PROVE  Grows(c, AttentionHere(c)) /\ AttentionHere(c).it.status = "FAILED"
BY ClipParts, ItemParts, AttentionGrows DEF AttentionHere

LEMMA EnsureDownloadGrows ==
  ASSUME NEW c, Clip(c), NEW ans PROVE Grows(c, EnsureDownload(c, ans))
<1> DEFINE kept == KeepDownload(c)
           found == DownloadJob(kept, c)
           begun == [found EXCEPT !.it.started = TRUE]
<1>1. Grows(c, kept) /\ Clip(kept) BY KeepDownloadGrows DEF Grows
<1> HIDE DEF kept
<1>2. Grows(c, AttentionHere(kept)) BY <1>1, AttentionHereGrows, GrowsTransitive
<1>3. Grows(c, found) /\ Clip(found)
  <2>1. Len(c.jobs) <= Len(kept.jobs) BY <1>1 DEF Grows
  <2>2. Grows(kept, found) BY <1>1, <2>1, DownloadJobGrows
  <2> HIDE DEF found
  <2> QED BY <1>1, <2>2, GrowsTransitive DEF Grows
<1> HIDE DEF found
<1>4. Grows(c, begun) /\ Clip(begun)
  <2>1. Grows(found, begun) BY <1>3, StartedGrows
  <2> HIDE DEF begun
  <2> QED BY <1>3, <2>1, GrowsTransitive DEF Grows
<1> HIDE DEF begun
<1>5. Grows(begun, Linked(begun, "download", "MEDIA"))
  BY <1>4, LinkedGrows, StageSet DEF ItemStatuses, Active
<1>6. Grows(c, Linked(begun, "download", "MEDIA")) BY <1>4, <1>5, GrowsTransitive
<1> QED BY <1>2, <1>6 DEF EnsureDownload, begun, found, kept

\* A clip with the job of a stage bound to it.
LEMMA BoundGrows ==
  ASSUME NEW c, NEW d, Clip(c), Grows(c, d), NEW step \in Stages, NEW status \in ItemStatuses
  PROVE  Grows(c, Linked(d, step, status))
<1>1. Clip(d) BY DEF Grows
<1> QED BY <1>1, LinkedGrows, GrowsTransitive

LEMMA OcrJobGrows ==
  ASSUME NEW c, Clip(c), NEW variant \in {"plain", "auto", "approve"} PROVE Grows(c, OcrJob(c, variant))
<1> DEFINE same == {n \in LiveJobs(c, "ocr") : c.jobs[n].variant = variant}
<1>1. same \subseteq DOMAIN c.jobs BY DEF LiveJobs
<1>2. CASE same # {}
  <2>1. Grows(c, UseJob(c, Max(same))) BY <1>1, <1>2, MaxJob, UseJobGrows
  <2> QED BY <1>2, <2>1 DEF OcrJob
<1>3. CASE same = {}
  <2>1. Grows(c, UseNew(c, "ocr", FALSE, variant)) BY UseNewGrows, StageSet DEF JobKinds
  <2> QED BY <1>3, <2>1 DEF OcrJob
<1> QED BY <1>2, <1>3

LEMMA ReviewGrows ==
  ASSUME NEW c, Clip(c)
  PROVE  Grows(c, [c EXCEPT !.it = [@ EXCEPT !.step = "translation_review", !.job = 0,
                                            !.status = "METADATA"]])
<1> DEFINE it == [c.it EXCEPT !.step = "translation_review", !.job = 0, !.status = "METADATA"]
<1>1. /\ c.it \in ItemType /\ Links(c.it, Len(c.jobs)) /\ Rank(c.it.last) \in 0..6
      /\ Len(c.jobs) \in Nat
  BY ClipParts, ItemParts
<1>2. it \in ItemType BY <1>1 DEF ItemType, Active, ParkedSteps
<1>3. /\ it.job = 0 /\ it.link = c.it.link /\ it.mode = c.it.mode /\ it.wait = c.it.wait
      /\ it.tries = c.it.tries /\ it.last = c.it.last
  BY <1>1 DEF ItemType
<1> HIDE DEF it
<1>4. Links(it, Len(c.jobs)) BY <1>1, <1>3 DEF Links
<1>5. Grows(c, [c EXCEPT !.it = it]) BY <1>1, <1>2, <1>3, <1>4, WithItem
<1> QED BY <1>5 DEF it

LEMMA EnsureGrows ==
  ASSUME NEW c, Clip(c), NEW step, NEW ans PROVE Grows(c, Ensure(c, step, ans))
<1>0. /\ {"download", "analyze_audio", "translate", "tts", "ocr", "render"} = Stages
      /\ "METADATA" \in ItemStatuses /\ c.it.status \in ItemStatuses
  BY StageSet, ClipParts, ItemParts DEF ItemStatuses, Active
<1>1. Grows(c, EnsureDownload(c, ans)) BY EnsureDownloadGrows
<1>2. Grows(c, EnsureAnalyze(c, ans))
  <2> DEFINE ready == [c EXCEPT !.it.ready = TRUE]
  <2>1. Grows(c, ready) /\ Clip(ready) BY ReadyGrows DEF Grows
  <2> HIDE DEF ready
  <2>2. Grows(c, AttentionHere(ready)) BY <2>1, AttentionHereGrows, GrowsTransitive
  <2>3. Grows(c, SingleFlight(ready, "analyze_audio"))
    BY <1>0, <2>1, SingleFlightGrows, GrowsTransitive
  <2>4. Grows(c, Linked(SingleFlight(ready, "analyze_audio"), "analyze_audio", "METADATA"))
    BY <1>0, <2>3, BoundGrows
  <2> QED BY <2>2, <2>4 DEF EnsureAnalyze, ready
<1>3. Grows(c, EnsureTranslation(c, ans))
  <2>1. Grows(c, Linked(SingleFlight(c, "translate"), "translate", "METADATA"))
    BY <1>0, SingleFlightGrows, BoundGrows
  <2> QED BY <2>1, AttentionHereGrows DEF EnsureTranslation
<1>4. Grows(c, EnsureTts(c, ans))
  <2>1. Grows(c, Linked(TtsJob(c, ans), "tts", "METADATA")) BY <1>0, TtsJobGrows, BoundGrows
  <2> QED BY <2>1, AttentionHereGrows, ReviewGrows DEF EnsureTts
<1>5. Grows(c, EnsureOcr(c, ans))
  <2> DEFINE variant == IF c.it.mode = "auto_to_render" THEN "auto" ELSE "plain"
  <2>1. Grows(c, OcrJob(c, variant)) BY OcrJobGrows
  <2> HIDE DEF variant
  <2>2. Grows(c, Linked(OcrJob(c, variant), "ocr", "METADATA")) BY <1>0, <2>1, BoundGrows
  <2> QED BY <2>2, AttentionHereGrows DEF EnsureOcr, variant
<1>6. Grows(c, EnsureRender(c, ans))
  <2>1. Grows(c, UseNew(c, "render", FALSE, "plain")) BY <1>0, UseNewGrows DEF JobKinds
  <2>2. Grows(c, Linked(UseNew(c, "render", FALSE, "plain"), "render", "METADATA"))
    BY <1>0, <2>1, BoundGrows
  <2> QED BY <2>2, AttentionHereGrows DEF EnsureRender
<1> QED BY <1>1, <1>2, <1>3, <1>4, <1>5, <1>6 DEF Ensure

-----------------------------------------------------------------------------
LEMMA AtStepThenGrows ==
  ASSUME NEW c, Clip(c), NEW step \in Steps, NEW ans, NEW which
  PROVE  Grows(c, Ensure(AtStep(c, step), which, ans))
<1>1. Grows(c, AtStep(c, step)) /\ Clip(AtStep(c, step)) BY AtStepGrows DEF Grows
<1> QED BY <1>1, EnsureGrows, GrowsTransitive

LEMMA RenderGrows ==
  ASSUME NEW c, Clip(c), NEW ans PROVE Grows(c, EnsureRender(AtStep(c, "render"), ans))
<1>1. Grows(c, Ensure(AtStep(c, "render"), "render", ans)) BY AtStepThenGrows, StageSet DEF Steps
<1> QED BY <1>1 DEF Ensure

LEMMA RunNextStepGrows ==
  ASSUME NEW c, Clip(c), NEW done \in Stages \cup {"none"}, NEW ans
  PROVE  Grows(c, RunNextStep(c, done, ans))
<1> DEFINE next == NextStep(done, c.it.mode, SkipDubbing(c))
<1>1. next \in Stages \cup {"none"} BY NextStepIn
<1>2. Grows(c, Finished(c)) BY FinishedGrows DEF Finished
<1> HIDE DEF next
<1>3. Grows(c, Ensure(AtStep(c, next), next, ans)) BY <1>1, AtStepThenGrows DEF Steps
<1> QED BY <1>2, <1>3 DEF RunNextStep, next

LEMMA QueuePreviewGrows ==
  ASSUME NEW c, Clip(c), NEW why \in {"preview", "residual"}
  PROVE  LET d == QueuePreview(c, why)
         IN /\ Clip(d) /\ Len(d.jobs) = Len(c.jobs) + 1 /\ d.it = c.it /\ d.talk = c.talk
            /\ d.bind = why
            /\ why = "preview" /\ c.it.mode = "auto_to_render" => Grows(c, d)
<1> DEFINE job == [kind |-> "preview", status |-> "live", key |-> FALSE, variant |-> "plain"]
           more == Append(c.jobs, job)
           d == [c EXCEPT !.jobs = more, !.bind = why]
<1>1. /\ c.jobs \in Seq(JobType) /\ Len(c.jobs) \in Nat /\ Links(c.it, Len(c.jobs))
      /\ c.it.job \in Nat /\ c.it.link \in [Stages -> Nat] /\ Rank(c.it.last) \in 0..6
  BY ClipParts, ItemParts
<1>2. job \in JobType BY DEF JobType, JobStates, JobKinds
<1>3. more \in Seq(JobType) /\ Len(more) = Len(c.jobs) + 1 BY <1>1, <1>2, AppendProperties
<1> HIDE DEF more
<1>4. d \in ClipType BY <1>3 DEF Clip, ClipType
<1>5. d.it = c.it /\ d.jobs = more /\ d.talk = c.talk /\ d.bind = why BY DEF Clip, ClipType
<1>6. Links(c.it, Len(more))
  <2>1. c.it.job <= Len(more) BY <1>1, <1>3 DEF Links
  <2>2. \A s \in Stages : c.it.link[s] <= Len(more) BY <1>1, <1>3 DEF Links
  <2> QED BY <2>1, <2>2 DEF Links
<1>7. d = QueuePreview(c, why) BY DEF QueuePreview, more
<1> HIDE DEF d
<1>8. Clip(d) BY <1>1, <1>3, <1>4, <1>5, <1>6 DEF Clip
<1>9. why = "preview" /\ c.it.mode = "auto_to_render" => Grows(c, d) BY <1>1, <1>3, <1>5, <1>8 DEF Grows
<1> QED BY <1>3, <1>5, <1>7, <1>8, <1>9

LEMMA PreviewGrows ==
  ASSUME NEW c, Clip(c), c.it.mode = "auto_to_render" PROVE Grows(c, QueuePreview(c, "preview"))
BY QueuePreviewGrows

LEMMA ParkGrows ==
  ASSUME NEW c, Clip(c)
  PROVE  Grows(c, ParkForQuality(c)) /\ ParkForQuality(c).it.step = "quality_review"
BY FinishedGrows DEF ParkForQuality

LEMMA AfterAutoOcrGrows ==
  ASSUME NEW c, Clip(c), c.it.mode = "auto_to_render", NEW ans PROVE Grows(c, AfterAutoOcr(c, ans))
<1>1. Grows(c, EnsureOcrReview(c))
  <2>1. "ocr" \in Stages /\ c.it.status \in ItemStatuses BY StageSet, ClipParts, ItemParts
  <2> QED BY <2>1, OcrJobGrows, BoundGrows DEF EnsureOcrReview
<1> QED BY <1>1, RenderGrows, PreviewGrows, AttentionHereGrows DEF AfterAutoOcr

LEMMA AfterSuccessGrows ==
  ASSUME NEW c, Clip(c), NEW n \in 1..Len(c.jobs), NEW ans
  PROVE  Grows(c, AfterSuccess(c, n, ans))
<1> DEFINE kind == c.jobs[n].kind
<1>1. CASE kind = "preview" \/ c.it.step # kind
  BY <1>1, GrowsReflexive DEF AfterSuccess
<1>2. CASE kind # "preview" /\ c.it.step = kind /\ LeadsOn(c, n, ans)
  <2>1. kind \in Stages BY <1>2, JobKnown DEF JobKinds
  <2> HIDE DEF kind
  <2>2. Grows(c, RunNextStep(c, kind, ans)) BY <2>1, RunNextStepGrows
  <2> QED BY <1>2, <2>2 DEF AfterSuccess, kind
<1>3. CASE kind # "preview" /\ c.it.step = kind /\ ~LeadsOn(c, n, ans)
  <2>1. kind \in {"analyze_audio", "ocr", "render"} BY <1>3 DEF LeadsOn
  <2>2. Grows(c, AtStep(UseJob(c, n), "ready_final"))
    <3>1. Grows(c, UseJob(c, n)) /\ Clip(UseJob(c, n))
      <4>1. n \in 0..Len(c.jobs) BY ClipParts
      <4>2. Grows(c, UseJob(c, n)) BY <4>1, UseJobGrows
      <4> QED BY <4>2 DEF Grows
    <3>2. Grows(UseJob(c, n), AtStep(UseJob(c, n), "ready_final"))
      BY <3>1, AtStepGrows DEF Steps, ParkedSteps
    <3> QED BY <3>1, <3>2, GrowsTransitive
  <2>3. \/ AfterSuccess(c, n, ans) \in {AttentionHere(c), ParkForQuality(c),
                                        AtStep(UseJob(c, n), "ready_final")}
        \/ c.it.mode = "auto_to_render" /\ AfterSuccess(c, n, ans) = AfterAutoOcr(c, ans)
    BY <1>3, <2>1 DEF AfterSuccess
  <2> QED BY <2>2, <2>3, AttentionHereGrows, AfterAutoOcrGrows, ParkGrows
<1> QED BY <1>1, <1>2, <1>3

LEMMA CatchUpGrows ==
  ASSUME NEW c, Clip(c), NEW step, NEW ans PROVE Grows(c, CatchUp(c, step, ans))
<1> DEFINE n == c.it.job
<1>1. CASE n # 0
  <2>1. n \in 1..Len(c.jobs) BY <1>1, ClipParts, ItemParts DEF Links
  <2>2. Grows(c, Recorded(c, step)) /\ Clip(Recorded(c, step)) BY RecordedGrows DEF Grows
  <2>3. n \in 1..Len(Recorded(c, step).jobs)
    <3>1. Len(c.jobs) <= Len(Recorded(c, step).jobs) BY <2>2 DEF Grows
    <3> QED BY <2>1, <2>2, <3>1, ClipParts
  <2> HIDE DEF n
  <2>4. Grows(c, AfterSuccess(Recorded(c, step), n, ans))
    BY <2>2, <2>3, AfterSuccessGrows, GrowsTransitive
  <2> QED BY <1>1, <2>4, GrowsReflexive, AttentionHereGrows DEF CatchUp, n
<1>2. CASE n = 0 BY <1>2, GrowsReflexive DEF CatchUp
<1> QED BY <1>1, <1>2

LEMMA EnsureStepGrows ==
  ASSUME NEW c, Clip(c), NEW step, NEW ans PROVE Grows(c, EnsureStep(c, step, ans))
<1>1. Grows(c, Ensure(c, step, ans)) /\ Clip(Ensure(c, step, ans)) BY EnsureGrows DEF Grows
<1> QED BY <1>1, CatchUpGrows, GrowsTransitive DEF EnsureStep

LEMMA AdvanceGrows ==
  ASSUME NEW c, Clip(c), NEW n \in 1..Len(c.jobs), NEW ans
  PROVE  /\ Grows(c, AdvanceAfterSuccess(c, n, ans))
         /\ AdvanceAfterSuccess(c, n, ans) = c \/ c.it.step \in Stages
<1> DEFINE after == AfterSuccess(c, n, ans)
           next == NextStep(c.jobs[n].kind, c.it.mode, SkipDubbing(c))
<1>1. Grows(c, after) /\ Clip(after) BY AfterSuccessGrows DEF Grows
<1>2. after = c \/ c.it.step \in Stages
  <2>1. c.jobs[n].kind \in JobKinds BY JobKnown
  <2> QED BY <2>1 DEF AfterSuccess, JobKinds
<1>3. LeadsOn(c, n, ans) => c.it.step \in Stages
  <2>1. c.jobs[n].kind \in JobKinds BY JobKnown
  <2> QED BY <2>1 DEF LeadsOn, JobKinds
<1> HIDE DEF after, next
<1>4. Grows(c, CatchUp(after, next, ans)) BY <1>1, CatchUpGrows, GrowsTransitive
<1> QED BY <1>1, <1>2, <1>3, <1>4 DEF AdvanceAfterSuccess, after, next

LEMMA ReconciledGrows ==
  ASSUME NEW c, Clip(c), NEW ans
  PROVE  /\ Grows(c, Reconciled(c, ans))
         /\ Reconciled(c, ans) = c \/ InFlight(c.it)
<1> DEFINE counted == c.it.status \in Active /\ IsAuto(c.it) /\ ~IsHeld(c.it) /\ ~c.it.wait
           n == IF counted /\ c.it.step \in Stages THEN AuthorityJob(c.it) ELSE 0
<1>1. CASE n = 0 BY <1>1, GrowsReflexive DEF Reconciled
<1>2. CASE n # 0
  <2>1. counted /\ c.it.step \in Stages BY <1>2
  <2>2. InFlight(c.it) BY <2>1, StageSet DEF InFlight, ParkedSteps
  <2>3. n \in 1..Len(c.jobs)
    <3>1. n = c.it.job \/ n = c.it.link[c.it.step] BY <1>2 DEF AuthorityJob
    <3>2. c.it.job \in Nat /\ c.it.link[c.it.step] \in Nat /\ Len(c.jobs) \in Nat
      BY <2>1, ClipParts, ItemParts
    <3> QED BY <1>2, <2>1, <3>1, <3>2, ClipParts DEF Links
  <2>4. FailedStep(c.jobs[n].kind) \in Steps \cup {"render_preview"}
    <3> HIDE DEF n
    <3>1. c.jobs[n].kind \in JobKinds BY <2>3, JobKnown
    <3> QED BY <3>1 DEF FailedStep, JobKinds, Steps
  <2>5. Reconciled(c, ans) \in {c, AdvanceAfterSuccess(c, n, ans), Attention(c, FailedStep(c.jobs[n].kind))}
    BY <1>2 DEF Reconciled
  <2> HIDE DEF n
  <2> QED BY <2>2, <2>3, <2>4, <2>5, AdvanceGrows, AttentionGrows, GrowsReflexive
<1> QED BY <1>1, <1>2

-----------------------------------------------------------------------------
\* What any transaction may do to a clip.
Serves(c, d) ==
  /\ Clip(d) /\ Len(c.jobs) <= Len(d.jobs) /\ d.talk = c.talk
  /\ d.it.tries \in {c.it.tries, 0}
  /\ IsAuto(c.it) /\ IsAuto(d.it) => Rank(c.it.last) <= Rank(d.it.last)
  /\ d.bind \in {c.bind, "preview"}

LEMMA GrowsServes == \A c, d : Grows(c, d) => Serves(c, d)
BY DEF Grows, Serves

LEMMA GrowsThenServes == \A c, d, e : Clip(c) /\ Grows(c, d) /\ Serves(d, e) => Serves(c, e)
<1> SUFFICES ASSUME NEW c, NEW d, NEW e, Clip(c), Grows(c, d), Serves(d, e) PROVE Serves(c, e)
  OBVIOUS
<1>1. \A x : Clip(x) => Len(x.jobs) \in Nat /\ Rank(x.it.last) \in 0..6
  BY ClipParts, ItemParts
<1>2. Clip(d) /\ Clip(e) BY DEF Grows, Serves
<1> QED BY <1>1, <1>2 DEF Grows, Serves, IsAuto

LEMMA ServesThenGrows == \A c, d, e : Clip(c) /\ Serves(c, d) /\ Grows(d, e) => Serves(c, e)
<1> SUFFICES ASSUME NEW c, NEW d, NEW e, Clip(c), Serves(c, d), Grows(d, e) PROVE Serves(c, e)
  OBVIOUS
<1>1. \A x : Clip(x) => Len(x.jobs) \in Nat /\ Rank(x.it.last) \in 0..6
  BY ClipParts, ItemParts
<1>2. Clip(d) /\ Clip(e) BY DEF Grows, Serves
<1> QED BY <1>1, <1>2 DEF Grows, Serves, IsAuto

\* The same clip with another item, whatever its mode.
LEMMA OtherItem ==
  ASSUME NEW c, Clip(c), NEW it \in ItemType, Links(it, Len(c.jobs)),
         it.tries \in {c.it.tries, 0},
         IsAuto(c.it) /\ IsAuto(it) => Rank(c.it.last) <= Rank(it.last)
  PROVE  Serves(c, [c EXCEPT !.it = it])
<1> DEFINE d == [c EXCEPT !.it = it]
<1>1. d \in ClipType BY DEF Clip, ClipType
<1>2. d.it = it /\ d.jobs = c.jobs /\ d.talk = c.talk /\ d.bind = c.bind BY DEF Clip, ClipType
<1>3. Len(c.jobs) \in Nat /\ (c.bind # "no" => 0 < Len(c.jobs)) BY ClipParts
<1> HIDE DEF d
<1>4. Clip(d) BY <1>1, <1>2, <1>3 DEF Clip
<1>5. Serves(c, d) BY <1>2, <1>3, <1>4 DEF Serves
<1> QED BY <1>5 DEF d

LEMMA UnheldGrows ==
  ASSUME NEW c, Clip(c) PROVE Grows(c, Unheld(c))
<1> DEFINE it == [c.it EXCEPT !.held = FALSE, !.hold = FALSE]
<1>1. c.it \in ItemType /\ Links(c.it, Len(c.jobs)) /\ Rank(c.it.last) \in 0..6 BY ClipParts, ItemParts
<1>2. it \in ItemType BY <1>1 DEF ItemType
<1>3. /\ it.job = c.it.job /\ it.link = c.it.link /\ it.mode = c.it.mode /\ it.wait = c.it.wait
      /\ it.tries = c.it.tries /\ it.last = c.it.last
  BY <1>1 DEF ItemType
<1>4. Unheld(c) = [c EXCEPT !.it = it] BY DEF Unheld
<1> HIDE DEF it
<1>5. Links(it, Len(c.jobs)) BY <1>1, <1>3 DEF Links
<1> QED BY <1>1, <1>2, <1>3, <1>4, <1>5, WithItem

\* set_automation, before anything follows from it.
Switched(c, mode) == [c EXCEPT !.it.mode = mode]

LEMMA SwitchedServes ==
  ASSUME NEW c, Clip(c), NEW mode \in AutoModes \cup {"manual"}
  PROVE  /\ Serves(c, Switched(c, mode)) /\ Clip(Switched(c, mode))
         /\ Switched(c, mode).it.mode = mode /\ Switched(c, mode).it.wait = c.it.wait
         /\ mode = c.it.mode => Switched(c, mode) = c
<1> DEFINE it == [c.it EXCEPT !.mode = mode]
<1>1. c.it \in ItemType /\ Links(c.it, Len(c.jobs)) /\ Rank(c.it.last) \in 0..6 BY ClipParts, ItemParts
<1>2. it \in ItemType BY <1>1 DEF ItemType
<1>3. /\ it.job = c.it.job /\ it.link = c.it.link /\ it.wait = c.it.wait
      /\ it.tries = c.it.tries /\ it.last = c.it.last /\ it.mode = mode
  BY <1>1 DEF ItemType
<1>4. Switched(c, mode) = [c EXCEPT !.it = it] BY DEF Switched
<1>5. [c EXCEPT !.it = it].it = it BY DEF Clip, ClipType
<1>6. mode = c.it.mode => it = c.it BY <1>1 DEF ItemType
<1> HIDE DEF it
<1>7. Links(it, Len(c.jobs)) BY <1>1, <1>3 DEF Links
<1>8. Serves(c, [c EXCEPT !.it = it]) BY <1>1, <1>2, <1>3, <1>7, OtherItem
<1>9. it = c.it => [c EXCEPT !.it = it] = c BY DEF Clip, ClipType
<1> QED BY <1>3, <1>4, <1>5, <1>6, <1>8, <1>9 DEF Serves

LEMMA SetAutomationGrows ==
  ASSUME NEW c, Clip(c), NEW mode \in AutoModes \cup {"manual"}, NEW ans
  PROVE  Grows(Switched(c, mode), SetAutomation(c, mode, ans))
<1> DEFINE start == Switched(c, mode)
           auto == Unheld(start)
           next == NextStep(auto.it.last, mode, SkipDubbing(auto))
<1>1. Clip(start) BY SwitchedServes
<1>2. start = [c EXCEPT !.it.mode = mode] BY DEF Switched
<1> HIDE DEF start
<1>3. Grows(start, auto) /\ Clip(auto) BY <1>1, UnheldGrows DEF Grows
<1> HIDE DEF auto
<1>4. next \in Stages \cup {"none"} BY <1>3, ClipParts, ItemParts, NextStepIn
<1> HIDE DEF next
<1>5. Grows(start, AttentionHere(auto)) BY <1>1, <1>3, AttentionHereGrows, GrowsTransitive
<1>6. Grows(start, EnsureStep(auto, auto.it.step, ans)) BY <1>1, <1>3, EnsureStepGrows, GrowsTransitive
<1>7. Grows(start, Finished(auto))
  <2>1. Grows(auto, Finished(auto)) BY <1>3, FinishedGrows DEF Finished
  <2> QED BY <1>1, <1>3, <2>1, GrowsTransitive
<1>8. Grows(start, EnsureStep(AtStep(auto, next), next, ans))
  <2>1. Grows(auto, AtStep(auto, next)) /\ Clip(AtStep(auto, next))
    BY <1>3, <1>4, AtStepGrows DEF Grows, Steps
  <2>2. Grows(auto, EnsureStep(AtStep(auto, next), next, ans))
    BY <1>3, <2>1, EnsureStepGrows, GrowsTransitive
  <2> QED BY <1>1, <1>3, <2>2, GrowsTransitive
<1>9. Grows(start, start) BY <1>1, GrowsReflexive
<1>10. SetAutomation(c, mode, ans) \in
         {start, auto, AttentionHere(auto), EnsureStep(auto, auto.it.step, ans), Finished(auto),
          EnsureStep(AtStep(auto, next), next, ans)}
  BY <1>2 DEF SetAutomation, auto, next
<1>11. Grows(start, SetAutomation(c, mode, ans))
  BY <1>3, <1>5, <1>6, <1>7, <1>8, <1>9, <1>10
<1> QED BY <1>11 DEF start

LEMMA ResumeItemGrows ==
  ASSUME NEW c, Clip(c), NEW ans PROVE Grows(c, ResumeItem(c, ans))
<1> DEFINE free == Unheld(c)
           step == ResumeStep(c)
           at == IF c.it.step = "needs_attention" THEN AtStep(free, step) ELSE free
           again == [at EXCEPT !.it.failed = "none"]
<1>1. Grows(c, free) /\ Clip(free) BY UnheldGrows DEF Grows
<1>2. step \in Steps \cup {"keep", "switch"}
  <2>1. c.it.step \in Steps BY ClipParts, ItemParts
  <2> QED BY <2>1, StageSet DEF ResumeStep, Steps, ParkedSteps
<1> HIDE DEF free, step
<1>3. Grows(c, SetAutomation(free, free.it.mode, ans))
  <2>1. free.it.mode \in AutoModes \cup {"manual"} BY <1>1, ClipParts, ItemParts
  <2>2. Grows(Switched(free, free.it.mode), SetAutomation(free, free.it.mode, ans))
    BY <1>1, <2>1, SetAutomationGrows
  <2>3. Switched(free, free.it.mode) = free BY <1>1, <2>1, SwitchedServes
  <2> QED BY <1>1, <2>2, <2>3, GrowsTransitive
<1>4. ASSUME step \notin {"keep", "switch"} PROVE Grows(c, EnsureStep(again, step, ans))
  <2>1. step \in Steps BY <1>2, <1>4
  <2>2. Grows(c, at) /\ Clip(at)
    <3>1. Grows(free, AtStep(free, step)) BY <1>1, <2>1, AtStepGrows
    <3> QED BY <1>1, <3>1, GrowsTransitive DEF Grows
  <2> HIDE DEF at
  <2>3. Grows(at, again)
    <3> DEFINE it == [at.it EXCEPT !.failed = "none"]
    <3>1. at.it \in ItemType /\ Links(at.it, Len(at.jobs)) /\ Rank(at.it.last) \in 0..6
      BY <2>2, ClipParts, ItemParts
    <3>2. it \in ItemType BY <3>1 DEF ItemType
    <3>3. /\ it.job = at.it.job /\ it.link = at.it.link /\ it.mode = at.it.mode /\ it.wait = at.it.wait
          /\ it.tries = at.it.tries /\ it.last = at.it.last
      BY <3>1 DEF ItemType
    <3>4. again = [at EXCEPT !.it = it] OBVIOUS
    <3> HIDE DEF it, again
    <3>5. Links(it, Len(at.jobs)) BY <3>1, <3>3 DEF Links
    <3> QED BY <2>2, <3>1, <3>2, <3>3, <3>4, <3>5, WithItem
  <2> HIDE DEF again
  <2>4. Grows(c, again) /\ Clip(again) BY <2>2, <2>3, GrowsTransitive DEF Grows
  <2> QED BY <2>4, EnsureStepGrows, GrowsTransitive
<1>5. \/ step = "keep" /\ ResumeItem(c, ans) = free
      \/ step = "switch" /\ ResumeItem(c, ans) = SetAutomation(free, free.it.mode, ans)
      \/ step \notin {"keep", "switch"} /\ ResumeItem(c, ans) = EnsureStep(again, step, ans)
  <2>1. CASE step = "keep" BY <2>1 DEF ResumeItem, free, step
  <2>2. CASE step = "switch" BY <2>2 DEF ResumeItem, free, step
  <2>3. CASE step \notin {"keep", "switch"} BY <2>3 DEF ResumeItem, free, step
  <2> QED BY <2>1, <2>2, <2>3
<1> HIDE DEF at, again
<1> QED BY <1>1, <1>3, <1>4, <1>5

-----------------------------------------------------------------------------
\* A second remediation of one authority is the last one.
Capped(d, ans) == d.bind = "residual" => d.it.tries < 2 \/ ans = "residual_new"

\* What the settlement of a job does to its clip.
Settles(c, d, ans) ==
  /\ Clip(d) /\ Len(c.jobs) <= Len(d.jobs) /\ d.talk = c.talk
  /\ d.it.mode = c.it.mode /\ d.it.wait = c.it.wait /\ d.it.tries = c.it.tries
  /\ Rank(c.it.last) <= Rank(d.it.last)
  /\ Capped(d, ans) /\ (c.it.mode # "auto_to_render" => d.bind = c.bind)

LEMMA GrowsSettles ==
  ASSUME NEW c, NEW d, NEW ans, Grows(c, d), c.bind # "residual"
  PROVE  Settles(c, d, ans)
BY DEF Grows, Settles, Capped

LEMMA RemediateSettles ==
  ASSUME NEW c, Clip(c), c.bind = "no", c.it.mode = "auto_to_render", NEW ans \in {"residual", "residual_new"}
  PROVE  Settles(c, Remediate(c, ans), ans)
<1>1. CASE c.it.tries >= 2 /\ ans = "residual"
  BY <1>1, AttentionHereGrows, GrowsSettles DEF Remediate
<1>2. CASE ~(c.it.tries >= 2 /\ ans = "residual")
  <2> DEFINE d == QueuePreview(c, "residual")
  <2>1. Clip(d) /\ Len(d.jobs) = Len(c.jobs) + 1 /\ d.it = c.it /\ d.talk = c.talk
    BY QueuePreviewGrows
  <2>2. Len(c.jobs) \in Nat /\ c.it.tries \in Nat /\ Rank(c.it.last) \in 0..6 BY ClipParts, ItemParts
  <2> HIDE DEF d
  <2>3. Settles(c, d, ans) BY <1>2, <2>1, <2>2 DEF Settles, Capped
  <2> QED BY <1>2, <2>3 DEF Remediate, d
<1> QED BY <1>1, <1>2

LEMMA AfterPreviewSettles ==
  ASSUME NEW c, Clip(c), c.bind = "no", NEW ans
  PROVE  Settles(c, AfterPreview(c, ans), ans)
<1>1. Settles(c, ParkForQuality(c), ans) BY ParkGrows, GrowsSettles
<1>2. Settles(c, EnsureRender(AtStep(c, "render"), ans), ans) BY RenderGrows, GrowsSettles
<1>3. Settles(c, AttentionHere(c), ans) BY AttentionHereGrows, GrowsSettles
<1> QED BY <1>1, <1>2, <1>3, RemediateSettles DEF AfterPreview

LEMMA SyncDownloadGrows ==
  ASSUME NEW c, Clip(c), NEW n, NEW out
  PROVE  /\ Grows(c, SyncDownload(c, n, out))
         /\ SyncDownload(c, n, out).it.step = c.it.step
         /\ SyncDownload(c, n, out).it.status \in {c.it.status, "FAILED"}
         /\ SyncDownload(c, n, out).bind = c.bind /\ SyncDownload(c, n, out).jobs = c.jobs
<1> DEFINE good == [c.it EXCEPT !.fetched = TRUE]
           bad == [c.it EXCEPT !.status = "FAILED", !.fetched = FALSE]
<1>1. c.it \in ItemType /\ Links(c.it, Len(c.jobs)) /\ Rank(c.it.last) \in 0..6 BY ClipParts, ItemParts
<1>2. good \in ItemType /\ bad \in ItemType BY <1>1, ZenonT(60) DEF ItemType
<1>3. ASSUME NEW it \in {good, bad}
      PROVE  /\ it.job = c.it.job /\ it.link = c.it.link /\ it.mode = c.it.mode
             /\ it.wait = c.it.wait /\ it.tries = c.it.tries /\ it.last = c.it.last
             /\ it.step = c.it.step /\ it.status \in {c.it.status, "FAILED"}
  BY <1>1 DEF ItemType
<1>4. SyncDownload(c, n, out) \in {c, [c EXCEPT !.it = good], [c EXCEPT !.it = bad]}
  BY DEF SyncDownload
<1> HIDE DEF good, bad
<1>5. ASSUME NEW it \in {good, bad}
      PROVE  /\ Grows(c, [c EXCEPT !.it = it]) /\ [c EXCEPT !.it = it].it = it
             /\ [c EXCEPT !.it = it].bind = c.bind /\ [c EXCEPT !.it = it].jobs = c.jobs
  <2>1. it \in ItemType BY <1>2
  <2>2. Links(it, Len(c.jobs)) BY <1>1, <1>3 DEF Links
  <2>3. Grows(c, [c EXCEPT !.it = it]) BY <1>1, <1>3, <2>1, <2>2, WithItem
  <2>4. /\ [c EXCEPT !.it = it].it = it
        /\ [c EXCEPT !.it = it].bind = c.bind /\ [c EXCEPT !.it = it].jobs = c.jobs
    BY DEF Clip, ClipType
  <2> QED BY <2>3, <2>4
<1>6. CASE SyncDownload(c, n, out) = c BY <1>6, GrowsReflexive
<1>7. CASE SyncDownload(c, n, out) = [c EXCEPT !.it = good] BY <1>3, <1>5, <1>7
<1>8. CASE SyncDownload(c, n, out) = [c EXCEPT !.it = bad] BY <1>3, <1>5, <1>8
<1> QED BY <1>4, <1>6, <1>7, <1>8

LEMMA AdvancedSettles ==
  ASSUME NEW c, Clip(c), c.bind = "no", NEW n \in 1..Len(c.jobs),
         NEW out \in {"completed", "failed"}, NEW ans
  PROVE  Settles(c, Advanced(c, n, out, ans), ans)
<1> DEFINE kind == c.jobs[n].kind
           noted == IF out = "completed" THEN Recorded(c, kind) ELSE c
           d == Advanced(c, n, out, ans)
<1>1. Grows(c, noted) /\ Clip(noted) BY RecordedGrows, GrowsReflexive DEF Grows
<1>2. noted.bind = "no" /\ noted.jobs = c.jobs
  <2>1. Recorded(c, kind).bind = c.bind /\ Recorded(c, kind).jobs = c.jobs
    BY DEF Recorded, Clip, ClipType
  <2> QED BY <2>1
<1>3. FailedStep(kind) \in Steps \cup {"render_preview"}
  <2>1. kind \in JobKinds BY JobKnown
  <2> QED BY <2>1 DEF FailedStep, JobKinds, Steps
<1>4. ASSUME NEW e, Settles(noted, e, ans) PROVE Settles(c, e, ans)
  <2>1. \A x : Clip(x) => Len(x.jobs) \in Nat /\ Rank(x.it.last) \in 0..6
    BY ClipParts, ItemParts
  <2> HIDE DEF noted
  <2>2. Clip(e) BY <1>4 DEF Settles
  <2> QED BY <1>1, <1>4, <2>1, <2>2 DEF Settles, Grows
<1> HIDE DEF kind
<1>5. \/ d = noted \/ d = Attention(noted, FailedStep(kind))
      \/ /\ d = Remediate(noted, ans) /\ ans \in {"residual", "residual_new"}
         /\ noted.it.mode = "auto_to_render"
      \/ d = AfterPreview(noted, ans) \/ d = AdvanceAfterSuccess(noted, n, ans)
  BY DEF Advanced, FailedPreviewHeals, kind
<1> HIDE DEF noted, d
<1>6. Settles(noted, noted, ans) BY <1>1, <1>2, GrowsReflexive, GrowsSettles
<1>7. Settles(noted, Attention(noted, FailedStep(kind)), ans)
  BY <1>1, <1>2, <1>3, AttentionGrows, GrowsSettles
<1>8. Settles(noted, AfterPreview(noted, ans), ans) BY <1>1, <1>2, AfterPreviewSettles
<1>9. Settles(noted, AdvanceAfterSuccess(noted, n, ans), ans)
  BY <1>1, <1>2, AdvanceGrows, GrowsSettles
<1>10. ans \in {"residual", "residual_new"} /\ noted.it.mode = "auto_to_render"
        => Settles(noted, Remediate(noted, ans), ans)
  BY <1>1, <1>2, RemediateSettles
<1>11. Settles(c, d, ans) BY <1>4, <1>5, <1>6, <1>7, <1>8, <1>9, <1>10
<1> QED BY <1>11 DEF d

-----------------------------------------------------------------------------
\* An update of columns and keys that the links, the mode and the progress do not depend on.
LEMMA MinorGrows ==
  ASSUME NEW c, Clip(c), NEW it \in ItemType, it.job = c.it.job, it.link = c.it.link,
         it.mode = c.it.mode, it.wait = c.it.wait, it.tries = c.it.tries, it.last = c.it.last
  PROVE  Grows(c, [c EXCEPT !.it = it])
<1>1. c.it \in ItemType /\ Links(c.it, Len(c.jobs)) /\ Rank(c.it.last) \in 0..6 BY ClipParts, ItemParts
<1>2. Links(it, Len(c.jobs)) BY <1>1 DEF Links
<1> QED BY <1>1, <1>2, WithItem

LEMMA StatusGrows ==
  ASSUME NEW c, Clip(c), NEW status \in ItemStatuses
  PROVE  Grows(c, [c EXCEPT !.it.status = status])
<1> DEFINE it == [c.it EXCEPT !.status = status]
<1>1. c.it \in ItemType BY ClipParts
<1>2. it \in ItemType BY <1>1 DEF ItemType, ItemStatuses
<1>3. /\ it.job = c.it.job /\ it.link = c.it.link /\ it.mode = c.it.mode /\ it.wait = c.it.wait
      /\ it.tries = c.it.tries /\ it.last = c.it.last
  BY <1>1 DEF ItemType
<1> HIDE DEF it
<1>4. Grows(c, [c EXCEPT !.it = it]) BY <1>2, <1>3, MinorGrows
<1> QED BY <1>4 DEF it

LEMMA UnpausedGrows ==
  ASSUME NEW c, Clip(c) PROVE Grows(c, [c EXCEPT !.it.held = FALSE])
<1> DEFINE it == [c.it EXCEPT !.held = FALSE]
<1>1. c.it \in ItemType BY ClipParts
<1>2. it \in ItemType BY <1>1 DEF ItemType
<1>3. /\ it.job = c.it.job /\ it.link = c.it.link /\ it.mode = c.it.mode /\ it.wait = c.it.wait
      /\ it.tries = c.it.tries /\ it.last = c.it.last
  BY <1>1 DEF ItemType
<1> HIDE DEF it
<1>4. Grows(c, [c EXCEPT !.it = it]) BY <1>2, <1>3, MinorGrows
<1> QED BY <1>4 DEF it

LEMMA BlockedGrows ==
  ASSUME NEW c, Clip(c) PROVE Grows(c, Blocked(c))
BY StatusGrows DEF Blocked, ItemStatuses

LEMMA DroppedGrows ==
  ASSUME NEW c, Clip(c)
  PROVE  /\ Grows(c, Released(c, c.it.job)) /\ Grows(c, UseJob(Released(c, c.it.job), 0))
<1>1. c.it.job \in 0..Len(c.jobs) BY ClipParts, ItemParts DEF Links
<1>2. Grows(c, Released(c, c.it.job)) BY <1>1, ReleasedGrows
<1>3. Clip(Released(c, c.it.job)) BY <1>2 DEF Grows
<1>4. 0 \in 0..Len(Released(c, c.it.job).jobs) BY <1>3, ClipParts
<1>5. Grows(Released(c, c.it.job), UseJob(Released(c, c.it.job), 0)) BY <1>3, <1>4, UseJobGrows
<1> QED BY <1>2, <1>5, GrowsTransitive

LEMMA FetchingGrows ==
  ASSUME NEW was, Clip(was), NEW c, Grows(was, c)
  PROVE  Grows(c, [DownloadJob(c, was) EXCEPT !.it.status = "MEDIA"])
<1>0. Clip(c) /\ Len(was.jobs) <= Len(c.jobs) BY DEF Grows
<1>1. Grows(c, DownloadJob(c, was)) /\ Clip(DownloadJob(c, was)) BY <1>0, DownloadJobGrows DEF Grows
<1>2. Grows(DownloadJob(c, was), [DownloadJob(c, was) EXCEPT !.it.status = "MEDIA"])
  BY <1>1, StatusGrows DEF ItemStatuses, Active
<1> QED BY <1>0, <1>1, <1>2, GrowsTransitive

LEMMA StartedByHandServes ==
  ASSUME NEW c, Clip(c), NEW ans PROVE Serves(c, StartedByHand(c, ans))
<1> DEFINE it == [c.it EXCEPT !.started = TRUE, !.held = FALSE, !.mode = "manual",
                              !.hold = FALSE, !.step = "download"]
           begun == [c EXCEPT !.it = it]
           kept == KeepDownload(begun)
<1>1. c.it \in ItemType /\ Links(c.it, Len(c.jobs)) /\ "download" \in Stages BY ClipParts, StageSet
<1>2. it \in ItemType BY <1>1 DEF ItemType
<1>3. /\ it.job = c.it.job /\ it.link = c.it.link /\ it.tries = c.it.tries /\ ~IsAuto(it)
  BY <1>1 DEF ItemType, IsAuto, AutoModes
<1> HIDE DEF it
<1>4. Links(it, Len(c.jobs)) BY <1>1, <1>3 DEF Links
<1>5. Serves(c, begun) /\ Clip(begun) BY <1>2, <1>3, <1>4, OtherItem DEF Serves
<1> HIDE DEF begun
<1>6. Grows(begun, kept) /\ Clip(kept) BY <1>5, KeepDownloadGrows DEF Grows
<1> HIDE DEF kept
<1>7. Grows(begun, Blocked(kept)) BY <1>5, <1>6, BlockedGrows, GrowsTransitive
<1>8. Grows(begun, [DownloadJob(kept, begun) EXCEPT !.it.status = "MEDIA"])
  BY <1>5, <1>6, FetchingGrows, GrowsTransitive
<1>9. StartedByHand(c, ans) \in {Blocked(kept), [DownloadJob(kept, begun) EXCEPT !.it.status = "MEDIA"]}
  BY DEF StartedByHand, kept, begun, it
<1> QED BY <1>5, <1>7, <1>8, <1>9, ServesThenGrows

LEMMA AnalyzeByHandGrows ==
  ASSUME NEW c, Clip(c), NEW ans PROVE Grows(c, AnalyzeByHand(c, ans))
<1> DEFINE kept == Shed(c, "analyze_audio")
           bound == IF Owns(kept, "analyze_audio") THEN kept ELSE SingleFlight(kept, "analyze_audio")
           it == [bound.it EXCEPT !.status = "METADATA", !.link["analyze_audio"] = bound.it.job]
<1>1. Grows(c, kept) /\ Clip(kept) BY ShedGrows DEF Grows
<1> HIDE DEF kept
<1>2. Grows(c, bound) /\ Clip(bound)
  <2>1. "analyze_audio" \in Stages BY StageSet
  <2>2. Grows(c, SingleFlight(kept, "analyze_audio")) BY <1>1, <2>1, SingleFlightGrows, GrowsTransitive
  <2> QED BY <1>1, <2>2 DEF Grows
<1>3. Grows(c, Blocked(kept)) BY <1>1, BlockedGrows, GrowsTransitive
<1> HIDE DEF bound
<1>4. Grows(c, [bound EXCEPT !.it = it])
  <2>1. /\ bound.it \in ItemType /\ Links(bound.it, Len(bound.jobs)) /\ Rank(bound.it.last) \in 0..6
        /\ bound.it.link \in [Stages -> Nat] /\ bound.it.job \in Nat /\ "analyze_audio" \in Stages
    BY <1>2, ClipParts, ItemParts, StageSet
  <2> DEFINE link == [bound.it.link EXCEPT !["analyze_audio"] = bound.it.job]
  <2>2. link \in [Stages -> Nat] BY <2>1
  <2>3. \A s \in Stages : link[s] <= Len(bound.jobs) BY <2>1 DEF Links
  <2>4. it = [bound.it EXCEPT !.status = "METADATA", !.link = link] OBVIOUS
  <2> HIDE DEF link, it
  <2>5. it \in ItemType BY <2>1, <2>2, <2>4 DEF ItemType, Active
  <2>6. /\ it.job = bound.it.job /\ it.link = link /\ it.mode = bound.it.mode
        /\ it.wait = bound.it.wait /\ it.tries = bound.it.tries /\ it.last = bound.it.last
    BY <2>1, <2>4 DEF ItemType
  <2>7. Links(it, Len(bound.jobs)) BY <2>1, <2>3, <2>6 DEF Links
  <2>8. Grows(bound, [bound EXCEPT !.it = it])
    BY <1>2, <2>1, <2>5, <2>6, <2>7, WithItem, SMTT(40)
  <2> QED BY <1>2, <2>8, GrowsTransitive
<1>5. AnalyzeByHand(c, ans) \in {Blocked(kept), [bound EXCEPT !.it = it]}
  BY DEF AnalyzeByHand, kept, bound
<1> QED BY <1>3, <1>4, <1>5

LEMMA MediaReadyGrows ==
  ASSUME NEW c, Clip(c), NEW ans PROVE Grows(c, MediaReady(c, ans))
<1> DEFINE it == [c.it EXCEPT !.ready = TRUE, !.held = FALSE]
           got == [c EXCEPT !.it = it]
<1>1. c.it \in ItemType BY ClipParts
<1>2. it \in ItemType BY <1>1 DEF ItemType
<1>3. /\ it.job = c.it.job /\ it.link = c.it.link /\ it.mode = c.it.mode /\ it.wait = c.it.wait
      /\ it.tries = c.it.tries /\ it.last = c.it.last
  BY <1>1 DEF ItemType
<1> HIDE DEF it
<1>4. Grows(c, got) /\ Clip(got) BY <1>2, <1>3, MinorGrows DEF Grows
<1> HIDE DEF got
<1>5. Grows(c, AnalyzeByHand(got, ans)) BY <1>4, AnalyzeByHandGrows, GrowsTransitive
<1> QED BY <1>5 DEF MediaReady, got, it

LEMMA ResumedByHandGrows ==
  ASSUME NEW c, Clip(c), NEW ans PROVE Grows(c, ResumedByHand(c, ans))
<1> DEFINE freed == UseJob(Released(c, c.it.job), 0)
           begun == [freed EXCEPT !.it.started = TRUE]
<1>1. Grows(c, freed) /\ Clip(freed) BY DroppedGrows DEF Grows
<1> HIDE DEF freed
<1>2. Grows(c, begun) /\ Clip(begun)
  <2>1. Grows(freed, begun) BY <1>1, StartedGrows
  <2> HIDE DEF begun
  <2> QED BY <1>1, <2>1, GrowsTransitive DEF Grows
<1> HIDE DEF begun
<1>3. Grows(c, AnalyzeByHand(freed, ans)) BY <1>1, AnalyzeByHandGrows, GrowsTransitive
<1>4. Grows(c, Blocked(begun)) BY <1>2, BlockedGrows, GrowsTransitive
<1>5. Grows(c, [DownloadJob(begun, c) EXCEPT !.it.status = "MEDIA"])
  BY <1>2, FetchingGrows, GrowsTransitive
<1>6. Grows(c, [c EXCEPT !.it.status = "READY"]) BY StatusGrows DEF ItemStatuses, Active
<1>7. ResumedByHand(c, ans) \in
        {AnalyzeByHand(freed, ans), Blocked(begun), [DownloadJob(begun, c) EXCEPT !.it.status = "MEDIA"],
         [c EXCEPT !.it.status = "READY"]}
  BY DEF ResumedByHand, freed, begun
<1> QED BY <1>3, <1>4, <1>5, <1>6, <1>7

LEMMA ResumedGrows ==
  ASSUME NEW c, Clip(c), NEW ans PROVE Grows(c, Resumed(c, ans))
<1> DEFINE free == [c EXCEPT !.it.held = FALSE]
<1>1. Grows(c, free) /\ Clip(free) BY UnpausedGrows DEF Grows
<1> HIDE DEF free
<1>2. Grows(c, ResumeItem(free, ans)) BY <1>1, ResumeItemGrows, GrowsTransitive
<1>3. Grows(c, ResumedByHand(free, ans)) BY <1>1, ResumedByHandGrows, GrowsTransitive
<1> QED BY <1>2, <1>3 DEF Resumed, free

LEMMA RetriedServes ==
  ASSUME NEW c, Clip(c) PROVE Serves(c, Retried(c))
<1> DEFINE freed == Released(c, c.it.job)
           it == [freed.it EXCEPT !.status = "READY", !.job = 0, !.held = FALSE,
                                  !.mode = "manual", !.hold = FALSE, !.step = "none"]
<1>1. Grows(c, freed) /\ Clip(freed) BY DroppedGrows DEF Grows
<1> HIDE DEF freed
<1>2. freed.it \in ItemType /\ Links(freed.it, Len(freed.jobs)) /\ Len(freed.jobs) \in Nat
  BY <1>1, ClipParts
<1>3. it \in ItemType BY <1>2 DEF ItemType, Active
<1>4. it.job = 0 /\ it.link = freed.it.link /\ it.tries = freed.it.tries /\ ~IsAuto(it)
  BY <1>2 DEF ItemType, IsAuto, AutoModes
<1> HIDE DEF it
<1>5. Links(it, Len(freed.jobs)) BY <1>2, <1>4 DEF Links
<1>6. Serves(freed, [freed EXCEPT !.it = it]) BY <1>1, <1>3, <1>4, <1>5, OtherItem
<1>7. Serves(c, [freed EXCEPT !.it = it]) BY <1>1, <1>6, GrowsThenServes
<1> QED BY <1>7 DEF Retried, freed, it

LEMMA ReactivatedServes ==
  ASSUME NEW c, Clip(c) PROVE Serves(c, Reactivated(c))
<1> DEFINE freed == Released(c, c.it.job)
           it == [NewItem EXCEPT !.started = c.it.started, !.ready = c.it.ready]
<1>1. Grows(c, freed) /\ Clip(freed) BY DroppedGrows DEF Grows
<1> HIDE DEF freed
<1>2. Len(freed.jobs) \in Nat /\ c.it \in ItemType BY <1>1, ClipParts
<1>3. it \in ItemType BY <1>2, ZenonT(60) DEF ItemType, NewItem, Active
<1>4. it.job = 0 /\ it.link = [s \in Stages |-> 0] /\ it.tries = 0 /\ ~IsAuto(it)
  BY DEF NewItem, IsAuto, AutoModes
<1> HIDE DEF it
<1>5. Links(it, Len(freed.jobs)) BY <1>2, <1>4 DEF Links
<1>6. Serves(freed, [freed EXCEPT !.it = it]) BY <1>1, <1>3, <1>4, <1>5, OtherItem
<1>7. Serves(c, [freed EXCEPT !.it = it]) BY <1>1, <1>6, GrowsThenServes
<1> QED BY <1>7 DEF Reactivated, freed, it

LEMMA PausedGrows ==
  ASSUME NEW c, Clip(c) PROVE Grows(c, Paused(c)) /\ Len(Paused(c).jobs) = Len(c.jobs)
<1> DEFINE freed == Released(c, c.it.job)
           it == [freed.it EXCEPT !.held = TRUE, !.hold = IF IsAuto(c.it) THEN TRUE ELSE @]
<1>1. Grows(c, freed) /\ Clip(freed) BY DroppedGrows DEF Grows
<1>2. Len(freed.jobs) = Len(c.jobs) /\ Paused(c) = [freed EXCEPT !.it = it]
  <2>1. Len(freed.jobs) = Len(c.jobs)
    <3>1. CASE c.it.job = 0 BY <3>1 DEF Released
    <3>2. CASE c.it.job # 0
      <4>1. freed.jobs = [c.jobs EXCEPT ![c.it.job].key = FALSE] BY <3>2 DEF Released, Clip, ClipType
      <4>2. DOMAIN freed.jobs = DOMAIN c.jobs BY <4>1
      <4>3. freed.jobs \in Seq(JobType) /\ c.jobs \in Seq(JobType) BY <1>1, ClipParts
      <4> HIDE DEF freed
      <4> QED BY <4>2, <4>3, LenProperties
    <3> QED BY <3>1, <3>2
  <2>2. Paused(c) = [freed EXCEPT !.it = it] BY DEF Paused
  <2> QED BY <2>1, <2>2
<1> HIDE DEF freed
<1>3. freed.it \in ItemType BY <1>1, ClipParts
<1>4. it \in ItemType BY <1>3, ZenonT(60) DEF ItemType
<1>5. /\ it.job = freed.it.job /\ it.link = freed.it.link /\ it.mode = freed.it.mode
      /\ it.wait = freed.it.wait /\ it.tries = freed.it.tries /\ it.last = freed.it.last
  BY <1>3 DEF ItemType
<1> HIDE DEF it
<1>6. Grows(freed, [freed EXCEPT !.it = it]) BY <1>1, <1>4, <1>5, MinorGrows
<1>7. [freed EXCEPT !.it = it].jobs = freed.jobs BY <1>1 DEF Clip, ClipType
<1> QED BY <1>1, <1>2, <1>6, <1>7, GrowsTransitive

LEMMA ApprovedGrows ==
  ASSUME NEW c, Clip(c), NEW ans
  PROVE  Grows(c, ApprovedText(c, ans)) /\ Grows(c, ApprovedQuality(c, ans))
<1>1. "tts" \in Steps BY StageSet DEF Steps
<1>2. Grows(c, Ensure(AtStep(c, "tts"), "tts", ans)) BY <1>1, AtStepThenGrows
<1>3. Grows(c, EnsureTts(AtStep(c, "tts"), ans)) BY <1>2 DEF Ensure
<1> QED BY <1>3, RenderGrows, GrowsReflexive DEF ApprovedText, ApprovedQuality

LEMMA AppliedServes ==
  ASSUME NEW c, Clip(c), NEW t, t.mode \in AutoModes \cup {"manual"}
  PROVE  Serves(c, Applied(c, t))
<1>1. Serves(c, SetAutomation(c, t.mode, t.ans))
  <2>1. Clip(Switched(c, t.mode)) /\ Serves(c, Switched(c, t.mode)) BY SwitchedServes
  <2>2. Grows(Switched(c, t.mode), SetAutomation(c, t.mode, t.ans)) BY SetAutomationGrows
  <2> QED BY <2>1, <2>2, ServesThenGrows
<1>2. Serves(c, Paused(c)) BY PausedGrows, GrowsServes
<1>3. Serves(c, Resumed(c, t.ans)) BY ResumedGrows, GrowsServes
<1>4. Serves(c, [c EXCEPT !.it.status = "CANCELLED"])
  BY StatusGrows, GrowsServes DEF ItemStatuses
<1>5. Serves(c, Blocked(c)) BY BlockedGrows, GrowsServes
<1>6. Serves(c, MediaReady(c, t.ans)) BY MediaReadyGrows, GrowsServes
<1>7. Serves(c, ApprovedText(c, t.ans)) /\ Serves(c, ApprovedQuality(c, t.ans))
  BY ApprovedGrows, GrowsServes
<1>8. Applied(c, t) \in
        {SetAutomation(c, t.mode, t.ans), Paused(c), Resumed(c, t.ans), Retried(c),
         [c EXCEPT !.it.status = "CANCELLED"], Blocked(c), StartedByHand(c, t.ans),
         MediaReady(c, t.ans), ApprovedText(c, t.ans), ApprovedQuality(c, t.ans), Reactivated(c)}
  BY DEF Applied
<1> QED BY <1>1, <1>2, <1>3, <1>4, <1>5, <1>6, <1>7, <1>8, RetriedServes, StartedByHandServes,
           ReactivatedServes

-----------------------------------------------------------------------------
LEMMA ReconcileGrows ==
  ASSUME NEW db, \A i \in Items : Clip(db[i]), NEW ids, NEW seat, NEW i \in Items
  PROVE  Grows(db[i], Reconcile(db, ids, seat)[i])
BY ReconciledGrows, GrowsReflexive DEF Reconcile

\* The clip is given its slot.
Seated(c) == [c EXCEPT !.it.wait = FALSE]

LEMMA SeatedServes ==
  ASSUME NEW c, Clip(c)
  PROVE  /\ Serves(c, Seated(c)) /\ Clip(Seated(c))
         /\ Seated(c).it.mode = c.it.mode
<1> DEFINE it == [c.it EXCEPT !.wait = FALSE]
<1>1. c.it \in ItemType /\ Links(c.it, Len(c.jobs)) /\ Rank(c.it.last) \in 0..6 BY ClipParts, ItemParts
<1>2. it \in ItemType BY <1>1 DEF ItemType
<1>3. /\ it.job = c.it.job /\ it.link = c.it.link /\ it.tries = c.it.tries /\ it.last = c.it.last
      /\ it.mode = c.it.mode
  BY <1>1 DEF ItemType
<1>4. Seated(c) = [c EXCEPT !.it = it] BY DEF Seated
<1>5. [c EXCEPT !.it = it].it = it BY DEF Clip, ClipType
<1> HIDE DEF it
<1>6. Links(it, Len(c.jobs)) BY <1>1, <1>3 DEF Links
<1>7. Serves(c, [c EXCEPT !.it = it]) BY <1>1, <1>2, <1>3, <1>6, OtherItem
<1> QED BY <1>3, <1>4, <1>5, <1>7 DEF Serves

LEMMA AdmittedServes ==
  ASSUME NEW c, Clip(c), NEW seat
  PROVE  /\ Serves(c, SetAutomation(Seated(c), c.it.mode, seat))
         /\ SetAutomation(Seated(c), c.it.mode, seat).it.mode = c.it.mode
<1> DEFINE at == Seated(c)
<1>1. Serves(c, at) /\ Clip(at) /\ at.it.mode = c.it.mode BY SeatedServes
<1>2. c.it.mode \in AutoModes \cup {"manual"} BY ClipParts, ItemParts
<1> HIDE DEF at
<1>3. Switched(at, c.it.mode) = at BY <1>1, <1>2, SwitchedServes
<1>4. Grows(Switched(at, c.it.mode), SetAutomation(at, c.it.mode, seat)) BY <1>1, <1>2, SetAutomationGrows
<1>5. Serves(c, SetAutomation(at, c.it.mode, seat)) BY <1>1, <1>3, <1>4, ServesThenGrows
<1>6. SetAutomation(at, c.it.mode, seat).it.mode = c.it.mode BY <1>1, <1>3, <1>4 DEF Grows
<1> QED BY <1>5, <1>6 DEF at

LEMMA AdmitServes ==
  ASSUME NEW db, \A i \in Items : Clip(db[i]), NEW seat, NEW i \in Items
  PROVE  /\ Serves(db[i], Admit(db, seat)[i])
         /\ Admit(db, seat)[i].it.mode = db[i].it.mode
<1> DEFINE fresh == Reconcile(db, Items, seat)
           plan == AdmissionPlan(fresh)
<1>1. Grows(db[i], fresh[i]) /\ Clip(fresh[i]) BY ReconcileGrows DEF Grows
<1>2. Admit(db, seat)[i] = IF i \in plan THEN SetAutomation(Seated(fresh[i]), fresh[i].it.mode, seat)
                           ELSE fresh[i]
  BY DEF Admit, Seated
<1> HIDE DEF fresh, plan
<1>3. /\ Serves(db[i], SetAutomation(Seated(fresh[i]), fresh[i].it.mode, seat))
      /\ SetAutomation(Seated(fresh[i]), fresh[i].it.mode, seat).it.mode = db[i].it.mode
  BY <1>1, AdmittedServes, GrowsThenServes DEF Grows
<1>4. Serves(db[i], fresh[i]) /\ fresh[i].it.mode = db[i].it.mode BY <1>1, GrowsServes DEF Grows
<1> QED BY <1>2, <1>3, <1>4

LEMMA StartedAutoServes ==
  ASSUME NEW db, \A i \in Items : Clip(db[i]), NEW mine \in Items,
         NEW mode \in AutoModes \cup {"manual"}, NEW ans, NEW i \in Items
  PROVE  Serves(db[i], StartedAuto(db, mine, mode, ans)[i])
<1> DEFINE seen == Reconcile(db, Items \ {mine}, ans)
           c == [seen[mine] EXCEPT !.it.held = FALSE]
           it == [c.it EXCEPT !.mode = mode, !.hold = FALSE, !.wait = TRUE]
           parked == [c EXCEPT !.it = it]
           going == [c EXCEPT !.it.started = TRUE]
           begun == SetAutomation(going, mode, ans)
<1>1. \A k \in Items : Grows(db[k], seen[k]) /\ Clip(seen[k]) BY ReconcileGrows DEF Grows
<1>2. StartedAuto(db, mine, mode, ans)[i] =
        IF i = mine THEN (IF LaneFull(seen, mine) THEN parked ELSE begun) ELSE seen[i]
  <2>1. seen = [k \in Items |-> seen[k]] BY DEF Reconcile
  <2> QED BY <2>1 DEF StartedAuto
<1> HIDE DEF seen
<1>3. Grows(seen[mine], c) /\ Clip(c) BY <1>1, UnpausedGrows DEF Grows
<1> HIDE DEF c
<1>4. Serves(c, parked)
  <2>1. c.it \in ItemType /\ Links(c.it, Len(c.jobs)) /\ Rank(c.it.last) \in 0..6
    BY <1>3, ClipParts, ItemParts
  <2>2. it \in ItemType BY <2>1 DEF ItemType
  <2>3. it.job = c.it.job /\ it.link = c.it.link /\ it.tries = c.it.tries /\ it.last = c.it.last
    BY <2>1 DEF ItemType
  <2> HIDE DEF it
  <2>4. Links(it, Len(c.jobs)) BY <2>1, <2>3 DEF Links
  <2> QED BY <1>3, <2>1, <2>2, <2>3, <2>4, OtherItem
<1>5. Grows(c, going) /\ Clip(going) BY <1>3, StartedGrows DEF Grows
<1> HIDE DEF going, parked
<1>6. Serves(going, begun)
  <2>1. Clip(Switched(going, mode)) /\ Serves(going, Switched(going, mode)) BY <1>5, SwitchedServes
  <2>2. Grows(Switched(going, mode), SetAutomation(going, mode, ans)) BY <1>5, SetAutomationGrows
  <2> QED BY <1>5, <2>1, <2>2, ServesThenGrows
<1> HIDE DEF begun
<1>7. Serves(db[mine], parked)
  <2>1. Grows(db[mine], c) BY <1>1, <1>3, GrowsTransitive
  <2> QED BY <1>4, <2>1, GrowsThenServes
<1>8. Serves(db[mine], begun)
  <2>1. Grows(db[mine], c) BY <1>1, <1>3, GrowsTransitive
  <2>2. Grows(db[mine], going) BY <1>5, <2>1, GrowsTransitive
  <2> QED BY <1>6, <2>2, GrowsThenServes
<1>9. Serves(db[i], seen[i]) BY <1>1, GrowsServes
<1> QED BY <1>2, <1>7, <1>8, <1>9

-----------------------------------------------------------------------------
-----------------------------------------------------------------------------
(***************************************************************************)
(* The inductive invariant.  A commit writes what a transaction computed   *)
(* from the items as it read them (view), on top of jobs that others have  *)
(* added since, and a half-done one still names the preview it must link:  *)
(* the invariant says that both are still clips of the present database.   *)
(***************************************************************************)
Typed ==
  /\ clips = [i \in Items |-> clips[i]]
  /\ pc \in [Actors -> {"idle", "busy", "bind"}]
  /\ DOMAIN task = Actors /\ DOMAIN view = Actors
  /\ asked \in 0..RequestBound /\ lost \in 0..LossBound

Fine(c) == Clip(c) /\ c.bind = "no" /\ c.it.tries <= 2
ClipsFine == \A i \in Items : Fine(clips[i])

\* What an open transaction read is a clip of an earlier moment.
ViewFine(a) ==
  pc[a] = "busy" =>
    \A i \in Items : Fine(view[a][i]) /\ Len(view[a][i].jobs) <= Len(clips[i].jobs)

\* What an actor has in hand: a job of an existing clip, and what it is to do with it.
TaskFine(a) ==
  pc[a] # "idle" =>
    /\ DOMAIN task[a] = DOMAIN NoTask
    /\ task[a].item \in Items /\ task[a].job \in 0..Len(clips[task[a].item].jobs)
    /\ a \in Operators => task[a].mode \in AutoModes \cup {"manual"}
    /\ a \in Workers => task[a].job # 0
    /\ a \in Workers /\ pc[a] = "busy" => task[a].act \in {"completed", "failed"} /\ task[a].talk \in Talks
    /\ a \in Workers /\ pc[a] = "bind" => task[a].act \in {"preview", "residual"}
    /\ task[a].act = "residual" => task[a].tries \in 0..2

\* Everything a step can rely on.
ReupInv == Typed /\ ClipsFine /\ \A a \in Actors : ViewFine(a) /\ TaskFine(a)

\* The database after a step of a transaction.
Kept == /\ clips' = [i \in Items |-> clips'[i]]
        /\ \A i \in Items : Fine(clips'[i]) /\ Len(clips[i].jobs) <= Len(clips'[i].jobs)

LEMMA OthersFine ==
  ASSUME ReupInv, Kept, NEW b \in Actors,
         pc'[b] = pc[b], task'[b] = task[b], view'[b] = view[b]
  PROVE  ViewFine(b)' /\ TaskFine(b)'
<1>1. \A i \in Items : /\ Len(clips[i].jobs) \in Nat /\ Len(clips'[i].jobs) \in Nat
                       /\ Len(clips[i].jobs) <= Len(clips'[i].jobs)
  BY ClipParts DEF ReupInv, ClipsFine, Kept, Fine
<1>2. ViewFine(b)'
  <2>1. ViewFine(b) BY DEF ReupInv
  <2>2. SUFFICES ASSUME pc'[b] = "busy", NEW i \in Items
                 PROVE  Fine(view'[b][i]) /\ Len(view'[b][i].jobs) <= Len(clips'[i].jobs)
    BY DEF ViewFine
  <2>3. Fine(view[b][i]) /\ Len(view[b][i].jobs) <= Len(clips[i].jobs) BY <2>1, <2>2 DEF ViewFine
  <2>4. Len(view[b][i].jobs) \in Nat BY <2>3, ClipParts DEF Fine
  <2>5. /\ Len(clips[i].jobs) \in Nat /\ Len(clips'[i].jobs) \in Nat
        /\ Len(clips[i].jobs) <= Len(clips'[i].jobs)
    BY <1>1, <2>2
  <2>6. view'[b][i] = view[b][i] OBVIOUS
  <2>7. \A n \in Nat : n <= Len(clips[i].jobs) => n <= Len(clips'[i].jobs) BY <2>5
  <2>8. Len(view[b][i].jobs) <= Len(clips'[i].jobs) BY <2>3, <2>4, <2>7, Zenon
  <2> QED BY <2>3, <2>6, <2>8
<1>3. TaskFine(b)'
  <2>1. TaskFine(b) BY DEF ReupInv
  <2>2. task[b].item \in Items /\ task[b].job \in 0..Len(clips[task[b].item].jobs)
        => task[b].job \in 0..Len(clips'[task[b].item].jobs)
    BY <1>1, SMTT(40)
  <2> QED BY <2>1, <2>2 DEF TaskFine
<1> QED BY <1>2, <1>3

\* A step of one actor: the others are as they were.
\* Nobody but a takes a step.
Alone(a) == \A b \in Actors \ {a} : pc'[b] = pc[b] /\ task'[b] = task[b] /\ view'[b] = view[b]

LEMMA OneActorSteps ==
  ASSUME ReupInv, Kept, NEW a \in Actors, Alone(a), ViewFine(a)', TaskFine(a)', Typed'
  PROVE  ReupInv'
<1>1. \A b \in Actors : ViewFine(b)' /\ TaskFine(b)' BY OthersFine DEF Alone
<1>2. ClipsFine' BY DEF ClipsFine, Kept
<1> QED BY <1>1, <1>2 DEF ReupInv

LEMMA LeaveFine ==
  ASSUME ReupInv, Kept, NEW a \in Actors, Leave(a), asked' \in 0..RequestBound, lost' \in 0..LossBound
  PROVE  ReupInv'
<1>1. Typed' BY DEF ReupInv, Typed, Leave, Kept
<1>2. Alone(a) /\ pc'[a] = "idle" BY DEF Alone, Leave, ReupInv, Typed
<1>3. ViewFine(a)' /\ TaskFine(a)' BY <1>2 DEF ViewFine, TaskFine
<1> QED BY <1>1, <1>2, <1>3, OneActorSteps

LEMMA HalfwayFine ==
  ASSUME ReupInv, Kept, NEW a \in Actors, NEW t, Halfway(a, t), UNCHANGED <<asked, lost>>,
         DOMAIN t = DOMAIN NoTask, t.item \in Items, t.job \in 0..Len(clips'[t.item].jobs),
         a \in Operators => t.mode \in AutoModes \cup {"manual"},
         a \in Workers => t.job # 0 /\ t.act \in {"preview", "residual"},
         t.act = "residual" => t.tries \in 0..2
  PROVE  ReupInv'
<1>1. Typed' BY DEF ReupInv, Typed, Halfway, Kept
<1>2. Alone(a) /\ pc'[a] = "bind" /\ task'[a] = t BY DEF Alone, Halfway, ReupInv, Typed
<1>3. ViewFine(a)' /\ TaskFine(a)' BY <1>2 DEF ViewFine, TaskFine
<1> QED BY <1>1, <1>2, <1>3, OneActorSteps

LEMMA EnterFine ==
  ASSUME ReupInv, NEW a \in Actors, NEW t, Enter(a, t), UNCHANGED <<clips, lost>>,
         asked' \in 0..RequestBound, DOMAIN t = DOMAIN NoTask,
         t.item \in Items, t.job \in 0..Len(clips[t.item].jobs),
         a \in Operators => t.mode \in AutoModes \cup {"manual"},
         a \in Workers => t.job # 0 /\ t.act \in {"completed", "failed"} /\ t.talk \in Talks,
         t.act # "residual"
  PROVE  ReupInv'
<1>1. Typed' BY DEF ReupInv, Typed, Enter
<1>2. Alone(a) /\ pc'[a] = "busy" /\ task'[a] = t /\ view'[a] = clips
  BY DEF Alone, Enter, ReupInv, Typed
<1>3. Kept BY ClipParts DEF Kept, ReupInv, Typed, ClipsFine, Fine
<1>4. ViewFine(a)' BY <1>2, <1>3 DEF ViewFine, Kept
<1>5. TaskFine(a)' BY <1>2 DEF TaskFine
<1> QED BY <1>1, <1>2, <1>3, <1>4, <1>5, OneActorSteps

\* What a transaction sees are clips, with the jobs of this moment.
LEMMA SeenFine ==
  ASSUME ReupInv, NEW a \in Actors, pc[a] # "idle", NEW i \in Items
  PROVE  /\ Fine(Seen(a)[i]) /\ Seen(a)[i].jobs = clips[i].jobs /\ Seen(a)[i].talk = clips[i].talk
         /\ Seen(a)[i].it = Read(a)[i].it
         /\ Read(a)[i].it \in ItemType /\ Links(Read(a)[i].it, Len(clips[i].jobs))
<1>1. Fine(clips[i]) /\ Clip(clips[i]) BY DEF ReupInv, ClipsFine, Fine
<1>2. Fine(Read(a)[i]) /\ Len(Read(a)[i].jobs) <= Len(clips[i].jobs)
  <2>1. ViewFine(a) /\ pc[a] \in {"busy", "bind"} BY DEF ReupInv, Typed
  <2>2. Len(clips[i].jobs) \in Nat BY <1>1, ClipParts
  <2> QED BY <1>1, <2>1, <2>2 DEF ViewFine, Read
<1> DEFINE it == Read(a)[i].it
           d == [clips[i] EXCEPT !.it = it]
<1>3. /\ it \in ItemType /\ it.tries <= 2 /\ Links(it, Len(Read(a)[i].jobs))
      /\ Len(Read(a)[i].jobs) \in Nat /\ Len(clips[i].jobs) \in Nat
      /\ it.job \in Nat /\ it.link \in [Stages -> Nat]
  BY <1>1, <1>2, ClipParts, ItemParts DEF Fine
<1>4. Seen(a)[i] = d BY DEF Seen
<1> HIDE DEF it
<1>5. Links(it, Len(clips[i].jobs))
  <2>1. it.job <= Len(clips[i].jobs) BY <1>2, <1>3 DEF Links
  <2>2. \A s \in Stages : it.link[s] <= Len(clips[i].jobs) BY <1>2, <1>3 DEF Links
  <2> QED BY <2>1, <2>2 DEF Links
<1>6. d \in ClipType BY <1>1, <1>3 DEF Clip, ClipType
<1>7. d.it = it /\ d.jobs = clips[i].jobs /\ d.talk = clips[i].talk /\ d.bind = "no"
  BY <1>1 DEF Clip, ClipType, Fine
<1> HIDE DEF d
<1>8. Clip(d) BY <1>5, <1>6, <1>7 DEF Clip
<1>9. Fine(d) BY <1>3, <1>7, <1>8 DEF Fine
<1> QED BY <1>3, <1>4, <1>5, <1>7, <1>9 DEF it

\* What a transaction writes are clips, if what it computed are.
LEMMA FlushFine ==
  ASSUME NEW new \in ItemType, NEW old \in ItemType, NEW now \in ItemType
  PROVE  /\ Flush(new, old, now) \in ItemType
         /\ Flush(new, old, now).job \in {new.job, now.job}
         /\ Flush(new, old, now).link \in {new.link, now.link}
         /\ Flush(new, old, now).tries \in {new.tries, now.tries}
         /\ old = now => Flush(new, old, now) = new
<1>1. DOMAIN now = {"status", "held", "started", "ready", "job", "mode", "hold", "step", "last",
                    "wait", "failed", "link", "tries", "fetched"}
  BY DEF ItemType
<1>2. DOMAIN new = DOMAIN now BY DEF ItemType
<1> DEFINE it == Flush(new, old, now)
<1>3. DOMAIN it = DOMAIN now /\ \A f \in DOMAIN now : it[f] \in {new[f], now[f]}
  BY DEF Flush
<1>4. it \in ItemType
  <2>1. it = [f \in DOMAIN now |-> it[f]] BY DEF Flush
  <2> HIDE DEF it
  <2> QED BY <1>1, <1>3, <2>1 DEF ItemType
<1>5. old = now => \A f \in DOMAIN now : it[f] = new[f]
  BY DEF Flush
<1>6. old = now => it = new
  <2>1. it = [f \in DOMAIN now |-> it[f]] BY DEF Flush
  <2>2. new = [f \in DOMAIN now |-> new[f]] BY <1>2 DEF ItemType
  <2> HIDE DEF it
  <2> QED BY <1>5, <2>1, <2>2
<1>7. /\ it["job"] \in {new["job"], now["job"]} /\ it["link"] \in {new["link"], now["link"]}
      /\ it["tries"] \in {new["tries"], now["tries"]}
  BY <1>1, <1>3
<1> QED BY <1>4, <1>6, <1>7

LEMMA WriteFine ==
  ASSUME ReupInv, NEW a \in Actors, pc[a] # "idle", NEW db, Write(a, db),
         \A i \in Items : /\ Clip(db[i]) /\ Len(clips[i].jobs) <= Len(db[i].jobs)
                          /\ db[i].it.tries <= 2
  PROVE  /\ Kept
         /\ \A i \in Items : clips'[i].jobs = db[i].jobs
         /\ \A i \in Items : Read(a)[i].it = clips[i].it => clips'[i].it = db[i].it
<1> SUFFICES ASSUME NEW i \in Items
             PROVE  /\ Fine(clips'[i]) /\ Len(clips[i].jobs) <= Len(clips'[i].jobs)
                    /\ clips'[i].jobs = db[i].jobs
                    /\ Read(a)[i].it = clips[i].it => clips'[i].it = db[i].it
  <2>1. clips' = [i \in Items |-> clips'[i]] BY DEF Write
  <2> QED BY <2>1 DEF Kept
<1> DEFINE it == Flush(db[i].it, Read(a)[i].it, clips[i].it)
           d == [db[i] EXCEPT !.it = it, !.bind = "no"]
<1>1. clips'[i] = d BY DEF Write
<1>2. Fine(clips[i]) /\ Clip(clips[i]) BY DEF ReupInv, ClipsFine, Fine
<1>3. /\ clips[i].it \in ItemType /\ db[i].it \in ItemType /\ Read(a)[i].it \in ItemType
      /\ Links(clips[i].it, Len(clips[i].jobs)) /\ Links(db[i].it, Len(db[i].jobs))
      /\ Len(clips[i].jobs) \in Nat /\ Len(db[i].jobs) \in Nat
      /\ clips[i].it.job \in Nat /\ clips[i].it.link \in [Stages -> Nat]
      /\ Len(clips[i].jobs) <= Len(db[i].jobs) /\ clips[i].it.tries <= 2 /\ db[i].it.tries <= 2
  BY <1>2, ClipParts, ItemParts, SeenFine DEF Fine
<1>4. /\ it \in ItemType /\ it.job \in {db[i].it.job, clips[i].it.job}
      /\ it.link \in {db[i].it.link, clips[i].it.link} /\ it.tries \in {db[i].it.tries, clips[i].it.tries}
      /\ Read(a)[i].it = clips[i].it => it = db[i].it
  BY <1>3, FlushFine
<1> HIDE DEF it
<1>5. Links(it, Len(db[i].jobs))
  <2>1. clips[i].it.job <= Len(db[i].jobs) BY <1>3 DEF Links
  <2>2. \A s \in Stages : clips[i].it.link[s] <= Len(db[i].jobs) BY <1>3 DEF Links
  <2> QED BY <1>3, <1>4, <2>1, <2>2 DEF Links
<1>6. d \in ClipType BY <1>4 DEF Clip, ClipType
<1>7. d.it = it /\ d.jobs = db[i].jobs /\ d.bind = "no" BY DEF Clip, ClipType
<1> HIDE DEF d
<1>8. Clip(d) BY <1>5, <1>6, <1>7 DEF Clip
<1>9. Fine(d) BY <1>3, <1>4, <1>7, <1>8 DEF Fine
<1> QED BY <1>1, <1>3, <1>4, <1>7, <1>9

\* A commit that queued no second remediation too many keeps the invariant.
LEMMA CommitFine ==
  ASSUME ReupInv, NEW w \in Workers, w \notin Operators, pc[w] # "idle", NEW t, DOMAIN t = DOMAIN NoTask, NEW db,
         Commit(w, t, db), UNCHANGED <<asked, lost>>,
         \A i \in Items : /\ Clip(db[i]) /\ Len(clips[i].jobs) <= Len(db[i].jobs)
                          /\ db[i].it.tries <= 2 /\ Capped(db[i], t.ans)
  PROVE  ReupInv'
<1> DEFINE unlinked == {i \in Items : db[i].bind # "no"}
           i == Min(unlinked)
<1>0. w \in Actors /\ asked' \in 0..RequestBound /\ lost' \in 0..LossBound
  BY DEF Actors, ReupInv, Typed
<1>1. CASE unlinked = {}
  <2>1. Write(w, db) /\ Leave(w) BY <1>1 DEF Commit
  <2>2. Kept BY <1>0, <2>1, WriteFine
  <2> QED BY <1>0, <2>1, <2>2, LeaveFine
<1>2. CASE unlinked # {}
  <2> DEFINE db2 == [j \in Items |-> IF j \in unlinked \ {i} THEN Seen(w)[j] ELSE db[j]]
             t2 == [t EXCEPT !.act = db[i].bind, !.item = i, !.job = Len(db[i].jobs),
                             !.tries = NextTries(t, db[i].it)]
  <2>1. Write(w, db2) /\ Halfway(w, t2) BY <1>2 DEF Commit
  <2>2. i \in unlinked
    <3>1. unlinked \subseteq Nat BY DEF Items
    <3> HIDE DEF unlinked
    <3> QED BY <1>2, <3>1, MinIn
  <2>3. i \in Items /\ db[i].bind # "no" BY <2>2
  <2>4. /\ 0 < Len(db[i].jobs) /\ Len(db[i].jobs) \in Nat /\ db[i].bind \in {"preview", "residual"}
        /\ db[i].it.tries \in Nat
    BY <2>3, ClipParts, ItemParts
  <2>5. db[i].bind = "residual" => NextTries(t, db[i].it) \in 0..2
    BY <2>3, <2>4 DEF Capped, NextTries
  <2>6. db2[i] = db[i] BY <2>3
  <2>7. \A j \in Items : /\ Clip(db2[j]) /\ Len(clips[j].jobs) <= Len(db2[j].jobs)
                         /\ db2[j].it.tries <= 2
    <3> TAKE j \in Items
    <3>1. Fine(Seen(w)[j]) /\ Seen(w)[j].jobs = clips[j].jobs BY <1>0, SeenFine
    <3>2. Len(clips[j].jobs) \in Nat BY ClipParts DEF ReupInv, ClipsFine, Fine
    <3>3. db2[j] \in {Seen(w)[j], db[j]} OBVIOUS
    <3> HIDE DEF db2
    <3> QED BY <3>1, <3>2, <3>3 DEF Fine
  <2> HIDE DEF db2, i, unlinked
  <2>8. Kept /\ \A j \in Items : clips'[j].jobs = db2[j].jobs BY <1>0, <2>1, <2>7, WriteFine
  <2>9. \E x : /\ Halfway(w, x) /\ x.item = i /\ x.act = db[i].bind /\ x.job = Len(db[i].jobs)
               /\ x.tries = NextTries(t, db[i].it) /\ DOMAIN x = DOMAIN NoTask
    <3>1. {"act", "item", "job", "tries"} \subseteq DOMAIN t BY DEF NoTask
    <3>2. /\ t2.item = i /\ t2.act = db[i].bind /\ t2.job = Len(db[i].jobs)
          /\ t2.tries = NextTries(t, db[i].it) /\ DOMAIN t2 = DOMAIN t
      BY <3>1
    <3> HIDE DEF t2
    <3> QED BY <2>1, <3>2
  <2>10. PICK x : /\ Halfway(w, x) /\ x.item = i /\ x.act = db[i].bind /\ x.job = Len(db[i].jobs)
                  /\ x.tries = NextTries(t, db[i].it) /\ DOMAIN x = DOMAIN NoTask
    BY <2>9
  <2>11. x.job \in 0..Len(clips'[x.item].jobs) /\ x.job # 0 BY <2>3, <2>4, <2>6, <2>8, <2>10
  <2> QED BY <1>0, <2>3, <2>4, <2>5, <2>8, <2>10, <2>11, HalfwayFine
<1> QED BY <1>1, <1>2

-----------------------------------------------------------------------------
\* A job ends, and what it found is recorded.
Ended(c, n, status, talk) == [c EXCEPT !.jobs[n].status = status, !.talk = talk]

LEMMA EndedFine ==
  ASSUME NEW c, Fine(c), NEW n \in 1..Len(c.jobs), NEW status \in JobStates, NEW talk \in Talks
  PROVE  /\ Fine(Ended(c, n, status, talk)) /\ Len(Ended(c, n, status, talk).jobs) = Len(c.jobs)
         /\ Ended(c, n, status, talk).it = c.it /\ Ended(c, n, status, talk).talk = talk
<1> DEFINE job == [c.jobs[n] EXCEPT !.status = status]
           jobs == [c.jobs EXCEPT ![n] = job]
           d == [c EXCEPT !.jobs = jobs, !.talk = talk]
<1>1. c.jobs \in Seq(JobType) /\ Len(c.jobs) \in Nat /\ Clip(c) BY ClipParts DEF Fine
<1>2. c.jobs[n] \in JobType BY <1>1, LenProperties
<1>3. job \in JobType BY <1>2 DEF JobType
<1>4. Ended(c, n, status, talk) = d BY DEF Ended
<1> HIDE DEF job
<1>5. jobs \in Seq(JobType) /\ Len(jobs) = Len(c.jobs) BY <1>1, <1>3, ExceptSeq
<1> HIDE DEF jobs
<1>6. d \in ClipType BY <1>1, <1>5 DEF Clip, ClipType
<1>7. d.it = c.it /\ d.jobs = jobs /\ d.talk = talk /\ d.bind = c.bind BY <1>1 DEF Clip, ClipType
<1> HIDE DEF d
<1>8. Clip(d) BY <1>1, <1>5, <1>6, <1>7 DEF Clip
<1>9. Fine(d) BY <1>7, <1>8 DEF Fine
<1> QED BY <1>4, <1>5, <1>7, <1>9

LEMMA EndedOnlyFine ==
  ASSUME NEW c, Fine(c), NEW n \in 1..Len(c.jobs), NEW status \in JobStates
  PROVE  LET d == [c EXCEPT !.jobs[n].status = status]
         IN /\ Fine(d) /\ Len(d.jobs) = Len(c.jobs) /\ d.it = c.it /\ d = Ended(c, n, status, c.talk)
<1>1. c.talk \in Talks BY ClipParts DEF Fine
<1>2. [c EXCEPT !.jobs[n].status = status] = Ended(c, n, status, c.talk)
  BY DEF Fine, Clip, ClipType, Ended
<1> QED BY <1>1, <1>2, EndedFine

\* The settlement of a job, for every clip.
LEMMA SettledFine ==
  ASSUME NEW db, DOMAIN db = Items, \A i \in Items : Fine(db[i]), NEW t, t.item \in Items,
         t.job \in 1..Len(db[t.item].jobs), t.act \in {"completed", "failed"}, t.talk \in Talks,
         NEW i \in Items
  PROVE  LET d == Settled(db, t)[i]
         IN /\ Clip(d) /\ Len(db[i].jobs) <= Len(d.jobs) /\ d.it.tries = db[i].it.tries
            /\ d.it.mode = db[i].it.mode /\ d.it.wait = db[i].it.wait
            /\ Rank(db[i].it.last) <= Rank(d.it.last)
            /\ Capped(d, t.ans)
            /\ db[i].it.mode # "auto_to_render" => d.bind = "no"
            /\ i # t.item => d = db[i]
<1> DEFINE c == db[t.item]
           talk == IF t.act = "completed" THEN t.talk ELSE c.talk
           ended == Ended(c, t.job, t.act, talk)
           synced == SyncDownload(ended, t.job, t.act)
           e == IF FoundFor(synced, t.job) THEN Advanced(synced, t.job, t.act, t.ans) ELSE synced
<1>1. Fine(c) /\ c.talk \in Talks /\ t.act \in JobStates
  BY ClipParts DEF Fine, JobStates
<1>2. talk \in Talks BY <1>1
<1>3. Settled(db, t) = [db EXCEPT ![t.item] = e] BY DEF Settled, Ended
<1> HIDE DEF talk, c
<1>4. Fine(ended) /\ Len(ended.jobs) = Len(c.jobs) /\ ended.it = c.it /\ ended.bind = "no"
  <2>1. t.job \in 1..Len(c.jobs) BY DEF c
  <2> QED BY <1>1, <1>2, <2>1, EndedFine DEF Fine
<1> HIDE DEF ended
<1>5. Grows(ended, synced) /\ Clip(synced) /\ synced.bind = "no" /\ synced.jobs = ended.jobs
  BY <1>4, SyncDownloadGrows DEF Fine, Grows
<1> HIDE DEF synced
<1>6. t.job \in 1..Len(synced.jobs) BY <1>4, <1>5 DEF c
<1>7. Settles(synced, e, t.ans)
  <2>1. Settles(synced, synced, t.ans) BY <1>5, GrowsReflexive, GrowsSettles
  <2>2. Settles(synced, Advanced(synced, t.job, t.act, t.ans), t.ans) BY <1>5, <1>6, AdvancedSettles
  <2> QED BY <2>1, <2>2
<1> HIDE DEF e
<1>8. \A x : Clip(x) => Len(x.jobs) \in Nat /\ Rank(x.it.last) \in 0..6 BY ClipParts, ItemParts
<1>9. /\ Clip(e) /\ Len(c.jobs) <= Len(e.jobs) /\ e.it.tries = c.it.tries
      /\ e.it.mode = c.it.mode /\ e.it.wait = c.it.wait /\ Rank(c.it.last) <= Rank(e.it.last)
      /\ Capped(e, t.ans) /\ (c.it.mode # "auto_to_render" => e.bind = "no")
  <2>1. Clip(c) /\ Clip(ended) /\ Clip(synced) /\ Clip(e) BY <1>1, <1>4, <1>5, <1>7 DEF Fine, Settles
  <2> QED BY <1>4, <1>5, <1>7, <1>8, <2>1 DEF Grows, Settles
<1>10. CASE i = t.item
  <2>1. Settled(db, t)[i] = e BY <1>3, <1>10
  <2> QED BY <1>9, <1>10, <2>1 DEF c
<1>11. CASE i # t.item
  <2>1. Settled(db, t)[i] = db[i] BY <1>3, <1>11
  <2>2. Clip(db[i]) /\ db[i].bind = "no" BY DEF Fine
  <2>3. Len(db[i].jobs) \in Nat /\ Rank(db[i].it.last) \in 0..6 BY <1>8, <2>2
  <2> QED BY <1>11, <2>1, <2>2, <2>3 DEF Capped
<1> QED BY <1>10, <1>11

LEMMA BindPreviewFine ==
  ASSUME NEW c, Fine(c), NEW n \in 0..Len(c.jobs), NEW why, NEW tries, why = "residual" => tries \in 0..2
  PROVE  LET d == BindPreview(c, n, why, tries)
         IN /\ Fine(d) /\ d.jobs = c.jobs /\ d.it.mode = c.it.mode /\ d.it.wait = c.it.wait
            /\ d.it.last = c.it.last /\ d.it.step = "quality_review"
<1> DEFINE more == IF why = "residual" THEN tries ELSE c.it.tries
           it == [c.it EXCEPT !.job = n, !.step = "quality_review", !.status = "METADATA",
                              !.tries = more]
           d == [c EXCEPT !.it = it]
<1>1. /\ Clip(c) /\ c.it \in ItemType /\ Links(c.it, Len(c.jobs)) /\ Len(c.jobs) \in Nat
      /\ c.it.tries \in Nat /\ c.it.tries <= 2
  BY ClipParts, ItemParts DEF Fine
<1>2. n \in Nat /\ more \in Nat /\ more <= 2 BY <1>1
<1>3. d = BindPreview(c, n, why, tries) BY DEF BindPreview
<1> HIDE DEF more
<1>4. it \in ItemType BY <1>1, <1>2 DEF ItemType, Active, ParkedSteps
<1>5. /\ it.job = n /\ it.link = c.it.link /\ it.mode = c.it.mode /\ it.wait = c.it.wait
      /\ it.tries = more /\ it.last = c.it.last /\ it.step = "quality_review"
  BY <1>1 DEF ItemType
<1> HIDE DEF it
<1>6. Links(it, Len(c.jobs)) BY <1>1, <1>5 DEF Links
<1>7. d \in ClipType BY <1>1, <1>4 DEF Clip, ClipType
<1>8. d.it = it /\ d.jobs = c.jobs /\ d.bind = "no" BY DEF Fine, Clip, ClipType
<1> HIDE DEF d
<1>9. Clip(d) BY <1>6, <1>7, <1>8 DEF Clip
<1>10. Fine(d) BY <1>2, <1>5, <1>8, <1>9 DEF Fine
<1> QED BY <1>3, <1>5, <1>8, <1>10

-----------------------------------------------------------------------------
LEMMA NewFine == Fine(NewClip) /\ NewClip.jobs = <<>>
<1>1. NewItem \in ItemType BY DEF NewItem, ItemType, Active
<1>2. NewClip \in ClipType
  <2>1. <<>> \in Seq(JobType) OBVIOUS
  <2> QED BY <1>1, <2>1 DEF NewClip, ClipType, Talks
<1>3. /\ NewClip.it.job = 0 /\ NewClip.it.link = [s \in Stages |-> 0] /\ NewClip.it.tries = 0
      /\ NewClip.bind = "no" /\ NewClip.jobs = <<>> /\ Len(<<>>) = 0
  BY DEF NewClip, NewItem
<1>4. Links(NewClip.it, Len(NewClip.jobs)) BY <1>3 DEF Links
<1> QED BY <1>2, <1>3, <1>4 DEF Fine, Clip

\* Handing a fresh clip to the lane creates its download and nothing else.
LEMMA HandedFine ==
  ASSUME NEW mode \in AutoModes, NEW i \in Items
  PROVE  /\ Fine(Handed(mode)[i]) /\ Handed(mode)[i].it.mode = mode
         /\ ~(i <= Limit) => Handed(mode)[i].it.wait
         /\ Handed(mode)[i].it.wait => Handed(mode)[i].jobs = <<>> /\ Handed(mode)[i].it.step = "none"
<1> DEFINE c == [NewClip EXCEPT !.it.started = TRUE]
           parked == [NewClip EXCEPT !.it = [@ EXCEPT !.mode = mode, !.wait = TRUE]]
<1>1. Handed(mode)[i] = IF i <= Limit THEN SetAutomation(c, mode, "ok") ELSE parked
  BY DEF Handed
<1>2. /\ Fine(parked) /\ parked.it.mode = mode /\ parked.it.wait
      /\ parked.jobs = <<>> /\ parked.it.step = "none"
  <2> DEFINE it == [NewItem EXCEPT !.mode = mode, !.wait = TRUE]
  <2>1. NewItem \in ItemType BY DEF NewItem, ItemType, Active
  <2>2. it \in ItemType BY <2>1 DEF ItemType
  <2>3. /\ it.job = NewItem.job /\ it.link = NewItem.link /\ it.tries = NewItem.tries /\ it.mode = mode
        /\ it.wait = TRUE /\ it.step = "none"
    BY <2>1 DEF ItemType, NewItem
  <2>4. parked = [NewClip EXCEPT !.it = it] /\ NewClip.it = NewItem BY DEF NewClip
  <2> HIDE DEF it, parked
  <2>5. Links(it, Len(NewClip.jobs)) /\ it.tries = 0
    <3>1. Links(NewItem, Len(NewClip.jobs)) /\ NewItem.tries = 0 /\ NewItem.link \in [Stages -> Nat]
      BY NewFine, ClipParts, ItemParts, <2>4 DEF Fine, NewItem
    <3> QED BY <2>3, <3>1 DEF Links
  <2>6. parked \in ClipType BY <2>2, <2>4, NewFine DEF Fine, Clip, ClipType
  <2>7. parked.it = it /\ parked.jobs = NewClip.jobs /\ parked.bind = "no"
    BY <2>4 DEF NewClip
  <2>8. Clip(parked) BY <2>5, <2>6, <2>7 DEF Clip
  <2> QED BY <2>3, <2>5, <2>7, <2>8 DEF Fine, NewClip
<1>3. Clip(c) /\ c.it.mode = "manual" /\ c.it.tries = 0 /\ c.bind = "no" /\ c.jobs = <<>>
      /\ c.it.last = "none" /\ c.it.step = "none" /\ c.it.job = 0 /\ c.it.wait = FALSE
      /\ c.talk = "unknown"
  <2>1. Clip(c) BY NewFine, StartedGrows DEF Fine, Grows
  <2> QED BY <2>1 DEF NewClip, NewItem
<1> HIDE DEF c, parked
<1> DEFINE start == Switched(c, mode)
           auto == Unheld(start)
           at == AtStep(auto, "download")
           kept == UseJob(at, 0)
           found == UseNew(kept, "download", TRUE, "plain")
           begun == [found EXCEPT !.it.started = TRUE]
           bound == Linked(begun, "download", "MEDIA")
<1>4. Grows(start, SetAutomation(c, mode, "ok")) /\ start.it.mode = mode /\ Clip(start)
      /\ Serves(c, start) /\ start.it.wait = FALSE
  BY <1>3, SetAutomationGrows, SwitchedServes
<1>5. /\ auto.it.last = "none" /\ auto.it.step = "none" /\ auto.it.job = 0 /\ auto.jobs = <<>>
      /\ auto.bind = "no" /\ auto.talk = "unknown" /\ auto.it.mode = mode /\ Clip(auto)
  <2>1. Clip(auto) /\ auto.it.mode = mode BY <1>4, UnheldGrows DEF Grows
  <2> QED BY <1>3, <2>1 DEF Switched, Unheld, Clip, ClipType, ItemType
<1>6. NextStep("none", mode, FALSE) = "download"
  <2> DEFINE ahead == {k \in DOMAIN Order : /\ k > Rank("none") /\ k <= Rank(LastStep(mode))
                                            /\ ~(FALSE /\ Order[k] \in Dubbing)}
  <2>1. DOMAIN Order = 1..6 /\ Order[1] = "download" /\ Rank("none") = 0 BY DEF Order, Rank
  <2>2. Rank(LastStep(mode)) \in 4..6 BY DEF LastStep, Rank, Order
  <2>3. 1 \in ahead /\ ahead \subseteq Nat /\ \A k \in ahead : 1 <= k BY <2>1, <2>2
  <2> HIDE DEF ahead
  <2>4. Min(ahead) \in ahead /\ Min(ahead) <= 1 BY <2>3, MinIn
  <2>5. Min(ahead) = 1
    <3>1. Min(ahead) \in Nat /\ 1 <= Min(ahead) /\ Min(ahead) <= 1 BY <2>3, <2>4
    <3> QED BY <3>1
  <2>6. NextStep("none", mode, FALSE) = Order[Min(ahead)] BY <2>3 DEF NextStep, ahead
  <2> QED BY <2>1, <2>5, <2>6
<1>7. SetAutomation(c, mode, "ok") = EnsureStep(at, "download", "ok")
  <2>1. ~HasLiveJob(auto) BY <1>5 DEF HasLiveJob
  <2>2. "none" \notin Stages BY StageSet
  <2>3. SkipDubbing(auto) = FALSE BY <1>5 DEF SkipDubbing
  <2>4. auto = Unheld([c EXCEPT !.it.mode = mode]) BY DEF Switched
  <2> HIDE DEF auto
  <2> QED BY <1>5, <1>6, <2>1, <2>2, <2>3, <2>4 DEF SetAutomation
<1> HIDE DEF auto
<1>8. /\ at.it.job = 0 /\ at.jobs = <<>> /\ at.bind = "no" /\ Clip(at)
  <2>1. Clip(at) BY <1>5, AtStepGrows, StageSet DEF Grows, Steps
  <2> QED BY <1>5, <2>1 DEF AtStep, Clip, ClipType, ItemType
<1> HIDE DEF at
<1>9. KeepDownload(at) = kept BY <1>8 DEF KeepDownload, Owns
<1>10. kept.it.job = 0 /\ kept.jobs = <<>> /\ kept.bind = "no" /\ Clip(kept)
  <2>1. Clip(kept) BY <1>8, UseJobGrows, ClipParts DEF Grows
  <2> QED BY <1>8, <2>1 DEF UseJob, Clip, ClipType, ItemType
<1> HIDE DEF kept
<1>11. DownloadJob(kept, at) = found
  <2>1. KeyedJobs(at, "download") = {} BY <1>8 DEF KeyedJobs
  <2>2. ~Owns(kept, "download") BY <1>10 DEF Owns
  <2> QED BY <2>1, <2>2 DEF DownloadJob
<1>12. /\ Clip(found) /\ found.bind = "no" /\ found.it.job = 1
       /\ found.jobs[1].kind = "download" /\ found.jobs[1].status = "live"
  <2>1. Clip(found) BY <1>10, UseNewGrows, StageSet DEF Grows, JobKinds
  <2> DEFINE job == [kind |-> "download", status |-> "live", key |-> TRUE, variant |-> "plain"]
  <2>2. found.jobs = Append(kept.jobs, job) BY <1>10 DEF UseNew, Clip, ClipType
  <2>3. found.bind = "no" /\ found.it.job = 1 BY <1>10, <2>1 DEF UseNew, Clip, ClipType, ItemType
  <2>4. found.jobs[1] = job
    <3>1. job \in JobType BY DEF JobType, JobStates, JobKinds, Stages, Order
    <3> HIDE DEF job
    <3>2. kept.jobs \in Seq(JobType) /\ Len(kept.jobs) = 0 BY <1>10, ClipParts
    <3>3. Append(kept.jobs, job)[Len(kept.jobs) + 1] = job BY <3>1, <3>2, AppendProperties
    <3>4. Len(kept.jobs) + 1 = 1 BY <3>2
    <3>5. Append(kept.jobs, job)[1] = job BY <3>3, <3>4
    <3> QED BY <2>2, <3>5
  <2>5. job.kind = "download" /\ job.status = "live" OBVIOUS
  <2> HIDE DEF job
  <2> QED BY <2>1, <2>3, <2>4, <2>5
<1> HIDE DEF found
<1>13. Clip(begun) /\ begun.bind = "no" /\ begun.it.job = 1 /\ begun.jobs = found.jobs
  <2>1. Clip(begun) BY <1>12, StartedGrows DEF Grows
  <2> QED BY <1>12, <2>1 DEF Clip, ClipType, ItemType
<1> HIDE DEF begun
<1>14. Clip(bound) /\ bound.bind = "no" /\ bound.it.job = 1 /\ bound.jobs = found.jobs
  <2>1. Clip(bound) BY <1>13, LinkedGrows, StageSet DEF Grows, ItemStatuses, Active
  <2> QED BY <1>13, <2>1 DEF Linked, Clip, ClipType, ItemType
<1> HIDE DEF bound
<1>15. EnsureDownload(at, "ok") = bound BY <1>9, <1>11 DEF EnsureDownload, begun, bound
<1>16. Ensure(at, "download", "ok") = bound BY <1>15 DEF Ensure
<1>17. CatchUp(bound, "download", "ok") = bound
  <2>1. bound.jobs[1].kind = "download" /\ bound.jobs[1].status = "live" BY <1>12, <1>14
  <2> QED BY <1>14, <2>1 DEF CatchUp, Dead
<1>18. SetAutomation(c, mode, "ok") = bound BY <1>7, <1>16, <1>17 DEF EnsureStep
<1>19. Fine(bound) /\ bound.it.mode = mode /\ bound.it.wait = FALSE
  <2>1. bound.it.mode = mode /\ bound.it.tries = start.it.tries /\ bound.it.wait = FALSE
    BY <1>4, <1>18 DEF Grows
  <2>2. start.it.tries = 0 BY <1>3, <1>4 DEF Serves
  <2> QED BY <1>14, <2>1, <2>2 DEF Fine
<1> QED BY <1>1, <1>2, <1>18, <1>19

LEMMA StartFine ==
  ASSUME NEW f, f = [i \in Items |-> f[i]], \A i \in Items : Fine(f[i]), Start(f)
  PROVE  ReupInv
<1>1. Typed BY ReupAssumption DEF Start, Typed
<1>2. ClipsFine BY DEF Start, ClipsFine
<1>3. \A a \in Actors : pc[a] = "idle" BY DEF Start
<1> QED BY <1>1, <1>2, <1>3 DEF ReupInv, ViewFine, TaskFine

LEMMA InitFine == Init \/ LaneInit => ReupInv
<1>1. ASSUME Init PROVE ReupInv
  <2> DEFINE f == [i \in Items |-> NewClip]
  <2>1. Start(f) BY <1>1 DEF Init
  <2>2. \A i \in Items : Fine(f[i]) BY NewFine
  <2>3. f = [i \in Items |-> f[i]] OBVIOUS
  <2> HIDE DEF f
  <2> QED BY <2>1, <2>2, <2>3, StartFine
<1>2. ASSUME LaneInit PROVE ReupInv
  <2>1. PICK mode \in Modes \cap AutoModes : Start(Handed(mode)) BY <1>2 DEF LaneInit
  <2>2. \A i \in Items : Fine(Handed(mode)[i]) BY <2>1, HandedFine
  <2>3. Handed(mode) = [i \in Items |-> Handed(mode)[i]] BY DEF Handed
  <2> QED BY <2>1, <2>2, <2>3, StartFine
<1> QED BY <1>1, <1>2

-----------------------------------------------------------------------------
LEMMA ActorsApart == \A w \in Workers : w \in Actors /\ w \notin Operators
BY ReupAssumption DEF Actors

LEMMA OperatorsApart == \A o \in Operators : o \in Actors /\ o \notin Workers
BY ReupAssumption DEF Actors

LEMMA BeginFine ==
  ASSUME ReupInv, NEW w \in Workers, Begin(w) PROVE ReupInv'
<1>1. PICK i \in Items : \E n \in DOMAIN clips[i].jobs :
        LET kind == clips[i].jobs[n].kind
        IN /\ \E out \in Outcomes(kind),
                 talk \in IF kind = "analyze_audio" THEN Dialogues ELSE {clips[i].talk},
                 ans \in Answers \cap Replies(kind),
                 seat \in Answers \cap {"ok", "refused", "fresh", "ocr_review", "preview",
                                       "blocked"} :
                Enter(w, [NoTask EXCEPT !.act = out, !.item = i, !.job = n, !.talk = talk,
                                        !.ans = ans, !.seat = seat])
           /\ UNCHANGED <<clips, asked, lost>>
  BY DEF Begin
<1>2. PICK n \in DOMAIN clips[i].jobs : \E out, talk, ans, seat :
        /\ out \in {"completed", "failed"} /\ talk \in Dialogues \cup {clips[i].talk}
        /\ Enter(w, [NoTask EXCEPT !.act = out, !.item = i, !.job = n, !.talk = talk,
                                   !.ans = ans, !.seat = seat])
        /\ UNCHANGED <<clips, asked, lost>>
  BY <1>1 DEF Outcomes
<1>9. PICK out, talk, ans, seat :
        /\ out \in {"completed", "failed"} /\ talk \in Dialogues \cup {clips[i].talk}
        /\ Enter(w, [NoTask EXCEPT !.act = out, !.item = i, !.job = n, !.talk = talk,
                                   !.ans = ans, !.seat = seat])
        /\ UNCHANGED <<clips, asked, lost>>
  BY <1>2
<1> DEFINE t == [NoTask EXCEPT !.act = out, !.item = i, !.job = n, !.talk = talk,
                               !.ans = ans, !.seat = seat]
<1>3. /\ t.item = i /\ t.job = n /\ t.act = out /\ t.talk = talk /\ DOMAIN t = DOMAIN NoTask
  BY DEF NoTask
<1>4. Clip(clips[i]) BY DEF ReupInv, ClipsFine, Fine
<1>5. n \in 1..Len(clips[i].jobs) /\ clips[i].talk \in Talks /\ Len(clips[i].jobs) \in Nat
  BY <1>4, ClipParts, LenProperties
<1>6. talk \in Talks BY <1>9, <1>5, ReupAssumption
<1>7. asked' \in 0..RequestBound BY <1>9 DEF ReupInv, Typed
<1>8. Enter(w, t) BY <1>9
<1> HIDE DEF t
<1> QED BY <1>9, <1>3, <1>5, <1>6, <1>7, <1>8, EnterFine, ActorsApart

LEMMA SettleJobFine ==
  ASSUME ReupInv, NEW w \in Workers, SettleJob(w) PROVE ReupInv'
<1> DEFINE t == task[w]
           db == Settled(Seen(w), t)
           db2 == IF ~(db[t.item].bind # "no") /\ LaneIsLookedAt(Seen(w), t) THEN Admit(db, t.seat) ELSE db
<1>1. /\ pc[w] = "busy" /\ w \in Actors /\ w \notin Operators
      /\ Commit(w, t, db2) /\ UNCHANGED <<asked, lost>>
  BY ActorsApart DEF SettleJob
<1>2. TaskFine(w) BY <1>1 DEF ReupInv
<1>3. /\ DOMAIN t = DOMAIN NoTask /\ t.item \in Items /\ t.job \in 0..Len(clips[t.item].jobs) /\ t.job # 0
      /\ t.act \in {"completed", "failed"} /\ t.talk \in Talks
  BY <1>1, <1>2 DEF TaskFine
<1> HIDE DEF t
<1>4. \A i \in Items : Fine(Seen(w)[i]) /\ Seen(w)[i].jobs = clips[i].jobs BY <1>1, SeenFine
<1>5. DOMAIN Seen(w) = Items BY DEF Seen
<1>6. t.job \in 1..Len(Seen(w)[t.item].jobs) BY <1>3, <1>4
<1>7. \A i \in Items : /\ Clip(db[i]) /\ Len(clips[i].jobs) <= Len(db[i].jobs) /\ db[i].it.tries <= 2
                       /\ Capped(db[i], t.ans) /\ (i # t.item => db[i].bind = "no")
  <2> TAKE i \in Items
  <2>1. LET d == Settled(Seen(w), t)[i]
        IN /\ Clip(d) /\ Len(Seen(w)[i].jobs) <= Len(d.jobs) /\ d.it.tries = Seen(w)[i].it.tries
           /\ Capped(d, t.ans) /\ (i # t.item => d = Seen(w)[i])
    BY <1>3, <1>4, <1>5, <1>6, SettledFine
  <2> QED BY <1>4, <2>1 DEF Fine
<1>8. \A i \in Items : /\ Clip(db2[i]) /\ Len(clips[i].jobs) <= Len(db2[i].jobs) /\ db2[i].it.tries <= 2
                       /\ Capped(db2[i], t.ans)
  <2> HIDE DEF db
  <2>1. CASE ~(db[t.item].bind # "no") /\ LaneIsLookedAt(Seen(w), t)
    <3> TAKE i \in Items
    <3>1. Serves(db[i], Admit(db, t.seat)[i]) BY <1>7, AdmitServes
    <3>2. db[i].bind = "no" BY <1>7, <2>1
    <3>3. /\ Len(clips[i].jobs) \in Nat /\ Len(db[i].jobs) \in Nat
          /\ Len(Admit(db, t.seat)[i].jobs) \in Nat
      BY <1>7, <3>1, ClipParts DEF Serves, ReupInv, ClipsFine, Fine
    <3>4. db2[i] = Admit(db, t.seat)[i] BY <2>1
    <3> QED BY <1>7, <3>1, <3>2, <3>3, <3>4, SMTT(40) DEF Serves, Capped
  <2>2. CASE ~(~(db[t.item].bind # "no") /\ LaneIsLookedAt(Seen(w), t))
    BY <1>7, <2>2
  <2> QED BY <2>1, <2>2
<1> HIDE DEF db2
<1> QED BY <1>1, <1>3, <1>8, CommitFine

LEMMA LinkPreviewFine ==
  ASSUME ReupInv, NEW w \in Workers, LinkPreview(w) PROVE ReupInv'
<1> DEFINE t == task[w]
           linked == [clips EXCEPT ![t.item] = BindPreview(@, t.job, t.act, t.tries)]
           db == Admit(linked, t.seat)
<1>1. /\ pc[w] = "bind" /\ w \in Actors /\ w \notin Operators
      /\ Commit(w, t, db) /\ UNCHANGED <<asked, lost>>
  BY ActorsApart DEF LinkPreview
<1>2. TaskFine(w) BY <1>1 DEF ReupInv
<1>3. /\ DOMAIN t = DOMAIN NoTask /\ t.item \in Items /\ t.job \in 0..Len(clips[t.item].jobs)
      /\ t.act = "residual" => t.tries \in 0..2
  BY <1>1, <1>2 DEF TaskFine
<1> HIDE DEF t
<1>4. \A i \in Items : Fine(clips[i]) /\ Len(clips[i].jobs) \in Nat /\ clips[i].it.tries \in Nat
  BY ClipParts, ItemParts DEF ReupInv, ClipsFine, Fine
<1>5. \A i \in Items : Fine(linked[i]) /\ linked[i].jobs = clips[i].jobs
  <2>1. /\ Fine(BindPreview(clips[t.item], t.job, t.act, t.tries))
        /\ BindPreview(clips[t.item], t.job, t.act, t.tries).jobs = clips[t.item].jobs
    BY <1>3, <1>4, BindPreviewFine
  <2>2. DOMAIN clips = Items BY DEF ReupInv, Typed
  <2>3. \A i \in Items : linked[i] = IF i = t.item THEN BindPreview(clips[t.item], t.job, t.act, t.tries)
                                     ELSE clips[i]
    BY <2>2
  <2> QED BY <1>4, <2>1, <2>3
<1> HIDE DEF linked
<1>6. \A i \in Items : /\ Clip(db[i]) /\ Len(clips[i].jobs) <= Len(db[i].jobs) /\ db[i].it.tries <= 2
                       /\ Capped(db[i], t.ans)
  <2> TAKE i \in Items
  <2>1. \A j \in Items : Clip(linked[j]) BY <1>5 DEF Fine
  <2>2. Serves(linked[i], db[i]) BY <2>1, AdmitServes
  <2>3. linked[i].bind = "no" /\ linked[i].it.tries <= 2 BY <1>5 DEF Fine
  <2> HIDE DEF db
  <2> QED BY <1>5, <2>2, <2>3 DEF Serves, Capped
<1> HIDE DEF db
<1> QED BY <1>1, <1>3, <1>6, CommitFine

LEMMA DieFine ==
  ASSUME ReupInv, NEW w \in Workers, Die(w) PROVE ReupInv'
<1>1. Kept BY ClipParts DEF Die, Kept, ReupInv, Typed, ClipsFine, Fine
<1>2. asked' \in 0..RequestBound /\ lost' \in 0..LossBound
  BY ReupAssumption DEF Die, ReupInv, Typed
<1> QED BY <1>1, <1>2, LeaveFine, ActorsApart DEF Die

\* A step that changes clips behind everybody's back.
LEMMA QuietFine ==
  ASSUME ReupInv, Kept, UNCHANGED <<pc, task, view, asked>>, lost' \in 0..LossBound
  PROVE  ReupInv'
<1>1. Typed' BY DEF ReupInv, Typed, Kept
<1>2. \A b \in Actors : ViewFine(b)' /\ TaskFine(b)' BY OthersFine
<1>3. ClipsFine' BY DEF ClipsFine, Kept
<1> QED BY <1>1, <1>2, <1>3 DEF ReupInv

LEMMA OneClipKept ==
  ASSUME ReupInv, NEW i \in Items, NEW d, Fine(d), Len(clips[i].jobs) <= Len(d.jobs),
         clips' = [clips EXCEPT ![i] = d]
  PROVE  Kept
<1>1. DOMAIN clips = Items BY DEF ReupInv, Typed
<1>2. \A j \in Items : Fine(clips[j]) /\ Len(clips[j].jobs) \in Nat
  BY ClipParts DEF ReupInv, ClipsFine, Fine
<1>3. \A j \in Items : clips'[j] = IF j = i THEN d ELSE clips[j] BY <1>1
<1>4. clips' = [j \in Items |-> clips'[j]] BY <1>1
<1> QED BY <1>2, <1>3, <1>4 DEF Kept

LEMMA EndSilentlyFine ==
  ASSUME ReupInv, NEW i \in Items, EndSilently(i) PROVE ReupInv'
<1>1. PICK n \in DOMAIN clips[i].jobs, status \in Dead :
        /\ clips' = [clips EXCEPT ![i].jobs[n].status = status]
        /\ lost < LossBound /\ lost' = lost + 1 /\ UNCHANGED <<pc, task, view, asked>>
  BY DEF EndSilently
<1> DEFINE d == [clips[i] EXCEPT !.jobs[n].status = status]
<1>2. Fine(clips[i]) BY DEF ReupInv, ClipsFine
<1>3. n \in 1..Len(clips[i].jobs) /\ Len(clips[i].jobs) \in Nat
  BY <1>2, ClipParts, LenProperties DEF Fine
<1>4. Fine(d) /\ Len(d.jobs) = Len(clips[i].jobs)
  <2>1. status \in JobStates BY DEF Dead, JobStates
  <2> QED BY <1>2, <1>3, <2>1, EndedOnlyFine
<1>5. clips' = [clips EXCEPT ![i] = d] BY <1>1
<1> HIDE DEF d
<1>6. Kept
  <2>1. Len(clips[i].jobs) <= Len(d.jobs) BY <1>3, <1>4
  <2> QED BY <1>4, <1>5, <2>1, OneClipKept
<1>7. lost' \in 0..LossBound BY <1>1, ReupAssumption DEF ReupInv, Typed
<1> QED BY <1>1, <1>6, <1>7, QuietFine

LEMMA ClarifyFine ==
  ASSUME ReupInv, NEW i \in Items, Clarify(i) PROVE ReupInv'
<1> DEFINE d == [clips[i] EXCEPT !.talk = "speech"]
<1>1. clips' = [clips EXCEPT ![i] = d] /\ UNCHANGED <<pc, task, view, asked, lost>> BY DEF Clarify
<1>2. Fine(clips[i]) /\ Clip(clips[i]) BY DEF ReupInv, ClipsFine, Fine
<1>3. d \in ClipType /\ d.it = clips[i].it /\ d.jobs = clips[i].jobs /\ d.bind = clips[i].bind
  BY <1>2 DEF Clip, ClipType, Talks
<1> HIDE DEF d
<1>4. Fine(d) BY <1>2, <1>3 DEF Fine, Clip
<1>5. Len(clips[i].jobs) <= Len(d.jobs) BY <1>2, <1>3, ClipParts
<1>6. Kept BY <1>1, <1>4, <1>5, OneClipKept
<1>7. lost' \in 0..LossBound BY <1>1 DEF ReupInv, Typed
<1> QED BY <1>1, <1>6, <1>7, QuietFine

LEMMA AskFine ==
  ASSUME ReupInv, NEW o \in Operators, Ask(o) PROVE ReupInv'
<1>1. PICK i \in Items, act \in Requests, mode \in Modes,
           ans \in Answers \cap {"ok", "refused", "fresh"} :
        /\ asked < RequestBound /\ act \in Available(clips[i])
        /\ Enter(o, [NoTask EXCEPT !.act = act, !.item = i, !.mode = mode, !.ans = ans,
                               !.job = IF HasLiveJob(clips[i]) THEN clips[i].it.job ELSE 0])
        /\ asked' = asked + 1 /\ UNCHANGED <<clips, lost>>
  BY DEF Ask
<1> DEFINE n == IF HasLiveJob(clips[i]) THEN clips[i].it.job ELSE 0
           t == [NoTask EXCEPT !.act = act, !.item = i, !.mode = mode, !.ans = ans, !.job = n]
<1>2. Clip(clips[i]) BY DEF ReupInv, ClipsFine, Fine
<1>3. n \in 0..Len(clips[i].jobs)
  <2>1. clips[i].it.job \in Nat /\ clips[i].it.job <= Len(clips[i].jobs) /\ Len(clips[i].jobs) \in Nat
    BY <1>2, ClipParts, ItemParts DEF Links
  <2> QED BY <2>1
<1>4. act # "residual" BY <1>1 DEF Available, AllRequests
<1>5. Enter(o, t) BY <1>1
<1> HIDE DEF n
<1>6. t.item = i /\ t.job = n /\ t.act = act /\ t.mode = mode /\ DOMAIN t = DOMAIN NoTask
  BY DEF NoTask
<1> HIDE DEF t
<1>7. asked' \in 0..RequestBound BY <1>1, ReupAssumption DEF ReupInv, Typed
<1>8. mode \in AutoModes \cup {"manual"} BY ReupAssumption
<1> QED BY <1>1, <1>3, <1>4, <1>5, <1>6, <1>7, <1>8, EnterFine, OperatorsApart

LEMMA AnswerFine ==
  ASSUME ReupInv, NEW o \in Operators, Answer(o) PROVE ReupInv'
<1> DEFINE t == task[o]
           seen == Seen(o)
           db == IF t.act = "start_auto" THEN StartedAuto(seen, t.item, t.mode, t.ans)
                 ELSE [seen EXCEPT ![t.item] = Applied(@, t)]
<1>1. pc[o] = "busy" /\ o \in Actors /\ o \notin Workers /\ Write(o, db) /\ Leave(o) /\ UNCHANGED <<asked, lost>>
  BY OperatorsApart DEF Answer
<1>2. t.item \in Items /\ t.mode \in AutoModes \cup {"manual"} BY <1>1 DEF ReupInv, TaskFine
<1>3. \A i \in Items : Fine(seen[i]) /\ Clip(seen[i]) /\ seen[i].jobs = clips[i].jobs
  BY <1>1, SeenFine DEF Fine
<1>4. DOMAIN seen = Items BY DEF Seen
<1> HIDE DEF t, seen
<1>5. \A i \in Items : Serves(seen[i], db[i])
  <2> TAKE i \in Items
  <2>1. Serves(seen[i], StartedAuto(seen, t.item, t.mode, t.ans)[i]) BY <1>2, <1>3, StartedAutoServes
  <2>2. Serves(seen[t.item], Applied(seen[t.item], t)) BY <1>2, <1>3, AppliedServes
  <2>3. Serves(seen[i], seen[i]) BY <1>3, GrowsReflexive, GrowsServes
  <2>4. [seen EXCEPT ![t.item] = Applied(@, t)][i] = IF i = t.item THEN Applied(seen[t.item], t) ELSE seen[i]
    BY <1>2, <1>4
  <2> QED BY <2>1, <2>2, <2>3, <2>4
<1> HIDE DEF db
<1>6. \A i \in Items : /\ Clip(db[i]) /\ Len(clips[i].jobs) <= Len(db[i].jobs) /\ db[i].it.tries <= 2
  BY <1>3, <1>5 DEF Serves, Fine
<1>7. Kept BY <1>1, <1>6, WriteFine
<1>8. asked' \in 0..RequestBound /\ lost' \in 0..LossBound BY <1>1 DEF ReupInv, Typed
<1> QED BY <1>1, <1>7, <1>8, LeaveFine

LEMMA CancelForHoldFine ==
  ASSUME ReupInv, NEW o \in Operators, CancelForHold(o) PROVE ReupInv'
<1> DEFINE t == task[o]
           c == clips[t.item]
           d == [c EXCEPT !.jobs[t.job].status = "cancelled"]
<1>1. /\ pc[o] = "busy" /\ o \in Actors /\ o \notin Workers /\ t.act = "hold" /\ t.job # 0
      /\ clips' = [clips EXCEPT ![t.item].jobs[t.job].status = "cancelled"]
      /\ Halfway(o, t) /\ UNCHANGED <<asked, lost>>
  BY OperatorsApart DEF CancelForHold
<1>2. /\ DOMAIN t = DOMAIN NoTask /\ t.item \in Items /\ t.mode \in AutoModes \cup {"manual"}
      /\ t.job \in 0..Len(clips[t.item].jobs)
  BY <1>1 DEF ReupInv, TaskFine
<1>3. Fine(c) /\ Len(c.jobs) \in Nat BY <1>2, ClipParts DEF ReupInv, ClipsFine, Fine
<1>4. clips' = [clips EXCEPT ![t.item] = d] BY <1>1
<1> HIDE DEF t
<1>5. t.job \in 1..Len(c.jobs) BY <1>1, <1>2, <1>3
<1>6. Fine(d) /\ Len(d.jobs) = Len(c.jobs)
  <2> HIDE DEF c
  <2> QED BY <1>3, <1>5, EndedOnlyFine DEF JobStates
<1> HIDE DEF d
<1>7. Kept
  <2>1. Len(clips[t.item].jobs) <= Len(d.jobs) BY <1>3, <1>6
  <2> QED BY <1>2, <1>4, <1>6, <2>1, OneClipKept
<1>8. t.job \in 0..Len(clips'[t.item].jobs)
  <2>1. DOMAIN clips = Items BY DEF ReupInv, Typed
  <2>2. clips'[t.item] = d BY <1>2, <1>4, <2>1
  <2> QED BY <1>5, <1>6, <1>3, <2>2
<1> QED BY <1>1, <1>2, <1>7, <1>8, HalfwayFine

LEMMA MarkHeldFine ==
  ASSUME ReupInv, NEW o \in Operators, MarkHeld(o) PROVE ReupInv'
<1> DEFINE i == task[o].item
           d == Paused(clips[i])
<1>1. /\ pc[o] = "bind" /\ o \in Actors /\ clips' = [clips EXCEPT ![i] = d]
      /\ Leave(o) /\ UNCHANGED <<asked, lost>>
  BY OperatorsApart DEF MarkHeld
<1>2. i \in Items BY <1>1 DEF ReupInv, TaskFine
<1>3. Fine(clips[i]) /\ Clip(clips[i]) BY <1>2 DEF ReupInv, ClipsFine, Fine
<1>4. Grows(clips[i], d) BY <1>3, PausedGrows
<1>5. d.bind = "no"
  <2>1. Released(clips[i], clips[i].it.job).bind = clips[i].bind BY <1>3 DEF Released, Clip, ClipType
  <2>2. Clip(Released(clips[i], clips[i].it.job)) BY <1>3, DroppedGrows DEF Grows
  <2>3. d.bind = Released(clips[i], clips[i].it.job).bind BY <2>2 DEF Paused, Clip, ClipType
  <2> QED BY <1>3, <2>1, <2>3 DEF Fine
<1> HIDE DEF d, i
<1>6. Fine(d) /\ Len(clips[i].jobs) <= Len(d.jobs) BY <1>3, <1>4, <1>5 DEF Fine, Grows
<1>7. Kept BY <1>1, <1>2, <1>6, OneClipKept
<1>8. asked' \in 0..RequestBound /\ lost' \in 0..LossBound BY <1>1 DEF ReupInv, Typed
<1> QED BY <1>1, <1>7, <1>8, LeaveFine

-----------------------------------------------------------------------------
LEMMA StutterFine == ReupInv /\ UNCHANGED vars => ReupInv'
<1> SUFFICES ASSUME ReupInv, UNCHANGED vars PROVE ReupInv' OBVIOUS
<1>1. Kept BY ClipParts DEF vars, Kept, ReupInv, Typed, ClipsFine, Fine
<1>2. lost' \in 0..LossBound BY DEF vars, ReupInv, Typed
<1> QED BY <1>1, <1>2, QuietFine DEF vars

\* Every step keeps it.
LEMMA NextFine == ReupInv /\ [Next]_vars => ReupInv'
<1> SUFFICES ASSUME ReupInv, [Next]_vars PROVE ReupInv' OBVIOUS
<1>1. ASSUME NEW w \in Workers, WorkerStep(w) \/ Die(w) PROVE ReupInv'
  BY <1>1, BeginFine, SettleJobFine, LinkPreviewFine, DieFine DEF WorkerStep
<1>2. ASSUME NEW o \in Operators, OperatorStep(o) PROVE ReupInv'
  BY <1>2, AskFine, AnswerFine, CancelForHoldFine, MarkHeldFine DEF OperatorStep
<1>3. ASSUME NEW i \in Items, EndSilently(i) \/ Clarify(i) PROVE ReupInv'
  BY <1>3, EndSilentlyFine, ClarifyFine
<1>4. CASE Next BY <1>1, <1>2, <1>3, <1>4 DEF Next
<1>5. CASE UNCHANGED vars BY <1>5, StutterFine
<1> QED BY <1>4, <1>5

\* From either start: freshly queued clips, or clips already handed to the lane.
LEMMA ReupInvariant == Spec \/ LaneSpec => []ReupInv
BY InitFine, NextFine, PTL DEF Spec, LaneSpec

LEMMA ReupInvTyped == ReupInv => TypeOK /\ RemediationBounded
<1> SUFFICES ASSUME ReupInv PROVE TypeOK /\ RemediationBounded OBVIOUS
<1>1. \A i \in Items : /\ clips[i].it \in ItemType /\ clips[i].jobs \in Seq(JobType)
                       /\ clips[i].talk \in Talks /\ clips[i].bind = "no"
                       /\ clips[i].it.job <= Len(clips[i].jobs) /\ clips[i].it.tries <= 2
  BY ClipParts DEF ReupInv, ClipsFine, Fine, Links
<1>2. \A a \in Actors : pc[a] # "idle" => task[a].item \in Items BY DEF ReupInv, TaskFine
<1> QED BY <1>1, <1>2 DEF ReupInv, Typed, TypeOK, RemediationBounded

\* Items, jobs and links stay well formed: an item is bound to a job of its own
\* clip, and a preview queued on the way is linked before the transaction ends,
\* however transactions overlap and wherever a worker dies.
THEOREM TypeCorrect == Spec \/ LaneSpec => []TypeOK
BY ReupInvariant, ReupInvTyped, PTL

\* _ensure_auto_residual_remediation never goes past its two attempts for one
\* residual authority, whoever commits what on top of an older item.
THEOREM RemediationsBounded == Spec \/ LaneSpec => []RemediationBounded
BY ReupInvariant, ReupInvTyped, PTL
=============================================================================
