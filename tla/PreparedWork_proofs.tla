------------------------ MODULE PreparedWork_proofs ------------------------
(***************************************************************************)
(* For any prompts, payments, jobs and times to live: prepared work is paid*)
(* for at most once and never when it has expired, and at most one         *)
(* background job prepares.                                                *)
(***************************************************************************)
EXTENDS PreparedWork, TLAPS

(* Work that was sent for payment stays marked as long as it is held, and  *)
(* an id that was given out is not given out again.                        *)
Sealed(r) ==
  /\ PaidFor(r) => /\ pay[r].at \in {"sent", "done"}
                   /\ pay[r].work \in used
                   /\ pay[r].work \in DOMAIN escrow => escrow[pay[r].work].inFlight
  /\ pay[r].at = "waiting" => pay[r].work \in used
  /\ pay[r].at = "matched" =>
       /\ pay[r].work \in used
       /\ pay[r].work \in DOMAIN escrow => escrow[pay[r].work].prompt = pay[r].prompt
PayInv == PaidOnce /\ \A r \in Payments : Sealed(r)

(* A goroutine's job is still in the map, processing, and lapses after it. *)
Watched(j) ==
  /\ j \in DOMAIN jobs /\ jobs[j].status = "processing"
  /\ clock <= runners[j].deadline /\ runners[j].deadline < jobs[j].expires
JobInv == OnePreparation /\ \A j \in DOMAIN runners : Watched(j)

WorkInv == WorkTypeOK /\ PayInv /\ JobInv

(* What FreshWhenPaid says of a step.                                      *)
Fresh ==
  \A r \in Payments : ~PaidFor(r) /\ PaidFor(r)' =>
    /\ pay[r].work \in DOMAIN escrow
    /\ clock <= escrow[pay[r].work].expires
    /\ escrow[pay[r].work].prompt = pay[r].prompt

PayType == [Payments -> [at: {"new", "waiting", "matched", "sent", "done"},
                         work: WorkIds \cup {NoWork}, prompt: Prompts \cup {NoWork}]]

-----------------------------------------------------------------------------

(* A payment that moves keeps what it asks for.                            *)
LEMMA GotoPayment ==
  ASSUME pay \in PayType, NEW r \in Payments,
         NEW place \in {"new", "waiting", "matched", "sent", "done"}, Goto(r, place)
  PROVE  /\ pay' \in PayType
         /\ pay'[r].at = place /\ pay'[r].work = pay[r].work
         /\ pay'[r].prompt = pay[r].prompt
         /\ \A s \in Payments \ {r} : pay'[s] = pay[s]
  BY DEF Goto, PayType

(* Cleaning the escrow and adding work under a new id keeps everything a   *)
(* payment relies on.                                                      *)
LEMMA PrepareStep ==
  ASSUME WorkTypeOK, PayInv, NEW w \in WorkIds, NEW p \in Prompts, Prepare(w, p),
         UNCHANGED <<pay, upstream>>
  PROVE  /\ escrow' \in [DOMAIN escrow' -> Escrow]
         /\ DOMAIN escrow' \subseteq WorkIds \cap used'
         /\ used' \subseteq WorkIds \cup JobIds /\ used \subseteq used'
         /\ PayInv'
<1> DEFINE stale == {v \in DOMAIN escrow : escrow[v].used \/ clock > escrow[v].expires}
           new == [prompt |-> p, used |-> FALSE, inFlight |-> FALSE,
                   expires |-> clock + WorkTTL]
<1>1. new \in Escrow
  BY WorkAssumption DEF WorkTypeOK, Escrow
<1>2. /\ used' = used \cup {w} /\ w \notin used
      /\ DOMAIN escrow' = (DOMAIN escrow \ stale) \cup {w}
      /\ escrow'[w] = new
      /\ \A v \in DOMAIN escrow' : v # w => escrow'[v] = escrow[v]
      /\ escrow' = [v \in DOMAIN escrow' |-> escrow'[v]]
  BY DEF Prepare, With, Without
<1> HIDE DEF new, stale
<1>3. \A v \in DOMAIN escrow' : escrow'[v] \in Escrow
  BY <1>1, <1>2 DEF WorkTypeOK
<1>4. escrow' \in [DOMAIN escrow' -> Escrow] /\ DOMAIN escrow' \subseteq WorkIds \cap used'
  BY <1>2, <1>3 DEF WorkTypeOK
<1>5. \A r \in Payments : Sealed(r)'
  BY <1>2 DEF PayInv, Sealed, PaidFor
<1>6. PaidOnce'
  BY DEF PayInv, PaidOnce, PaidFor
<1> QED
  BY <1>2, <1>4, <1>5, <1>6 DEF WorkTypeOK, PayInv

(* A step that touches neither the jobs nor the clock.                     *)
LEMMA JobsUntouched ==
  ASSUME JobInv, UNCHANGED <<clock, jobs, runners>>
  PROVE  JobInv'
  BY DEF JobInv, OnePreparation, Watched

(* A step that touches neither the escrow nor the payments.                *)
LEMMA PaymentsUntouched ==
  ASSUME PayInv, UNCHANGED <<escrow, used, pay, upstream>>
  PROVE  PayInv'
  BY DEF PayInv, PaidOnce, Sealed, PaidFor

-----------------------------------------------------------------------------

(* Planning without a job.                                                 *)
LEMMA PlanStep ==
  ASSUME WorkInv, NEW w \in WorkIds, NEW p \in Prompts, PlanDirectly(w, p)
  PROVE  WorkInv' /\ Fresh
<1>1. Prepare(w, p) /\ UNCHANGED <<clock, jobs, runners, pay, paying, upstream>>
  BY DEF PlanDirectly
<1>2. /\ escrow' \in [DOMAIN escrow' -> Escrow]
      /\ DOMAIN escrow' \subseteq WorkIds \cap used'
      /\ used' \subseteq WorkIds \cup JobIds /\ used \subseteq used'
      /\ PayInv'
  BY <1>1, PrepareStep DEF WorkInv
<1>3. WorkTypeOK'
  BY <1>1, <1>2 DEF WorkInv, WorkTypeOK
<1> QED
  BY <1>1, <1>2, <1>3, JobsUntouched DEF WorkInv, Fresh, PaidFor

(* Dropping jobs that have lapsed drops none that a goroutine still needs. *)
LEMMA DropLapsed ==
  ASSUME WorkInv, NEW gone \in SUBSET LapsedJobs, jobs' = Without(jobs, gone),
         UNCHANGED <<clock, runners>>
  PROVE  /\ jobs' \in [DOMAIN jobs' -> Job] /\ DOMAIN jobs' \subseteq DOMAIN jobs
         /\ JobInv'
<1>1. DOMAIN jobs' = DOMAIN jobs \ gone /\ \A j \in DOMAIN jobs' : jobs'[j] = jobs[j]
  BY DEF Without
<1>2. jobs' \in [DOMAIN jobs' -> Job]
  BY <1>1 DEF WorkInv, WorkTypeOK, Without
<1>3. ASSUME NEW j \in DOMAIN runners
      PROVE  j \notin gone
  <2>1. Watched(j)
    BY DEF WorkInv, JobInv
  <2>2. runners[j].deadline \in Nat /\ clock \in Nat /\ jobs[j].expires \in Nat
    BY <2>1 DEF Watched, WorkInv, WorkTypeOK, Runner, Job
  <2> QED
    BY <2>1, <2>2 DEF Watched, LapsedJobs
<1>4. JobInv'
  BY <1>1, <1>3 DEF WorkInv, JobInv, OnePreparation, Watched
<1> QED
  BY <1>1, <1>2, <1>4

(* Asking for a job and polling it.                                        *)
LEMMA AskJobStep ==
  ASSUME WorkInv,
         \/ \E p \in Prompts : ReuseJob(p) \/ BusyWithJob(p)
         \/ \E j \in JobIds : PollLapsedJob(j)
  PROVE  WorkInv' /\ Fresh
<1>1. UNCHANGED <<clock, escrow, runners, used, pay, paying, upstream>>
  BY DEF ReuseJob, BusyWithJob, PollLapsedJob
<1>2. \E gone \in SUBSET LapsedJobs : jobs' = Without(jobs, gone)
  <2>1. ASSUME NEW j \in JobIds, PollLapsedJob(j)
        PROVE  {j} \in SUBSET LapsedJobs /\ jobs' = Without(jobs, {j})
    BY <2>1 DEF PollLapsedJob
  <2>2. ASSUME NEW p \in Prompts, BusyWithJob(p)
        PROVE  LapsedJobs \in SUBSET LapsedJobs /\ jobs' = Without(jobs, LapsedJobs)
    BY <2>2 DEF BusyWithJob
  <2> QED
    BY <2>1, <2>2 DEF ReuseJob
<1>3. /\ jobs' \in [DOMAIN jobs' -> Job] /\ DOMAIN jobs' \subseteq DOMAIN jobs
      /\ JobInv'
  BY <1>1, <1>2, DropLapsed
<1>4. WorkTypeOK'
  BY <1>1, <1>3 DEF WorkInv, WorkTypeOK
<1>5. PayInv' /\ Fresh
  BY <1>1, PaymentsUntouched DEF WorkInv, Fresh, PaidFor
<1> QED
  BY <1>3, <1>4, <1>5 DEF WorkInv

(* A job starts only when no goroutine is left: one that were would have   *)
(* its entry still in the map, processing and not lapsed.                  *)
LEMMA StartJobStep ==
  ASSUME WorkInv, NEW j \in JobIds, NEW p \in Prompts, StartJob(j, p)
  PROVE  WorkInv' /\ Fresh
<1> DEFINE job == [prompt |-> p, status |-> "processing", work |-> NoWork,
                   expires |-> clock + JobTTL]
           runner == [prompt |-> p, work |-> NoWork, deadline |-> clock + JobTimeout]
<1>1. clock \in Nat /\ JobTTL \in Nat /\ JobTimeout \in Nat /\ JobTimeout < JobTTL
  BY WorkAssumption DEF WorkInv, WorkTypeOK
<1>2. job \in Job /\ runner \in Runner
  BY <1>1 DEF Job, Runner
<1>3. DOMAIN runners = {}
  <2>1. ASSUME NEW i \in DOMAIN runners
        PROVE  FALSE
    <3>1. Watched(i)
      BY DEF WorkInv, JobInv
    <3>2. runners[i].deadline \in Nat /\ jobs[i].expires \in Nat
      BY <3>1 DEF Watched, WorkInv, WorkTypeOK, Runner, Job
    <3>3. i \in Processing
      BY <1>1, <3>1, <3>2 DEF Watched, Processing, LiveJobs, LapsedJobs
    <3> QED
      BY <3>3 DEF StartJob
  <2> QED
    BY <2>1
<1>4. /\ used' = used \cup {j} /\ j \notin used
      /\ jobs' = With(Without(jobs, LapsedJobs), j, job)
      /\ runners' = With(runners, j, runner)
      /\ UNCHANGED <<clock, escrow, pay, paying, upstream>>
  BY DEF StartJob
<1>5. /\ DOMAIN runners' = {j} /\ runners'[j] = runner
      /\ runners' = [i \in DOMAIN runners' |-> runners'[i]]
  BY <1>3, <1>4 DEF With
<1>6. /\ DOMAIN jobs' = (DOMAIN jobs \ LapsedJobs) \cup {j} /\ jobs'[j] = job
      /\ \A i \in DOMAIN jobs' : i # j => jobs'[i] = jobs[i]
      /\ jobs' = [i \in DOMAIN jobs' |-> jobs'[i]]
  BY <1>4 DEF With, Without
<1>7. \A i \in DOMAIN jobs' : jobs'[i] \in Job
  BY <1>2, <1>6 DEF WorkInv, WorkTypeOK
<1>8. job.status = "processing" /\ job.expires = clock + JobTTL
      /\ runner.deadline = clock + JobTimeout
  OBVIOUS
<1> HIDE DEF job, runner
<1>9. WorkTypeOK'
  BY <1>2, <1>4, <1>5, <1>6, <1>7 DEF WorkInv, WorkTypeOK
<1>10. JobInv'
  BY <1>1, <1>4, <1>5, <1>6, <1>8 DEF JobInv, OnePreparation, Watched
<1>11. PayInv' /\ Fresh
  BY <1>4 DEF WorkInv, PayInv, PaidOnce, Sealed, PaidFor, Fresh
<1> QED
  BY <1>9, <1>10, <1>11 DEF WorkInv

(* The goroutine of a job prepares its work.                               *)
LEMMA RunnerPreparesStep ==
  ASSUME WorkInv, NEW j \in JobIds, NEW w \in WorkIds, RunnerPrepares(j, w)
  PROVE  WorkInv' /\ Fresh
<1>1. /\ j \in DOMAIN runners
      /\ Prepare(w, runners[j].prompt)
      /\ runners' = [runners EXCEPT ![j].work = w]
      /\ UNCHANGED <<clock, jobs, pay, paying, upstream>>
  BY DEF RunnerPrepares
<1>2. \A i \in DOMAIN runners : runners[i] \in Runner
  BY DEF WorkInv, WorkTypeOK
<1>3. runners[j].prompt \in Prompts
  BY <1>1, <1>2 DEF Runner
<1>4. /\ escrow' \in [DOMAIN escrow' -> Escrow]
      /\ DOMAIN escrow' \subseteq WorkIds \cap used'
      /\ used' \subseteq WorkIds \cup JobIds /\ used \subseteq used'
      /\ PayInv'
  BY <1>1, <1>3, PrepareStep DEF WorkInv
<1>5. /\ DOMAIN runners' = DOMAIN runners
      /\ \A i \in DOMAIN runners' : /\ runners'[i] \in Runner
                                    /\ runners'[i].deadline = runners[i].deadline
      /\ runners' \in [DOMAIN runners' -> Runner]
  BY <1>1, <1>2 DEF Runner
<1>6. WorkTypeOK'
  BY <1>1, <1>4, <1>5 DEF WorkInv, WorkTypeOK
<1>7. JobInv'
  BY <1>1, <1>5 DEF WorkInv, JobInv, OnePreparation, Watched
<1> QED
  BY <1>1, <1>4, <1>6, <1>7 DEF WorkInv, Fresh, PaidFor

(* The goroutine of a job ends; it was the only one.                       *)
LEMMA RunnerEndsStep ==
  ASSUME WorkInv, NEW j \in JobIds, NEW ready \in BOOLEAN, RunnerEnds(j, ready)
  PROVE  WorkInv' /\ Fresh
<1>1. /\ j \in DOMAIN runners
      /\ ready => runners[j].work # NoWork
      /\ runners' = Without(runners, {j})
      /\ UNCHANGED <<clock, escrow, used, pay, paying, upstream>>
  BY DEF RunnerEnds, EndJob
<1>2. Watched(j)
  BY <1>1 DEF WorkInv, JobInv
<1>3. jobs[j] \in Job /\ runners[j] \in Runner
  BY <1>1, <1>2 DEF Watched, WorkInv, WorkTypeOK
<1>4. jobs' = [jobs EXCEPT ![j].status = IF ready THEN "ready" ELSE "failed",
                           ![j].work = IF ready THEN runners[j].work ELSE @]
  BY <1>2 DEF RunnerEnds, EndJob, Watched
<1>5. jobs' \in [DOMAIN jobs -> Job]
  BY <1>3, <1>4 DEF WorkInv, WorkTypeOK, Job, Runner
<1>6. DOMAIN runners' = {}
  BY <1>1 DEF WorkInv, JobInv, OnePreparation, Without
<1>7. runners' \in [DOMAIN runners' -> Runner]
  BY <1>1, <1>6 DEF Without
<1>8. WorkTypeOK'
  BY <1>1, <1>5, <1>6, <1>7 DEF WorkInv, WorkTypeOK
<1>9. JobInv'
  BY <1>6 DEF JobInv, OnePreparation
<1> QED
  BY <1>1, <1>8, <1>9, PaymentsUntouched DEF WorkInv, Fresh, PaidFor

(* Time passes only while every goroutine is within its context.           *)
LEMMA TickStep ==
  ASSUME WorkInv, Tick
  PROVE  WorkInv' /\ Fresh
<1>1. /\ clock' = clock + 1
      /\ \A j \in DOMAIN runners : clock < runners[j].deadline
      /\ UNCHANGED <<escrow, jobs, runners, used, pay, paying, upstream>>
  BY DEF Tick
<1>2. WorkTypeOK'
  BY <1>1 DEF WorkInv, WorkTypeOK
<1>3. ASSUME NEW j \in DOMAIN runners
      PROVE  clock' <= runners[j].deadline
  <2>1. runners[j].deadline \in Nat /\ clock \in Nat
    BY DEF WorkInv, WorkTypeOK, Runner
  <2> QED
    BY <1>1, <2>1
<1>4. JobInv'
  BY <1>1, <1>3 DEF WorkInv, JobInv, OnePreparation, Watched
<1> QED
  BY <1>1, <1>2, <1>4, PaymentsUntouched DEF WorkInv, Fresh, PaidFor

(* A crash forgets the escrow and the jobs; the ids stay given out.        *)
LEMMA CrashStep ==
  ASSUME WorkInv, Crash
  PROVE  WorkInv' /\ Fresh
<1>1. /\ DOMAIN escrow' = {} /\ DOMAIN jobs' = {} /\ DOMAIN runners' = {}
      /\ UNCHANGED <<clock, used, upstream>> /\ paying' = NoPayment
  BY DEF Crash, Without, WorkInv, WorkTypeOK
<1>2. /\ escrow' \in [DOMAIN escrow' -> Escrow] /\ jobs' \in [DOMAIN jobs' -> Job]
      /\ runners' \in [DOMAIN runners' -> Runner]
  BY <1>1 DEF Crash, Without
<1>3. pay' = [r \in Payments |-> IF pay[r].at = "new" THEN pay[r]
                                 ELSE [pay[r] EXCEPT !.at = "done"]]
  BY DEF Crash
<1>4. pay' \in PayType
  <2> DEFINE Request == [at: {"new", "waiting", "matched", "sent", "done"},
                         work: WorkIds \cup {NoWork}, prompt: Prompts \cup {NoWork}]
  <2>1. ASSUME NEW r \in Payments PROVE pay[r] \in Request
    BY DEF WorkInv, WorkTypeOK
  <2>2. ASSUME NEW r \in Payments
        PROVE  [pay[r] EXCEPT !.at = "done"] \in Request
    BY <2>1
  <2> HIDE DEF Request
  <2>3. pay' \in [Payments -> Request]
    BY <1>3, <2>1, <2>2
  <2> QED BY <2>3 DEF Request, PayType
<1>5. \A r \in Payments : /\ pay'[r].work = pay[r].work
                          /\ pay'[r].at \in {"new", "done"}
                          /\ pay[r].at # "new" => pay'[r].at = "done"
  BY <1>3 DEF WorkInv, WorkTypeOK
<1>6. WorkTypeOK'
  BY <1>1, <1>2, <1>4 DEF WorkInv, WorkTypeOK, PayType
<1>7. PayInv'
  BY <1>1, <1>5 DEF WorkInv, PayInv, PaidOnce, Sealed, PaidFor
<1>8. JobInv'
  BY <1>1 DEF JobInv, OnePreparation
<1> QED
  BY <1>1, <1>6, <1>7, <1>8 DEF WorkInv, Fresh, PaidFor

-----------------------------------------------------------------------------

(* A payment comes in, for work that was shown.                            *)
LEMMA ArriveStep ==
  ASSUME WorkInv, NEW r \in Payments, NEW w \in WorkIds, NEW p \in Prompts,
         ArrivePayment(r, w, p)
  PROVE  WorkInv' /\ Fresh
<1>1. /\ pay[r].at = "new" /\ w \in used
      /\ pay' = [pay EXCEPT ![r] = [at |-> "waiting", work |-> w, prompt |-> p]]
      /\ UNCHANGED <<clock, escrow, jobs, runners, used, paying, upstream>>
  BY DEF ArrivePayment
<1>2. /\ pay' \in PayType
      /\ pay'[r].at = "waiting" /\ pay'[r].work = w
      /\ \A s \in Payments \ {r} : pay'[s] = pay[s]
  BY <1>1 DEF WorkInv, WorkTypeOK, PayType
<1>3. WorkTypeOK'
  BY <1>1, <1>2 DEF WorkInv, WorkTypeOK, PayType
<1>4. ~PaidFor(r)
  BY <1>1 DEF WorkInv, PayInv, Sealed
<1>5. PayInv'
  BY <1>1, <1>2, <1>4 DEF WorkInv, PayInv, PaidOnce, Sealed, PaidFor
<1> QED
  BY <1>1, <1>3, <1>5, JobsUntouched DEF WorkInv, Fresh, PaidFor

(* A payment moves on without being sent; the escrow may lose an entry.    *)
LEMMA MoveStep ==
  ASSUME WorkInv, NEW r \in Payments,
         NEW place \in {"matched", "done"}, Goto(r, place),
         pay[r].at \in {"waiting", "matched", "sent"},
         place = "matched" => pay[r].at = "waiting" /\ Matches(r),
         DOMAIN escrow' \subseteq DOMAIN escrow,
         \A w \in DOMAIN escrow' : escrow'[w] \in Escrow
                                   /\ escrow'[w].inFlight = escrow[w].inFlight
                                   /\ escrow'[w].prompt = escrow[w].prompt,
         escrow' = [w \in DOMAIN escrow' |-> escrow'[w]],
         paying' \in Payments \cup {NoPayment},
         UNCHANGED <<clock, jobs, runners, used, upstream>>
  PROVE  WorkInv' /\ Fresh
<1>1. /\ pay' \in PayType
      /\ pay'[r].at = place /\ pay'[r].work = pay[r].work
      /\ pay'[r].prompt = pay[r].prompt
      /\ \A s \in Payments \ {r} : pay'[s] = pay[s]
  BY GotoPayment DEF WorkInv, WorkTypeOK, PayType
<1>2. escrow' \in [DOMAIN escrow' -> Escrow]
  OBVIOUS
<1>3. WorkTypeOK'
  BY <1>1, <1>2 DEF WorkInv, WorkTypeOK, PayType
<1>4. \A s \in Payments : pay'[s].work = pay[s].work
  BY <1>1
<1>5. PaidOnce'
  BY <1>4 DEF WorkInv, PayInv, PaidOnce, PaidFor
<1>6. Sealed(r)'
  <2>1. PaidFor(r)' => place # "matched"
    BY DEF WorkInv, PayInv, Sealed, PaidFor
  <2>2. CASE place = "matched"
    BY <1>1, <2>1, <2>2 DEF WorkInv, PayInv, Sealed, PaidFor, Matches
  <2>3. CASE place = "done"
    BY <1>1, <2>3 DEF WorkInv, PayInv, Sealed, PaidFor
  <2> QED
    BY <2>2, <2>3
<1>7. \A s \in Payments \ {r} : Sealed(s)'
  BY <1>1 DEF WorkInv, PayInv, Sealed, PaidFor
<1>8. PayInv'
  BY <1>5, <1>6, <1>7 DEF PayInv
<1> QED
  BY <1>3, <1>8, JobsUntouched DEF WorkInv, Fresh, PaidFor

(* Every way a payment moves on without being sent.                        *)
LEMMA UnsentStep ==
  ASSUME WorkInv, NEW r \in Payments,
         \/ MatchWork(r) \/ MatchNothing(r) \/ StopPayment(r)
         \/ MarkRefused(r) \/ AnswerUnsettled(r)
         \/ AnswerSettled(r)
  PROVE  WorkInv' /\ Fresh
<1>1. \A w \in DOMAIN escrow : escrow[w] \in Escrow
  BY DEF WorkInv, WorkTypeOK
<1>2. /\ escrow = [w \in DOMAIN escrow |-> escrow[w]]
      /\ paying \in Payments \cup {NoPayment}
  BY DEF WorkInv, WorkTypeOK
<1>3. CASE MatchWork(r)
  <2>1. /\ Goto(r, "matched") /\ pay[r].at = "waiting" /\ Matches(r) /\ paying' = r
        /\ UNCHANGED <<clock, escrow, jobs, runners, used, upstream>>
    BY <1>3 DEF MatchWork
  <2> QED
    BY <1>1, <1>2, <2>1, MoveStep
<1>4. CASE MatchNothing(r)
  <2>1. /\ Goto(r, "done") /\ pay[r].at = "waiting"
        /\ UNCHANGED <<clock, jobs, runners, used, paying, upstream>>
    BY <1>4 DEF MatchNothing
  <2>2. escrow' = escrow \/ escrow' = Without(escrow, {pay[r].work})
    BY <1>4 DEF MatchNothing
  <2>3. /\ DOMAIN escrow' \subseteq DOMAIN escrow
        /\ \A w \in DOMAIN escrow' : escrow'[w] = escrow[w]
        /\ escrow' = [w \in DOMAIN escrow' |-> escrow'[w]]
    BY <1>2, <2>2 DEF Without
  <2> QED
    BY <1>1, <1>2, <2>1, <2>3, MoveStep
<1>5. CASE StopPayment(r) \/ MarkRefused(r) \/ AnswerUnsettled(r)
  <2>1. /\ Goto(r, "done") /\ pay[r].at \in {"matched", "sent"} /\ paying' = NoPayment
        /\ UNCHANGED <<clock, escrow, jobs, runners, used, upstream>>
    BY <1>5 DEF StopPayment, MarkRefused, AnswerUnsettled
  <2> QED
    BY <1>1, <1>2, <2>1, MoveStep
<1>6. CASE AnswerSettled(r)
  <2>1. /\ Goto(r, "done") /\ pay[r].at = "sent" /\ paying' = NoPayment
        /\ UNCHANGED <<clock, jobs, runners, used, upstream>>
    BY <1>6 DEF AnswerSettled
  <2>2. escrow' = [w \in DOMAIN escrow |->
                     IF w = pay[r].work THEN [escrow[w] EXCEPT !.used = TRUE]
                                        ELSE escrow[w]]
    BY <1>6 DEF AnswerSettled
  <2>3. DOMAIN escrow' = DOMAIN escrow /\ escrow' = [w \in DOMAIN escrow' |-> escrow'[w]]
    BY <2>2
  <2>4. \A w \in DOMAIN escrow' : /\ escrow'[w] \in Escrow
                                  /\ escrow'[w].inFlight = escrow[w].inFlight
                                  /\ escrow'[w].prompt = escrow[w].prompt
    BY <1>1, <2>2 DEF Escrow
  <2> QED
    BY <1>2, <2>1, <2>3, <2>4, MoveStep
<1> QED
  BY <1>3, <1>4, <1>5, <1>6

(* Sending a payment marks its work; had the work been paid for before, it *)
(* would be marked already.                                                *)
LEMMA SendStep ==
  ASSUME WorkInv, NEW r \in Payments, SendPayment(r)
  PROVE  WorkInv' /\ Fresh
<1> DEFINE w == pay[r].work
<1>1. /\ pay[r].at = "matched" /\ Markable(r)
      /\ escrow' = [escrow EXCEPT ![w].inFlight = TRUE]
      /\ upstream' = [upstream EXCEPT ![r] = "pending"]
      /\ Goto(r, "sent")
      /\ UNCHANGED <<clock, jobs, runners, used, paying>>
  BY DEF SendPayment
<1>2. w \in DOMAIN escrow /\ ~escrow[w].inFlight /\ clock <= escrow[w].expires
  BY <1>1 DEF Markable
<1>3. w \in used /\ escrow[w].prompt = pay[r].prompt /\ ~PaidFor(r)
  BY <1>1, <1>2 DEF WorkInv, PayInv, Sealed
<1>4. ASSUME NEW s \in Payments, PaidFor(s)
      PROVE  pay[s].work # w
  BY <1>2, <1>4 DEF WorkInv, PayInv, Sealed
<1>5. /\ pay' \in PayType
      /\ pay'[r].at = "sent" /\ pay'[r].work = w
      /\ pay'[r].prompt = pay[r].prompt
      /\ \A s \in Payments \ {r} : pay'[s] = pay[s]
  BY <1>1, GotoPayment DEF WorkInv, WorkTypeOK, PayType
<1>6. /\ DOMAIN escrow' = DOMAIN escrow /\ escrow'[w].inFlight
      /\ \A v \in DOMAIN escrow' : /\ escrow'[v].prompt = escrow[v].prompt
                                   /\ v # w => escrow'[v] = escrow[v]
      /\ escrow' \in [DOMAIN escrow' -> Escrow]
  <2>1. \A v \in DOMAIN escrow : escrow[v] \in Escrow
    BY DEF WorkInv, WorkTypeOK
  <2>2. escrow' = [v \in DOMAIN escrow |->
                     IF v = w THEN [escrow[w] EXCEPT !.inFlight = TRUE] ELSE escrow[v]]
    BY <1>1, <1>2, <2>1 DEF WorkInv, WorkTypeOK
  <2>3. [escrow[w] EXCEPT !.inFlight = TRUE] \in Escrow
    BY <1>2, <2>1 DEF Escrow
  <2>4. [escrow[w] EXCEPT !.inFlight = TRUE].inFlight
        /\ [escrow[w] EXCEPT !.inFlight = TRUE].prompt = escrow[w].prompt
    BY <1>2, <2>1 DEF Escrow
  <2> QED
    BY <1>2, <2>1, <2>2, <2>3, <2>4
<1>7. /\ upstream' \in [Payments -> {"none", "pending", "settled", "refused"}]
      /\ \A s \in Payments \ {r} : upstream'[s] = upstream[s]
      /\ upstream'[r] = "pending"
  BY <1>1 DEF WorkInv, WorkTypeOK
<1>8. WorkTypeOK'
  BY <1>1, <1>5, <1>6, <1>7 DEF WorkInv, WorkTypeOK, PayType
<1>9. PaidOnce'
  <2>1. \A s \in Payments \ {r} : PaidFor(s)' => pay'[s].work # w
    BY <1>4, <1>5, <1>7 DEF PaidFor
  <2> QED
    BY <1>5, <1>7, <2>1 DEF WorkInv, PayInv, PaidOnce, PaidFor
<1>10. Sealed(r)'
  BY <1>1, <1>3, <1>5, <1>6 DEF Sealed, PaidFor
<1>11. ASSUME NEW s \in Payments \ {r}
       PROVE  Sealed(s)'
  <2>1. Sealed(s)
    BY DEF WorkInv, PayInv
  <2>2. \A v \in DOMAIN escrow : escrow[v].inFlight => escrow'[v].inFlight
    BY <1>6
  <2> QED
    BY <1>1, <1>5, <1>6, <1>7, <2>1, <2>2 DEF Sealed, PaidFor
<1>12. Fresh
  BY <1>2, <1>3, <1>7 DEF Fresh, PaidFor
<1> QED
  BY <1>1, <1>8, <1>9, <1>10, <1>11, <1>12, JobsUntouched DEF WorkInv, PayInv

(* What becomes of a payment upstream, whoever is still listening.         *)
LEMMA UpstreamStep ==
  ASSUME WorkInv, NEW r \in Payments, SettleUpstream(r) \/ RefuseUpstream(r)
  PROVE  WorkInv' /\ Fresh
<1>1. /\ upstream[r] = "pending"
      /\ \/ upstream' = [upstream EXCEPT ![r] = "settled"]
         \/ upstream' = [upstream EXCEPT ![r] = "refused"]
      /\ UNCHANGED <<clock, escrow, jobs, runners, used, pay, paying>>
  BY DEF SettleUpstream, RefuseUpstream
<1>2. /\ upstream' \in [Payments -> {"none", "pending", "settled", "refused"}]
      /\ \A s \in Payments : PaidFor(s)' = PaidFor(s)
  BY <1>1 DEF WorkInv, WorkTypeOK, PaidFor
<1>3. WorkTypeOK'
  BY <1>1, <1>2 DEF WorkInv, WorkTypeOK
<1>4. PayInv'
  BY <1>1, <1>2 DEF WorkInv, PayInv, PaidOnce, Sealed
<1> QED
  BY <1>1, <1>2, <1>3, <1>4, JobsUntouched DEF WorkInv, Fresh

-----------------------------------------------------------------------------

(* A new process has prepared nothing.                                     *)
LEMMA InitWorkInv == WorkInit => WorkInv
<1> SUFFICES ASSUME WorkInit
             PROVE  WorkInv
  OBVIOUS
<1>1. DOMAIN escrow = {} /\ DOMAIN jobs = {} /\ DOMAIN runners = {}
  BY DEF WorkInit
<1>2. WorkTypeOK
  BY <1>1 DEF WorkInit, WorkTypeOK
<1>3. PayInv
  BY DEF WorkInit, PayInv, PaidOnce, Sealed, PaidFor
<1>4. JobInv
  BY <1>1 DEF JobInv, OnePreparation
<1> QED
  BY <1>2, <1>3, <1>4 DEF WorkInv

(* Every step keeps the invariant and sends only fresh work.               *)
LEMMA NextWorkInv == WorkInv /\ [WorkNext]_workVars => WorkInv' /\ Fresh
<1> SUFFICES ASSUME WorkInv, [WorkNext]_workVars
             PROVE  WorkInv' /\ Fresh
  OBVIOUS
<1>1. CASE \E w \in WorkIds, p \in Prompts : PlanDirectly(w, p)
  BY <1>1, PlanStep
<1>2. CASE JobNext
  <2>1. ASSUME NEW p \in Prompts, NEW j \in JobIds, StartJob(j, p)
        PROVE  WorkInv' /\ Fresh
    BY <2>1, StartJobStep
  <2>2. ASSUME NEW j \in JobIds, NEW w \in WorkIds, RunnerPrepares(j, w)
        PROVE  WorkInv' /\ Fresh
    BY <2>2, RunnerPreparesStep
  <2>3. ASSUME NEW j \in JobIds, NEW ready \in BOOLEAN, RunnerEnds(j, ready)
        PROVE  WorkInv' /\ Fresh
    BY <2>3, RunnerEndsStep
  <2> QED
    BY <1>2, <2>1, <2>2, <2>3, AskJobStep DEF JobNext
<1>3. ASSUME NEW r \in Payments, PayNext(r)
      PROVE  WorkInv' /\ Fresh
  BY <1>3, ArriveStep, UnsentStep, SendStep, UpstreamStep DEF PayNext
<1>4. CASE UNCHANGED workVars
  <2>1. UNCHANGED <<clock, escrow, jobs, runners, used, pay, paying, upstream>>
    BY <1>4 DEF workVars
  <2>2. WorkTypeOK'
    BY <2>1 DEF WorkInv, WorkTypeOK
  <2> QED
    BY <2>1, <2>2, JobsUntouched, PaymentsUntouched DEF WorkInv, Fresh, PaidFor
<1> QED
  BY <1>1, <1>2, <1>3, <1>4, TickStep, CrashStep DEF WorkNext

(* The invariant holds of every behaviour.                                 *)
LEMMA WorkInvariant == WorkSpec => []WorkInv
  BY InitWorkInv, NextWorkInv, PTL DEF WorkSpec

-----------------------------------------------------------------------------

(* Type correctness of the escrow, the jobs and the payments.              *)
THEOREM WorkTypeCorrect == WorkSpec => []WorkTypeOK
<1>1. WorkInv => WorkTypeOK
  BY DEF WorkInv
<1> QED
  BY <1>1, WorkInvariant, PTL

(* matchPreparedWork, markPreparedWorkInFlight and prepareOfficialWork     *)
(* together let no prepared work be paid for twice.                        *)
THEOREM PaidAtMostOnce == WorkSpec => []PaidOnce
<1>1. WorkInv => PaidOnce
  BY DEF WorkInv, PayInv
<1> QED
  BY <1>1, WorkInvariant, PTL

(* startOfficialPlanJob never runs a second preparation: a job's entry     *)
(* outlives its goroutine, so the entry is found.                          *)
THEOREM OneRunner == WorkSpec => []OnePreparation
<1>1. WorkInv => OnePreparation
  BY DEF WorkInv, JobInv
<1> QED
  BY <1>1, WorkInvariant, PTL

(* markPreparedWorkInFlight checks again what matchPreparedWork had        *)
(* checked: a payment is sent only for work held, unexpired and of its     *)
(* prompt.                                                                 *)
THEOREM PaidFresh == WorkSpec => FreshWhenPaid
<1>1. WorkInv /\ [WorkNext]_workVars =>
        [\A r \in Payments : ~PaidFor(r) /\ PaidFor(r)' =>
           /\ pay[r].work \in DOMAIN escrow
           /\ clock <= escrow[pay[r].work].expires
           /\ escrow[pay[r].work].prompt = pay[r].prompt]_workVars
  BY NextWorkInv DEF Fresh
<1> QED
  BY <1>1, WorkInvariant, PTL DEF WorkSpec, FreshWhenPaid
=============================================================================
