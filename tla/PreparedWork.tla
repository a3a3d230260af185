---------------------------- MODULE PreparedWork ----------------------------
(***************************************************************************)
(* Prepared work of the Go gateway: AI work done before the wallet signs,  *)
(* held in memory until a payment releases it, the background jobs that    *)
(* prepare it, and the browser-wallet payments that consume it.            *)
(*                                                                         *)
(* planJobMu covers each use of the jobs, preparedWorkMu each use of the   *)
(* escrow, and walletPayMu a whole payment; time passes, and the escrow is *)
(* cleaned, between the steps of a payment.  All of it is lost in a crash, *)
(* while a payment that was sent may still settle.                         *)
(***************************************************************************)
EXTENDS Integers, FiniteSets

CONSTANTS
  Prompts,      \* prompts with their task type
  WorkIds, NoWork,
  JobIds,
  Payments,     \* wallet payments: one signature each
  NoPayment,
  WorkTTL,      \* life of prepared work, 10 minutes in the code
  JobTTL,       \* life of a job, 15 minutes in the code
  JobTimeout,   \* a job's context, 10 minutes in the code
  MaxClock      \* bound: ticks

ASSUME WorkAssumption ==
  /\ NoWork \notin WorkIds /\ NoPayment \notin Payments
  /\ WorkTTL \in Nat /\ JobTTL \in Nat /\ JobTimeout \in Nat
  /\ JobTimeout < JobTTL
  /\ MaxClock \in Nat

VARIABLES
  clock,     \* time.Now()
  escrow,    \* Gateway.preparedWork
  jobs,      \* Gateway.planJobs
  runners,   \* goroutines of runOfficialPlanJob
  used,      \* history: the ids newID has given out
  pay,       \* where each payment is, and what it asks for
  paying,    \* the payment that holds walletPayMu
  upstream   \* what became of each signed payment

workVars == <<clock, escrow, jobs, runners, used, pay, paying, upstream>>

Escrow == [prompt: Prompts, used: BOOLEAN, inFlight: BOOLEAN, expires: Nat]
Job == [prompt: Prompts, status: {"processing", "ready", "failed"},
        work: WorkIds \cup {NoWork}, expires: Nat]
Runner == [prompt: Prompts, work: WorkIds \cup {NoWork}, deadline: Nat]

WorkInit ==
  /\ clock = 0
  /\ escrow = [w \in {} |-> NoWork]
  /\ jobs = [j \in {} |-> NoWork]
  /\ runners = [j \in {} |-> NoWork]
  /\ used = {}
  /\ pay = [r \in Payments |-> [at |-> "new", work |-> NoWork, prompt |-> NoWork]]
  /\ paying = NoPayment
  /\ upstream = [r \in Payments |-> "none"]

With(f, k, v) == [x \in DOMAIN f \cup {k} |-> IF x = k THEN v ELSE f[x]]
Without(f, ks) == [x \in DOMAIN f \ ks |-> f[x]]

-----------------------------------------------------------------------------
(* Preparing work.                                                         *)

(* Used and expired work is dropped, the new work goes in.                 *)
Prepare(w, p) ==
  LET stale == {v \in DOMAIN escrow : escrow[v].used \/ clock > escrow[v].expires}
  IN
  /\ w \notin used
  /\ used' = used \cup {w}
  /\ escrow' = With(Without(escrow, stale), w,
                    [prompt |-> p, used |-> FALSE, inFlight |-> FALSE,
                     expires |-> clock + WorkTTL])

(* POST /api/official/plan, without a job.                                 *)
PlanDirectly(w, p) ==
  /\ Prepare(w, p)
  /\ UNCHANGED <<clock, jobs, runners, pay, paying, upstream>>

-----------------------------------------------------------------------------
(* Background jobs.                                                        *)

LapsedJobs == {j \in DOMAIN jobs : clock > jobs[j].expires}
LiveJobs == DOMAIN jobs \ LapsedJobs
Processing == {j \in LiveJobs : jobs[j].status = "processing"}

Payable(w) ==
  /\ w \in DOMAIN escrow
  /\ ~escrow[w].used /\ ~escrow[w].inFlight /\ clock < escrow[w].expires
Reusable(p) ==
  {j \in LiveJobs : /\ jobs[j].prompt = p
                    /\ \/ jobs[j].status = "processing"
                       \/ jobs[j].status = "ready" /\ Payable(jobs[j].work)}

(* A job of the same request is named instead; the map's order decides     *)
(* which lapsed jobs were dropped before it was found.                     *)
ReuseJob(p) ==
  /\ Reusable(p) # {}
  /\ \E gone \in SUBSET LapsedJobs : jobs' = Without(jobs, gone)
  /\ UNCHANGED <<clock, escrow, runners, used, pay, paying, upstream>>

BusyWithJob(p) ==
  /\ Reusable(p) = {} /\ Processing # {}
  /\ jobs' = Without(jobs, LapsedJobs)
  /\ UNCHANGED <<clock, escrow, runners, used, pay, paying, upstream>>

(* Mutant: only jobs of the same request are looked at.                    *)
StartJobBeside(j, p) ==
  /\ Reusable(p) = {}
  /\ j \notin used /\ used' = used \cup {j}
  /\ jobs' = With(Without(jobs, LapsedJobs), j,
                  [prompt |-> p, status |-> "processing", work |-> NoWork,
                   expires |-> clock + JobTTL])
  /\ runners' = With(runners, j,
                     [prompt |-> p, work |-> NoWork, deadline |-> clock + JobTimeout])
  /\ UNCHANGED <<clock, escrow, pay, paying, upstream>>

StartJob(j, p) ==
  /\ Reusable(p) = {} /\ Processing = {}
  /\ j \notin used /\ used' = used \cup {j}
  /\ jobs' = With(Without(jobs, LapsedJobs), j,
                  [prompt |-> p, status |-> "processing", work |-> NoWork,
                   expires |-> clock + JobTTL])
  /\ runners' = With(runners, j,
                     [prompt |-> p, work |-> NoWork, deadline |-> clock + JobTimeout])
  /\ UNCHANGED <<clock, escrow, pay, paying, upstream>>

(* The planner inside the job prepares the work, within its context.       *)
RunnerPrepares(j, w) ==
  /\ j \in DOMAIN runners /\ runners[j].work = NoWork
  /\ Prepare(w, runners[j].prompt)
  /\ runners' = [runners EXCEPT ![j].work = w]
  /\ UNCHANGED <<clock, jobs, pay, paying, upstream>>

(* Mutant: a failed preparation leaves the job as it is.                   *)
EndJobReady(j, ready) ==
  /\ runners' = Without(runners, {j})
  /\ jobs' = IF ready /\ j \in DOMAIN jobs
               THEN [jobs EXCEPT ![j].status = "ready", ![j].work = runners[j].work]
               ELSE jobs

EndJob(j, ready) ==
  /\ runners' = Without(runners, {j})
  /\ jobs' = IF j \in DOMAIN jobs
               THEN [jobs EXCEPT ![j].status = IF ready THEN "ready" ELSE "failed",
                                 ![j].work = IF ready THEN runners[j].work ELSE @]
               ELSE jobs

(* A job ends ready only before its context does; work that was prepared   *)
(* too late stays in the escrow without a job.                             *)
RunnerEnds(j, ready) ==
  /\ j \in DOMAIN runners
  /\ ready => runners[j].work # NoWork /\ clock < runners[j].deadline
  /\ EndJob(j, ready)
  /\ UNCHANGED <<clock, escrow, used, pay, paying, upstream>>

PollLapsedJob(j) ==
  /\ j \in LapsedJobs
  /\ jobs' = Without(jobs, {j})
  /\ UNCHANGED <<clock, escrow, runners, used, pay, paying, upstream>>

-----------------------------------------------------------------------------
(* Wallet payments.                                                        *)

Goto(r, place) == pay' = [pay EXCEPT ![r].at = place]

Matches(r) ==
  LET w == pay[r].work IN
  /\ w \in DOMAIN escrow
  /\ ~escrow[w].used /\ ~escrow[w].inFlight /\ clock <= escrow[w].expires
  /\ escrow[w].prompt = pay[r].prompt
(* Mutant: marking trusts the match made before the fresh challenge.       *)
MarkableOnce(r) ==
  LET w == pay[r].work IN
  w \in DOMAIN escrow /\ ~escrow[w].used /\ ~escrow[w].inFlight

Markable(r) ==
  LET w == pay[r].work IN
  /\ w \in DOMAIN escrow
  /\ ~escrow[w].used /\ ~escrow[w].inFlight /\ clock <= escrow[w].expires

(* A client signs for work it was shown, with the prompt it has on screen. *)
ArrivePayment(r, w, p) ==
  /\ pay[r].at = "new" /\ w \in used
  /\ pay' = [pay EXCEPT ![r] = [at |-> "waiting", work |-> w, prompt |-> p]]
  /\ UNCHANGED <<clock, escrow, jobs, runners, used, paying, upstream>>

MatchWork(r) ==
  /\ pay[r].at = "waiting" /\ paying = NoPayment /\ Matches(r)
  /\ paying' = r
  /\ Goto(r, "matched")
  /\ UNCHANGED <<clock, escrow, jobs, runners, used, upstream>>

(* Mutant: expired work is set to nil instead of deleted.                  *)
MatchNothingNil(r) ==
  LET w == pay[r].work
      expired == w \in DOMAIN escrow /\ ~escrow[w].used /\ ~escrow[w].inFlight
                 /\ clock > escrow[w].expires
  IN
  /\ pay[r].at = "waiting" /\ paying = NoPayment /\ ~Matches(r)
  /\ escrow' = IF expired THEN With(escrow, w, NoWork) ELSE escrow
  /\ Goto(r, "done")
  /\ UNCHANGED <<clock, jobs, runners, used, paying, upstream>>

(* Expired work is dropped when it is asked for, unless it is in flight.   *)
MatchNothing(r) ==
  LET w == pay[r].work
      expired == w \in DOMAIN escrow /\ ~escrow[w].used /\ ~escrow[w].inFlight
                 /\ clock > escrow[w].expires
  IN
  /\ pay[r].at = "waiting" /\ paying = NoPayment /\ ~Matches(r)
  /\ escrow' = IF expired THEN Without(escrow, {w}) ELSE escrow
  /\ Goto(r, "done")
  /\ UNCHANGED <<clock, jobs, runners, used, paying, upstream>>

(* The challenge, the signature or the policy stops it before it is sent.  *)
StopPayment(r) ==
  /\ pay[r].at = "matched"
  /\ Goto(r, "done")
  /\ paying' = NoPayment
  /\ UNCHANGED <<clock, escrow, jobs, runners, used, upstream>>

SendPayment(r) ==
  /\ pay[r].at = "matched" /\ Markable(r)
  /\ escrow' = [escrow EXCEPT ![pay[r].work].inFlight = TRUE]
  /\ upstream' = [upstream EXCEPT ![r] = "pending"]
  /\ Goto(r, "sent")
  /\ UNCHANGED <<clock, jobs, runners, used, paying>>

MarkRefused(r) ==
  /\ pay[r].at = "matched" /\ ~Markable(r)
  /\ Goto(r, "done")
  /\ paying' = NoPayment
  /\ UNCHANGED <<clock, escrow, jobs, runners, used, upstream>>

SettleUpstream(r) ==
  /\ upstream[r] = "pending"
  /\ upstream' = [upstream EXCEPT ![r] = "settled"]
  /\ UNCHANGED <<clock, escrow, jobs, runners, used, pay, paying>>

RefuseUpstream(r) ==
  /\ upstream[r] = "pending"
  /\ upstream' = [upstream EXCEPT ![r] = "refused"]
  /\ UNCHANGED <<clock, escrow, jobs, runners, used, pay, paying>>

(* Mutant: after an error the work is made payable again.                  *)
AnswerUnsettledAgain(r) ==
  /\ pay[r].at = "sent"
  /\ escrow' = [w \in DOMAIN escrow |->
                  IF w = pay[r].work THEN [escrow[w] EXCEPT !.inFlight = FALSE]
                                     ELSE escrow[w]]
  /\ Goto(r, "done")
  /\ paying' = NoPayment
  /\ UNCHANGED <<clock, jobs, runners, used, upstream>>

(* No answer, or one without a complete settlement: the work stays marked. *)
AnswerUnsettled(r) ==
  /\ pay[r].at = "sent"
  /\ Goto(r, "done")
  /\ paying' = NoPayment
  /\ UNCHANGED <<clock, escrow, jobs, runners, used, upstream>>

(* The settlement is complete: the work is spent, also when the answer does*)
(* not carry it.  Work that was dropped meanwhile cannot be marked.        *)
AnswerSettled(r) ==
  /\ pay[r].at = "sent" /\ upstream[r] = "settled"
  /\ escrow' = [w \in DOMAIN escrow |->
                  IF w = pay[r].work THEN [escrow[w] EXCEPT !.used = TRUE]
                                     ELSE escrow[w]]
  /\ Goto(r, "done")
  /\ paying' = NoPayment
  /\ UNCHANGED <<clock, jobs, runners, used, upstream>>

-----------------------------------------------------------------------------

(* A job's goroutine is gone by the end of its context.                    *)
Tick ==
  /\ clock < MaxClock
  /\ \A j \in DOMAIN runners : clock < runners[j].deadline
  /\ clock' = clock + 1
  /\ UNCHANGED <<escrow, jobs, runners, used, pay, paying, upstream>>

Crash ==
  /\ escrow' = Without(escrow, WorkIds)
  /\ jobs' = Without(jobs, JobIds)
  /\ runners' = Without(runners, JobIds)
  /\ pay' = [r \in Payments |-> IF pay[r].at = "new" THEN pay[r]
                                ELSE [pay[r] EXCEPT !.at = "done"]]
  /\ paying' = NoPayment
  /\ UNCHANGED <<clock, used, upstream>>

JobNext ==
  \/ \E p \in Prompts : \/ ReuseJob(p) \/ BusyWithJob(p)
                        \/ \E j \in JobIds : StartJob(j, p)
  \/ \E j \in JobIds : \/ \E w \in WorkIds : RunnerPrepares(j, w)
                       \/ \E ready \in BOOLEAN : RunnerEnds(j, ready)
                       \/ PollLapsedJob(j)

PayNext(r) ==
  \/ \E w \in WorkIds, p \in Prompts : ArrivePayment(r, w, p)
  \/ MatchWork(r) \/ MatchNothing(r) \/ StopPayment(r)
  \/ SendPayment(r) \/ MarkRefused(r)
  \/ SettleUpstream(r) \/ RefuseUpstream(r)
  \/ AnswerUnsettled(r)
  \/ AnswerSettled(r)

WorkNext ==
  \/ \E w \in WorkIds, p \in Prompts : PlanDirectly(w, p)
  \/ JobNext
  \/ \E r \in Payments : PayNext(r)
  \/ Tick
  \/ Crash

WorkSpec == WorkInit /\ [][WorkNext]_workVars

(* A job's goroutine ends: every call it makes carries its context.        *)
JobFairness ==
  \A j \in JobIds : WF_workVars(\E ready \in BOOLEAN : RunnerEnds(j, ready))

WorkFairSpec == WorkSpec /\ JobFairness

-----------------------------------------------------------------------------
(* Properties.                                                             *)

WorkTypeOK ==
  /\ clock \in Nat
  /\ escrow \in [DOMAIN escrow -> Escrow] /\ DOMAIN escrow \subseteq WorkIds \cap used
  /\ jobs \in [DOMAIN jobs -> Job] /\ DOMAIN jobs \subseteq JobIds \cap used
  /\ runners \in [DOMAIN runners -> Runner] /\ DOMAIN runners \subseteq JobIds \cap used
  /\ used \subseteq WorkIds \cup JobIds
  /\ pay \in [Payments -> [at: {"new", "waiting", "matched", "sent", "done"},
                           work: WorkIds \cup {NoWork}, prompt: Prompts \cup {NoWork}]]
  /\ paying \in Payments \cup {NoPayment}
  /\ upstream \in [Payments -> {"none", "pending", "settled", "refused"}]

(* No prepared work is ever paid for twice: not after an unknown outcome,  *)
(* not when the entry was cleaned up while in flight, not after a crash.   *)
PaidFor(r) == upstream[r] # "none"
PaidOnce ==
  \A r, s \in Payments :
    PaidFor(r) /\ PaidFor(s) /\ pay[r].work = pay[s].work => r = s

(* When a payment is sent its work is still held, unexpired and of the very*)
(* prompt, though the fresh challenge came between the match and the       *)
(* sending.                                                                *)
FreshWhenPaid ==
  [][\A r \in Payments : ~PaidFor(r) /\ PaidFor(r)' =>
       /\ pay[r].work \in DOMAIN escrow
       /\ clock <= escrow[pay[r].work].expires
       /\ escrow[pay[r].work].prompt = pay[r].prompt]_workVars

(* The local model never prepares two background jobs at once, though a job*)
(* outlives its entry and entries are dropped as they lapse.               *)
OnePreparation == \A i, j \in DOMAIN runners : i = j

(* No job stays in processing: again and again a new one may start.        *)
JobsEnd == []<>(\A j \in DOMAIN jobs : jobs[j].status # "processing")
=============================================================================
