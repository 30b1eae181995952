---------------------------- MODULE DispatchQueue ----------------------------
(***************************************************************************)
(* The agent dispatch queue: the control plane hands jobs to engines that  *)
(* poll it over HTTP, to Doctor nodes it pushes them to, and to its own    *)
(* hosted worker (agent_dispatch.py, routers/agent_dispatch.py,            *)
(* routers/doctor_ws.py, hosted_dispatch_worker.py).                       *)
(*                                                                         *)
(* The handlers are coroutines of one event loop and call SQLite           *)
(* synchronously: what a handler does between two awaits is one action.    *)
(* A Doctor's socket is here a member of `doctors'; DoctorNodes has the    *)
(* sockets, sessions and outbound queues themselves.                       *)
(***************************************************************************)
EXTENDS DispatchJobs, FiniteSets

CONSTANTS Bodies,       \* DispatchJobCreate bodies: [to, next]
          DRAIN_LIMIT   \* drain_queued_jobs_to_doctor's limit

ASSUME QueueInputs ==
    /\ Bodies \subseteq [to : Target, next : Target]
    /\ \A b \in Bodies : b.to # Nobody
    /\ DRAIN_LIMIT \in Nat \ {0}

VARIABLES
    jobs,     \* table dispatch_jobs
    tod,      \* seconds since midnight UTC
    active,   \* agents whose status is active
    doctors,  \* engines with a live Doctor session
    work,     \* work[x]: jobs handed to x that x may still run or report
    redo      \* history: jobs _requeue_stale has taken back

vars == <<jobs, tod, active, doctors, work, redo>>

Init ==
    /\ jobs = [j \in JobIds |-> NoJob]
    /\ tod = 0
    /\ active = Agents
    /\ doctors = {}
    /\ work = [x \in Executors |-> {}]
    /\ redo = {}

-----------------------------------------------------------------------------

\* Every lease starts with _requeue_stale; `swept' is the table it leaves.
swept == RequeueStale(jobs, tod)

Sweep(t) == redo' = redo \cup {j \in JobIds : Stale(t[j], tod)}

Hand(x, S) == work' = [work EXCEPT ![x] = @ \cup S]

\* offer_job_to_doctor(job k): lease it by id for a live Doctor that matches
\* and push it.  t is the table when it is called.  Nobody matches: no lease,
\* and so no sweep.
Offer(t, k, left) ==
    LET live == {e \in doctors : Matches(e, t[k])}
    IN  IF live = {}
        THEN /\ jobs' = t
             /\ work' = left
             /\ UNCHANGED redo
        ELSE \E e \in live :
             LET u == RequeueStale(t, tod)
             IN  /\ jobs' = [u EXCEPT ![k] = Leased(u[k], e)]
                 /\ work' = [left EXCEPT ![e] = @ \cup {k}]
                 /\ Sweep(t)

\* POST /jobs: create_job, then the offer.
CreateJob(b) ==
    /\ b.to.agent = None \/ b.to.agent \in active
    /\ \E k \in JobIds :
       /\ IsNewId(jobs, k)
       /\ Offer(Insert(jobs, k, b.to, b.next, 0), k, work)
    /\ UNCHANGED <<tod, active, doctors>>

\* POST /jobs/from-engine: the same behind the handoff policy.
CreateFromEngine(source, b) ==
    /\ HandoffAllowed(source, b.to)
    /\ CreateJob(b)

\* GET /jobs/lease.  The answer may be lost on its way to the engine.
LeaseJob(e) ==
    LET mine == QueuedFor(swept, e)
    IN  /\ \/ /\ mine = {}
              /\ jobs' = swept
              /\ UNCHANGED work
           \/ \E j \in mine :
              /\ IsOldest(j, mine)
              /\ jobs' = [swept EXCEPT ![j] = Leased(@, e)]
              /\ Hand(e, {j}) \/ UNCHANGED work
        /\ Sweep(jobs)
        /\ UNCHANGED <<tod, active, doctors>>

\* mutant: any engine may ack
AckJobAnyEngine(e, j) ==
    /\ j \in work[e]
    /\ jobs[j].status \in {"leased", "running"}
    /\ jobs' = [jobs EXCEPT ![j] = Running(@, e)]
    /\ UNCHANGED <<tod, active, doctors, work, redo>>

\* POST /jobs/{id}/ack and job.ack; another engine's job is refused.
AckJob(e, j) ==
    /\ j \in work[e]
    /\ jobs[j].status \in {"leased", "running"}
    /\ jobs[j].lease \in {None, e}
    /\ jobs' = [jobs EXCEPT ![j] = Running(@, e)]
    /\ UNCHANGED <<tod, active, doctors, work, redo>>

\* mutant: no early return for a job that has ended
ReportableAgain(x, j) ==
    /\ jobs[j].status # "absent"
    /\ jobs[j].lease \in {None, x}

\* complete_job accepts a report on a live job from its lease holder, and from
\* anyone on a job that has no holder.
Reportable(x, j) ==
    /\ jobs[j].status \in Live
    /\ jobs[j].lease \in {None, x}

\* mutant: the engine's word is stored as it came
OutcomeAsReported(ok) == IF ok THEN "succeeded" ELSE "failed"

Outcome(ok) == IF ok THEN "completed" ELSE "failed"

HasFollowUp(j, ok) == ok /\ jobs[j].next # Nobody

\* complete_job's first statement; the whole call if there is no follow-up or
\* create_job raises (the exception leaves the job completed).
Closed(j, ok) == [jobs EXCEPT ![j] = Finished(@, Outcome(ok))]

\* complete_job where it creates the follow-up k.
Followed(j, k) == Insert(Closed(j, TRUE), k, jobs[j].next, Nobody, j)

\* The reporter forgets the job; a Doctor or connector that misses the answer
\* keeps it, and may report it again.
Reported(x, j) == [work EXCEPT ![x] = @ \ {j}]

CompleteAlone(x, j, ok) ==
    /\ Reportable(x, j)
    /\ HasFollowUp(j, ok) => ~HandoffAllowed(x, jobs[j].next)
    /\ jobs' = Closed(j, ok)
    /\ work' \in {work, Reported(x, j)}
    /\ UNCHANGED redo

\* POST /jobs/{id}/complete: the follow-up waits in the queue.
CompleteHttp(x, j) ==
    /\ Reportable(x, j)
    /\ HasFollowUp(j, TRUE)
    /\ HandoffAllowed(x, jobs[j].next)
    /\ \E k \in JobIds :
       /\ IsNewId(jobs, k)
       /\ jobs' = Followed(j, k)
    /\ work' \in {work, Reported(x, j)}
    /\ UNCHANGED redo

\* job.complete over a Doctor's socket: the follow-up is offered at once.
CompleteWs(e, j) ==
    /\ e \in doctors
    /\ Reportable(e, j)
    /\ HasFollowUp(j, TRUE)
    /\ HandoffAllowed(e, jobs[j].next)
    /\ \E k \in JobIds :
       /\ IsNewId(jobs, k)
       /\ \E left \in {work, Reported(e, j)} : Offer(Followed(j, k), k, left)

CompleteJob(e, j) ==
    /\ \/ \E ok \in BOOLEAN : CompleteAlone(e, j, ok)
       \/ CompleteHttp(e, j)
       \/ CompleteWs(e, j)
    /\ UNCHANGED <<tod, active, doctors>>

\* mutant: a job that has ended can be cancelled
CancelJobAlways(j) ==
    /\ jobs[j].status # "absent"
    /\ jobs' = [jobs EXCEPT ![j] = Finished(@, "cancelled")]
    /\ UNCHANGED <<tod, active, doctors, work, redo>>

\* POST /jobs/{id}/cancel.
CancelJob(j) ==
    /\ jobs[j].status \in Live
    /\ jobs' = [jobs EXCEPT ![j] = Finished(@, "cancelled")]
    /\ UNCHANGED <<tod, active, doctors, work, redo>>

-----------------------------------------------------------------------------
(* The hosted worker: one job at a time.                                   *)

WorkerIdle == \A a \in Agents : work[a] = {}

\* claim_next_hosted_job and the head of process_next_hosted_job, with no await
\* between them: queued jobs of agents that are not available fail until one of
\* an available agent is leased, and that one is acked at once; it fails if the
\* agent's owner has too many active runs (`capped').
ClaimHosted(capped) ==
    LET queued == QueuedHosted(swept)
        ready  == {j \in queued : swept[j].to.agent \in active}
        Failed(S) == [j \in JobIds |-> IF j \in S THEN Finished(swept[j], "failed")
                                                  ELSE swept[j]]
    IN  /\ WorkerIdle
        /\ \/ /\ ready = {}
              /\ jobs' = Failed(queued)
              /\ UNCHANGED work
           \/ \E j \in ready :
              LET a == swept[j].to.agent
                  t == Failed({i \in queued : i < j})
              IN  /\ IsOldest(j, ready)
                  /\ \/ /\ capped
                        /\ jobs' = [t EXCEPT ![j] =
                                      Finished(Running(@, a), "failed")]
                        /\ UNCHANGED work
                     \/ /\ ~capped
                        /\ jobs' = [t EXCEPT ![j] = Running(@, a)]
                        /\ Hand(a, {j})
        /\ Sweep(jobs)
        /\ UNCHANGED <<tod, active, doctors>>

\* The hosted run ended: complete_job, if the job is still the agent's to
\* report; in any case the worker is free again.
ReportHosted(a) ==
    \E j \in work[a] :
    /\ work' = Reported(a, j)
    /\ \/ \E ok \in BOOLEAN :
          /\ Reportable(a, j)
          /\ HasFollowUp(j, ok) => ~HandoffAllowed(a, jobs[j].next)
          /\ jobs' = Closed(j, ok)
       \/ /\ Reportable(a, j)
          /\ HasFollowUp(j, TRUE)
          /\ HandoffAllowed(a, jobs[j].next)
          /\ \E k \in JobIds : IsNewId(jobs, k) /\ jobs' = Followed(j, k)
       \/ ~Reportable(a, j) /\ UNCHANGED jobs
    /\ UNCHANGED <<tod, active, doctors, redo>>

SetAgentStatus(a) ==
    /\ active' = IF a \in active THEN active \ {a} ELSE active \cup {a}
    /\ UNCHANGED <<jobs, tod, doctors, work, redo>>

-----------------------------------------------------------------------------
(* Doctors, failures and time.                                             *)

ConnectDoctor(e) ==
    /\ doctors' = doctors \cup {e}
    /\ UNCHANGED <<jobs, tod, active, work, redo>>

\* hello: drain_queued_jobs_to_doctor leases the oldest matching jobs, at most
\* DRAIN_LIMIT of them.
HelloDoctor(e) ==
    LET mine == QueuedFor(swept, e)
        drained == {j \in mine : Cardinality({i \in mine : i <= j}) <= DRAIN_LIMIT}
    IN  /\ e \in doctors
        /\ jobs' = [j \in JobIds |-> IF j \in drained THEN Leased(swept[j], e)
                                                      ELSE swept[j]]
        /\ Hand(e, drained)
        /\ Sweep(jobs)
        /\ UNCHANGED <<tod, active, doctors>>

DisconnectDoctor(e) ==
    /\ doctors' = doctors \ {e}
    /\ UNCHANGED <<jobs, tod, active, work, redo>>

\* An executor loses a job: a push dies with its socket, an engine crashes or
\* gives up, the worker's run cannot be created.
LoseWork(x, j) ==
    /\ j \in work[x]
    /\ work' = Reported(x, j)
    /\ UNCHANGED <<jobs, tod, active, doctors, redo>>

\* The control plane stops and starts: sessions and the hosted worker's job are
\* gone, the table stays.  It may stop inside complete_job, between the UPDATE
\* and the INSERT of the follow-up.
Restart ==
    /\ \/ UNCHANGED jobs
       \/ \E x \in Executors : \E j \in work[x] :
          /\ Reportable(x, j)
          /\ HasFollowUp(j, TRUE)
          /\ HandoffAllowed(x, jobs[j].next)
          /\ jobs' = Closed(j, TRUE)
    /\ doctors' = {}
    /\ work' = [x \in Executors |-> IF x \in Agents THEN {} ELSE work[x]]
    /\ UNCHANGED <<tod, active, redo>>

Tick ==
    /\ tod' = (tod + 1) % DAY
    /\ jobs' = [j \in JobIds |-> Aged(jobs[j])]
    /\ UNCHANGED <<active, doctors, work, redo>>

Next ==
    \/ \E b \in Bodies : CreateJob(b)
    \/ \E e \in Engines, b \in Bodies : CreateFromEngine(e, b)
    \/ \E e \in Engines : LeaseJob(e)
    \/ \E e \in Engines, j \in JobIds : AckJob(e, j)
    \/ \E e \in Engines, j \in JobIds : CompleteJob(e, j)
    \/ \E j \in JobIds : CancelJob(j)
    \/ \E capped \in BOOLEAN : ClaimHosted(capped)
    \/ \E a \in Agents : ReportHosted(a)
    \/ \E a \in Agents : SetAgentStatus(a)
    \/ \E e \in Engines : ConnectDoctor(e)
    \/ \E e \in Engines : HelloDoctor(e)
    \/ \E e \in Engines : DisconnectDoctor(e)
    \/ \E x \in Executors, j \in JobIds : LoseWork(x, j)
    \/ Restart
    \/ Tick

Spec == Init /\ [][Next]_vars

-----------------------------------------------------------------------------
(* Properties.                                                             *)

TypeOK ==
    /\ jobs \in Table
    /\ tod \in 0..(DAY - 1)
    /\ active \subseteq Agents
    /\ doctors \subseteq Engines
    /\ work \in [Executors -> SUBSET JobIds]
    /\ redo \subseteq JobIds

\* A job is in somebody's hands exactly while it is leased or running, and a
\* queued job has no holder left over from an earlier lease: complete_job and
\* ack_job trust an empty lease_engine_id.
LeaseMatchesStatus ==
    \A j \in JobIds :
        /\ jobs[j].status \in {"absent", "queued"} => jobs[j].lease = None
        /\ jobs[j].status \in {"leased", "running"} => jobs[j].lease # None

\* The holder of a job is one its target columns name, on every path that
\* leases: polling, the offer at creation, the offer of a follow-up, the drain
\* at hello, the hosted claim, and the ack that rewrites lease_engine_id.
HolderIsTarget ==
    \A j \in JobIds :
        LET x == jobs[j].lease
        IN  x # None => \/ x \in Engines /\ Matches(x, jobs[j])
                        \/ x \in Agents /\ x = jobs[j].to.agent

\* Only the passage of a deadline makes a job run twice: a job that
\* _requeue_stale never took back has been handed to one executor at most,
\* whatever is polled, pushed, drained, lost, cancelled or restarted.
HandedOutOnce ==
    \A j \in JobIds \ redo : \A x, y \in Executors :
        j \in work[x] \cap work[y] => x = y

\* on_success_handoff fires once: repeated, late and lost reports, requeues and
\* restarts leave at most one follow-up per job, only below a completed job,
\* and never a follow-up of a follow-up.
FollowUpOnce ==
    \A k \in JobIds :
        LET p == jobs[k].parent
        IN  p # 0 => /\ p < k
                     /\ jobs[p].status = "completed"
                     /\ jobs[p].parent = 0
                     /\ jobs[k].to = jobs[p].next
                     /\ \A i \in JobIds : jobs[i].parent = p => i = k

\* A job that has ended stays as it ended: a late ack, report, cancel, requeue
\* or lease does not revive it or change its outcome.
TerminalIsFinal ==
    [][\A j \in JobIds :
         jobs[j].status \in Terminal => jobs'[j].status = jobs[j].status]_vars

\* No live job changes hands under its holder: a lease, an ack, an offer or a
\* drain gives a held job to somebody else only if _requeue_stale found the
\* holder too late.
HolderKeepsJob ==
    [][\A j \in JobIds :
         /\ jobs[j].lease # None
         /\ jobs'[j].lease \notin {None, jobs[j].lease}
         => Stale(jobs[j], tod)]_vars

\* The queue implements the ledger: queued, leased and running are "open".
Phase(row) == IF row.status \in Live THEN "open" ELSE row.status

Ledger == INSTANCE JobLedger
    WITH book  <- [j \in JobIds |-> Phase(jobs[j])],
         after <- [j \in JobIds |-> jobs[j].parent]

ImplementsLedger == Ledger!LedgerSpec

\* The hosted worker's loop and the clock run for as long as the process does;
\* engines and Doctors promise nothing.
Fairness ==
    /\ WF_vars(Tick)
    /\ WF_vars(\E capped \in BOOLEAN : ClaimHosted(capped))
    /\ \A a \in Agents : WF_vars(ReportHosted(a))

FairSpec == Spec /\ Fairness

\* A job leased by an engine that is never heard of again does not stay leased:
\* the hosted worker's polls sweep every engine's leases, so the queue takes the
\* job back even if no engine ever polls again.
LeaseEnds ==
    \A j \in JobIds :
        jobs[j].status = "leased" ~> jobs[j].status # "leased" \/ j \in redo

\* The operations guide: a running job goes back to the queue after one hour
\* (docs/zh-CN/AGENT_DISPATCH.md:131, _RUNNING_STALE_SECONDS).
RunningRequeuedAfterTimeout ==
    [][\A j \in JobIds :
         jobs[j].status = "running" /\ jobs'[j].status \in {"queued", "leased"}
         => jobs[j].age >= RUNNING_STALE_SECONDS]_vars
=============================================================================
