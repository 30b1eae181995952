------------------------------ MODULE HostedRuns ------------------------------
(***************************************************************************)
(* Hosted agent runs: the table claude_agent_runs, the coroutines that     *)
(* execute runs, the task board whose queued cards start further runs, the *)
(* hosted worker's runs for dispatch jobs, cancels, the stale-run watchdog *)
(* and the recovery at startup (infra/claude_agent_runs.py, task_nodes.py, *)
(* services/claude_code_runner.py, hosted_dispatch_worker.py, routers      *)
(* coding_agent.py and task_board.py, main.py).                            *)
(*                                                                         *)
(* What a run computes is left out: it ends with success or failure.  A    *)
(* card is a row of task_nodes with source_type hosted_run; its source_id  *)
(* is its run's id if it has one and its own id otherwise.  Cards of       *)
(* dispatch jobs start nothing and are left out.                           *)
(***************************************************************************)
EXTENDS Integers, FiniteSets, FiniteSetsExt

CONSTANTS
    Console,      \* requests made to the agents' API
    Dispatched,   \* dispatch jobs for hosted agents
    Owner,        \* the account a request counts for
    Nobody,       \* account_id '', and the request of a row that is not there yet
    MaxActive,    \* EVOTOWN_CLAUDE_MAX_ACTIVE_RUNS_PER_ACCOUNT
    MaxRuns,      \* bound: rows of claude_agent_runs
    MaxCards,     \* bound: rows of task_nodes
    MaxRestarts   \* bound

Requests == Console \cup Dispatched
Accounts == {Owner[q] : q \in Requests} \cup {Nobody}
RunIds == 1..MaxRuns
CardIds == 1..MaxCards

ASSUME HostedNames ==
    /\ Console \cap Dispatched = {}
    /\ DOMAIN Owner = Requests

ASSUME HostedBounds ==
    /\ MaxActive \in Nat \ {0}
    /\ MaxRuns \in Nat
    /\ MaxCards \in Nat
    /\ MaxRestarts \in Nat

VARIABLES
    runs,         \* claude_agent_runs
    coro,         \* coro[r]: the coroutine that executes run r
    cancels,      \* runs a cancel_run is waiting for
    drops,        \* runs whose session is being deleted
    cards,        \* task_nodes
    worker,       \* the hosted worker's run, or 0
    job,          \* job[q]: the dispatch job
    maintenance,  \* the .maintenance flag
    asked,        \* requests that have been made
    restarts

vars == <<runs, coro, cancels, drops, cards, worker, job, maintenance, asked,
          restarts>>

Active == {"queued", "running"}
Terminal == {"succeeded", "failed", "cancelled"}

NoRun == [status |-> "absent", req |-> Nobody,
          acct |-> Nobody, dispatched |-> FALSE, old |-> FALSE]

NoCard == [status |-> "absent", req |-> Nobody,
           acct |-> Nobody, run |-> 0]

Init ==
    /\ runs = [r \in RunIds |-> NoRun]
    /\ coro = [r \in RunIds |-> "none"]
    /\ cancels = {}
    /\ drops = {}
    /\ cards = [c \in CardIds |-> NoCard]
    /\ worker = 0
    /\ job = [q \in Dispatched |-> "absent"]
    /\ maintenance = FALSE
    /\ asked = {}
    /\ restarts = 0

-----------------------------------------------------------------------------
(* The tables.                                                             *)

FreeRuns == {r \in RunIds : runs[r].status = "absent"}
FreeCards == {c \in CardIds : cards[c].status = "absent"}

\* Rows are numbered as they are inserted.
NextRun == MaxRuns - Cardinality(FreeRuns) + 1
NextCard == MaxCards - Cardinality(FreeCards) + 1

ActiveOf(a) == {r \in RunIds : runs[r].status \in Active /\ runs[r].acct = a}

\* mutant: queued runs take no place
AtCapOfRunning(a) ==
    Cardinality({r \in ActiveOf(a) : runs[r].status = "running"}) >= MaxActive

AtCap(a) == Cardinality(ActiveOf(a)) >= MaxActive


\* update_run_status, whatever the row's status was: 'running' sets started_at, from
\* which the row's time is then measured.  A deleted row stays away.
Updated(r, status) ==
    [runs EXCEPT ![r] =
        IF @.status = "deleted" THEN @
        ELSE [@ EXCEPT !.status = status, !.old = FALSE]]

NewRun(q, a, dispatched) ==
    [status |-> "queued", req |-> q, acct |-> a, dispatched |-> dispatched,
     old |-> FALSE]

\* _RUN_TASKS: the runs that schedule_run made a task for.
Scheduled(r) == ~runs[r].dispatched /\ coro[r] # "none"

\* task.cancel(): a task that has not started never does.  If the agent has just
\* ended and the task is still to resume, wait_for of Python 3.11 drops the cancel
\* and returns the agent's result ("ending").
AfterCancel(r) ==
    CASE coro[r] = "ending" -> {"ending"}
      [] coro[r] = "body"   -> {"stopping", "ending"}
      [] OTHER              -> {"stopping"}

-----------------------------------------------------------------------------
(* Console requests.                                                       *)

\* create_agent_run, external_trigger_agent: a card during maintenance or at the
\* account's cap, otherwise a run and its task.
CreateRun(q) ==
    LET r == NextRun
        c == NextCard
        wait == maintenance \/ AtCap(Owner[q])
    IN  /\ q \in Console \ asked
        /\ asked' = asked \cup {q}
        /\ \/ /\ wait
              /\ c \in FreeCards
              /\ cards' = [cards EXCEPT ![c] = [status |-> "queued", req |-> q,
                                                acct |-> Owner[q], run |-> 0]]
              /\ UNCHANGED <<runs, coro>>
           \/ /\ ~wait
              /\ r \in FreeRuns
              /\ runs' = [runs EXCEPT ![r] = NewRun(q, Owner[q], FALSE)]
              /\ coro' = [coro EXCEPT ![r] = "created"]
              /\ UNCHANGED cards
        /\ UNCHANGED <<cancels, drops, worker, job, maintenance, restarts>>

\* The task's first step: run_claude_agent up to its first await, or its
\* ValueError when the agent is gone.
StartRun(r) ==
    /\ coro[r] = "created"
    /\ \/ /\ runs' = Updated(r, "running")
          /\ coro' = [coro EXCEPT ![r] = "body"]
       \/ /\ runs' = Updated(r, "failed")
          /\ coro' = [coro EXCEPT ![r] = "none"]
    /\ UNCHANGED <<cancels, drops, cards, worker, job, maintenance, asked, restarts>>

\* The agent ends, fails or runs into wait_for's timeout: the outcome is written
\* over whatever the row says.  The hosted worker then reports its job.
EndRun(r, outcome) ==
    /\ coro[r] \in {"body", "ending"}
    /\ runs' = Updated(r, outcome)
    /\ coro' = [coro EXCEPT ![r] = "none"]
    /\ IF worker = r
       THEN /\ worker' = 0
            /\ job' = [job EXCEPT ![runs[r].req] =
                           IF runs'[r].status = "succeeded" THEN "completed"
                                                            ELSE "failed"]
       ELSE UNCHANGED <<worker, job>>
    /\ UNCHANGED <<cancels, drops, cards, maintenance, asked, restarts>>

\* run_claude_agent raises before or after the agent runs: schedule_run's task would
\* write the failure, the hosted worker fails its job and leaves the row as it is.
RaiseHosted ==
    /\ worker # 0
    /\ coro' = [coro EXCEPT ![worker] = "none"]
    /\ worker' = 0
    /\ job' = [job EXCEPT ![runs[worker].req] = "failed"]
    /\ UNCHANGED <<runs, cancels, drops, cards, maintenance, asked, restarts>>

-----------------------------------------------------------------------------
(* Cancels.                                                                *)

\* cancel_run up to its await: a task is cancelled and waited for; a run without
\* a task, such as the hosted worker's, is only marked.
CancelRun(r) ==
    /\ runs[r].status \in Active
    /\ IF Scheduled(r)
       THEN /\ \E next \in AfterCancel(r) : coro' = [coro EXCEPT ![r] = next]
            /\ cancels' = cancels \cup {r}
            /\ UNCHANGED runs
       ELSE /\ runs' = Updated(r, "cancelled")
            /\ UNCHANGED <<coro, cancels>>
    /\ UNCHANGED <<drops, cards, worker, job, maintenance, asked, restarts>>

\* mutant: CancelledError does not look at the row
StoppedOverwrites(r) ==
    /\ coro[r] = "stopping"
    /\ coro' = [coro EXCEPT ![r] = "none"]
    /\ runs' = Updated(r, "cancelled")
    /\ UNCHANGED <<cancels, drops, cards, worker, job, maintenance, asked, restarts>>

\* The task takes its CancelledError: a row that ended in between is left alone, as
\* is that of a task that never started or is still describing images.
Stopped(r) ==
    /\ coro[r] = "stopping"
    /\ coro' = [coro EXCEPT ![r] = "none"]
    /\ \/ UNCHANGED runs
       \/ runs[r].status = "running" /\ runs' = Updated(r, "cancelled")
    /\ UNCHANGED <<cancels, drops, cards, worker, job, maintenance, asked, restarts>>

\* cancel_run after its await; delete_workspace_session goes on to delete.
FinishCancel(r) ==
    LET left == IF runs[r].status \in Active THEN Updated(r, "cancelled") ELSE runs
    IN  /\ r \in cancels
        /\ coro[r] = "none"
        /\ runs' = IF r \in drops THEN [left EXCEPT ![r].status = "deleted"] ELSE left
        /\ cancels' = cancels \ {r}
        /\ drops' = drops \ {r}
        /\ UNCHANGED <<coro, cards, worker, job, maintenance, asked, restarts>>

\* delete_workspace_session, for a session of one run.
DeleteSession(r) ==
    /\ runs[r].status \in Active \cup Terminal
    /\ IF runs[r].status \in Active /\ Scheduled(r)
       THEN /\ \E next \in AfterCancel(r) : coro' = [coro EXCEPT ![r] = next]
            /\ cancels' = cancels \cup {r}
            /\ drops' = drops \cup {r}
            /\ UNCHANGED runs
       ELSE /\ runs' = [runs EXCEPT ![r].status = "deleted"]
            /\ UNCHANGED <<coro, cancels, drops>>
    /\ UNCHANGED <<cards, worker, job, maintenance, asked, restarts>>

\* EVOTOWN_CLAUDE_RUN_TIMEOUT_SEC passes since the run started or was created.
RunTooLong(r) ==
    /\ runs[r].status \in Active
    /\ ~runs[r].old
    /\ runs' = [runs EXCEPT ![r].old = TRUE]
    /\ UNCHANGED <<coro, cancels, drops, cards, worker, job, maintenance, asked,
                   restarts>>

\* mutant: only runs with a task are looked at
WatchdogTasks(r) ==
    /\ runs[r].status \in Active
    /\ runs[r].old
    /\ Scheduled(r)
    /\ \E next \in AfterCancel(r) : coro' = [coro EXCEPT ![r] = next]
    /\ runs' = Updated(r, "failed")
    /\ UNCHANGED <<cancels, drops, cards, worker, job, maintenance, asked, restarts>>

\* mutant: the task is not cancelled
WatchdogMarks(r) ==
    /\ runs[r].status \in Active
    /\ runs[r].old
    /\ runs' = Updated(r, "failed")
    /\ UNCHANGED <<coro, cancels, drops, cards, worker, job, maintenance, asked,
                   restarts>>

\* stale_run_watchdog_loop: cancel without waiting, and mark the run failed.
Watchdog(r) ==
    /\ runs[r].status \in Active
    /\ runs[r].old
    /\ IF Scheduled(r)
       THEN \E next \in AfterCancel(r) : coro' = [coro EXCEPT ![r] = next]
       ELSE UNCHANGED coro
    /\ runs' = Updated(r, "failed")
    /\ UNCHANGED <<cancels, drops, cards, worker, job, maintenance, asked, restarts>>

-----------------------------------------------------------------------------
(* The task board.                                                         *)

Waiting == {c \in CardIds : cards[c].status = "queued"}

\* What one pass over the waiting cards starts: each account's, up to its cap.
\* Which come first is left open: a refreshed card carries its run's created_at.
Drained ==
    {taken \in SUBSET Waiting :
        \A a \in Accounts :
            LET waiting == {c \in Waiting : cards[c].acct = a}
            IN  Cardinality(taken \cap waiting) =
                    Min({Cardinality(waiting),
                         Max({0, MaxActive - Cardinality(ActiveOf(a))})})}

\* mutant: like try_drain_one, the loop does nothing in maintenance
DrainNotInMaintenance ==
    /\ ~maintenance
    /\ \E taken \in Drained :
        LET RunOf(c) == NextRun + Cardinality({d \in taken : d < c})
            new == {RunOf(c) : c \in taken}
            CardOf(r) == CHOOSE c \in taken : RunOf(c) = r
        IN  /\ taken # {}
            /\ new \subseteq FreeRuns
            /\ runs' = [r \in RunIds |->
                          IF r \in new
                          THEN NewRun(cards[CardOf(r)].req, cards[CardOf(r)].acct, FALSE)
                          ELSE runs[r]]
            /\ coro' = [r \in RunIds |-> IF r \in new THEN "created" ELSE coro[r]]
            /\ cards' = [c \in CardIds |->
                           IF c \in taken
                           THEN [cards[c] EXCEPT !.status = "running", !.run = RunOf(c)]
                           ELSE cards[c]]
    /\ UNCHANGED <<cancels, drops, worker, job, maintenance, asked, restarts>>

\* drain_queued_hosted_runs, called by its loop, by startup and, unless in
\* maintenance, after every run: create_run, mark_node_running, schedule_run.
Drain ==
    /\ \E taken \in Drained :
        LET RunOf(c) == NextRun + Cardinality({d \in taken : d < c})
            new == {RunOf(c) : c \in taken}
            CardOf(r) == CHOOSE c \in taken : RunOf(c) = r
        IN  /\ taken # {}
            /\ new \subseteq FreeRuns
            /\ runs' = [r \in RunIds |->
                          IF r \in new
                          THEN NewRun(cards[CardOf(r)].req, cards[CardOf(r)].acct, FALSE)
                          ELSE runs[r]]
            /\ coro' = [r \in RunIds |-> IF r \in new THEN "created" ELSE coro[r]]
            /\ cards' = [c \in CardIds |->
                           IF c \in taken
                           THEN [cards[c] EXCEPT !.status = "running", !.run = RunOf(c)]
                           ELSE cards[c]]
    /\ UNCHANGED <<cancels, drops, worker, job, maintenance, asked, restarts>>

\* mutant: the columns are the statuses of runs
BoardStatusUnmapped(status) == status

BoardStatus(status) ==
    CASE status \in Active -> status
      [] status = "succeeded" -> "done"
      [] OTHER -> "failed"

\* mutant: a card is looked up by its own id only
CardOfRunNever(r) == {}

CardOfRun(r) == {c \in CardIds : cards[c].run = r}

Shown == {r \in RunIds : runs[r].status \in Active \cup Terminal /\ ~runs[r].dispatched}

\* GET /task-board: sync_recent updates the card of every run and makes one, with
\* an empty payload, for every run that has none, whatever its status.
RefreshBoard ==
    LET bare == {r \in Shown : CardOfRun(r) = {}}
        NewCard(r) == NextCard + Cardinality({i \in bare : i < r})
        new == {NewCard(r) : r \in bare}
        RunOfCard(c) == CHOOSE r \in bare : NewCard(r) = c
    IN  /\ new \subseteq FreeCards
        /\ cards' = [c \in CardIds |->
                       IF c \in new
                       THEN [status |-> BoardStatus(runs[RunOfCard(c)].status),
                             req |-> runs[RunOfCard(c)].req, acct |-> Nobody,
                             run |-> RunOfCard(c)]
                       ELSE IF cards[c].run \in Shown
                       THEN [cards[c] EXCEPT !.status = BoardStatus(runs[cards[c].run].status)]
                       ELSE cards[c]]
        /\ UNCHANGED <<runs, coro, cancels, drops, worker, job, maintenance, asked,
                       restarts>>

\* The deployment script sets the flag before it restarts the control plane.
StartMaintenance ==
    /\ ~maintenance
    /\ maintenance' = TRUE
    /\ UNCHANGED <<runs, coro, cancels, drops, cards, worker, job, asked, restarts>>

-----------------------------------------------------------------------------
(* Dispatch jobs, as the hosted worker sees them; DispatchQueue has the     *)
(* rest of their life.                                                     *)

SubmitJob(q) ==
    /\ job[q] = "absent"
    /\ job' = [job EXCEPT ![q] = "queued"]
    /\ UNCHANGED <<runs, coro, cancels, drops, cards, worker, maintenance, asked,
                   restarts>>

\* process_next_hosted_job up to its await: claim, ack, the cap of the agent's
\* owner, create_run and the head of run_claude_agent, all in one step.
ClaimJob(q) ==
    LET r == NextRun
    IN  /\ worker = 0
        /\ job[q] = "queued"
        /\ \/ /\ AtCap(Owner[q])
              /\ job' = [job EXCEPT ![q] = "failed"]
              /\ UNCHANGED <<runs, coro, worker>>
           \/ /\ ~AtCap(Owner[q])
              /\ r \in FreeRuns
              /\ job' = [job EXCEPT ![q] = "running"]
              /\ runs' = [runs EXCEPT ![r] =
                            [NewRun(q, Owner[q], TRUE) EXCEPT !.status = "running"]]
              /\ coro' = [coro EXCEPT ![r] = "body"]
              /\ worker' = r
        /\ UNCHANGED <<cancels, drops, cards, maintenance, asked, restarts>>

\* _requeue_stale takes back a running job, whether its worker lives or not.
RequeueJob(q) ==
    /\ job[q] = "running"
    /\ job' = [job EXCEPT ![q] = "queued"]
    /\ UNCHANGED <<runs, coro, cancels, drops, cards, worker, maintenance, asked,
                   restarts>>

-----------------------------------------------------------------------------
\* The process stops and starts: coroutines are gone, and before anything else
\* recover_zombie_running_runs requeues the cards whose run was running and makes
\* a card, without its payload, for each running run that has none.
Restart ==
    LET zombies == {r \in RunIds : runs[r].status = "running"}
        carded == {c \in CardIds : cards[c].status = "running" /\ cards[c].run \in zombies}
        bare == {r \in zombies : CardOfRun(r) = {}}
        NewCard(r) == NextCard + Cardinality({i \in bare : i < r})
        new == {NewCard(r) : r \in bare}
        RunOfCard(c) == CHOOSE r \in bare : NewCard(r) = c
    IN  /\ restarts < MaxRestarts
        /\ new \subseteq FreeCards
        /\ runs' = [r \in RunIds |->
                      IF r \in bare \cup {cards[c].run : c \in carded}
                      THEN Updated(r, "failed")[r] ELSE runs[r]]
        /\ cards' = [c \in CardIds |->
                       IF c \in new
                       THEN [status |-> "queued", req |-> runs[RunOfCard(c)].req,
                             acct |-> Nobody, run |-> 0]
                       ELSE IF c \in carded
                       THEN [cards[c] EXCEPT !.status = "queued", !.run = 0]
                       ELSE cards[c]]
        /\ coro' = [r \in RunIds |-> "none"]
        /\ cancels' = {}
        /\ drops' = {}
        /\ worker' = 0
        /\ maintenance' = FALSE
        /\ restarts' = restarts + 1
        /\ UNCHANGED <<job, asked>>

Next ==
    \/ \E q \in Console : CreateRun(q)
    \/ \E r \in RunIds : StartRun(r)
    \/ \E r \in RunIds, outcome \in {"succeeded", "failed"} : EndRun(r, outcome)
    \/ RaiseHosted
    \/ \E r \in RunIds : CancelRun(r)
    \/ \E r \in RunIds : Stopped(r)
    \/ \E r \in RunIds : FinishCancel(r)
    \/ \E r \in RunIds : DeleteSession(r)
    \/ \E r \in RunIds : RunTooLong(r)
    \/ \E r \in RunIds : Watchdog(r)
    \/ Drain
    \/ RefreshBoard
    \/ StartMaintenance
    \/ \E q \in Dispatched : SubmitJob(q)
    \/ \E q \in Dispatched : ClaimJob(q)
    \/ \E q \in Dispatched : RequeueJob(q)
    \/ Restart

Spec == Init /\ [][Next]_vars

\* The event loop runs every task that is ready; wait_for ends every agent; the
\* watchdog and the drain loop come round for ever.  Nothing else is promised.
Fairness ==
    /\ \A r \in RunIds :
        /\ WF_vars(StartRun(r))
        /\ WF_vars(\E outcome \in {"succeeded", "failed"} : EndRun(r, outcome))
        /\ WF_vars(Stopped(r))
        /\ WF_vars(FinishCancel(r))
        /\ WF_vars(RunTooLong(r))
        /\ WF_vars(Watchdog(r))
    /\ WF_vars(Drain)

FairSpec == Spec /\ Fairness

-----------------------------------------------------------------------------
RunStatus == {"absent", "deleted"} \cup Active \cup Terminal
CardStatus == {"absent", "queued", "running", "done", "failed"}
TaskState == {"none", "created", "body", "ending", "stopping"}
JobStatus == {"absent", "queued", "running", "completed", "failed"}

Run == [status : RunStatus, req : Requests \cup {Nobody}, acct : Accounts,
        dispatched : BOOLEAN, old : BOOLEAN]
Card == [status : CardStatus, req : Requests \cup {Nobody}, acct : Accounts,
         run : RunIds \cup {0}]

\* The tables are well typed, and only running coroutines have rows to write to.
TypeOK ==
    /\ runs \in [RunIds -> Run]
    /\ coro \in [RunIds -> TaskState]
    /\ \A r \in RunIds : runs[r].status = "absent" => coro[r] = "none"
    /\ cancels \subseteq RunIds
    /\ drops \subseteq cancels
    /\ cards \in [CardIds -> Card]
    /\ worker \in RunIds \cup {0}
    /\ job \in [Dispatched -> JobStatus]
    /\ maintenance \in BOOLEAN
    /\ asked \subseteq Console
    /\ restarts \in 0..MaxRestarts

\* However runs are started (a request, the drain, the hosted worker), cancelled
\* and timed out, no account has more active rows than its cap.
ActiveWithinCap == \A a \in Accounts : Cardinality(ActiveOf(a)) <= MaxActive

\* A scheduled run that executes is 'running' in its table, so that cancels, the
\* watchdog and the cap see it.
BodyIsRunning ==
    \A r \in RunIds :
        coro[r] = "body" /\ ~runs[r].dispatched => runs[r].status = "running"

\* No two cards stand for one run: the UNIQUE(source_type, source_id) index never
\* fails a refresh or a drain half way.
CardPerRun ==
    \A c, d \in CardIds : cards[c].run = cards[d].run /\ cards[c].run # 0 => c = d

\* The outcome of a scheduled run stands until the row is deleted; but a run that
\* the watchdog fails when its agent has just ended takes the agent's outcome.
OutcomeStands ==
    [][\A r \in RunIds :
          runs[r].status \in Terminal /\ ~runs[r].dispatched
              => \/ runs'[r].status \in {runs[r].status, "deleted"}
                 \/ runs[r].status = "failed" /\ coro[r] = "ending"]_vars

\* Every active row ends, so that it gives back its place under the cap: also one
\* whose coroutine a crash or an exception took away.
PlacesAreFreed ==
    \A r \in RunIds : (runs[r].status \in Active) ~> (runs[r].status \notin Active)

\* Every waiting card is started, if there are rows left in the model for it.
CardsAreStarted ==
    \A c \in CardIds :
        (cards[c].status = "queued")
            ~> (cards[c].status # "queued" \/ Cardinality(FreeRuns) < MaxCards)

\* A cancelled run stays cancelled (test_cancel_run_marks_cancelled).
CancelledStays ==
    [][\A r \in RunIds :
          runs[r].status = "cancelled" => runs'[r].status \in {"cancelled", "deleted"}]_vars

\* A request succeeds once: only what was interrupted is ever repeated.
SucceedsOnce ==
    \A q \in Requests :
        Cardinality({r \in RunIds : runs[r].status = "succeeded" /\ runs[r].req = q}) <= 1
=============================================================================
