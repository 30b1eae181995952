------------------------------ MODULE TaskPool ------------------------------
(***************************************************************************)
(* The task pool (infra/task_pool.py, routers/task_pool.py): tasks are     *)
(* submitted, pre-reviewed by the agent they are for, approved by an       *)
(* administrator and executed.  Hermes workers share the id 'sysadmin' and *)
(* may execute one task between them; a claim is one SQLite transaction,   *)
(* which also takes back what was claimed too long ago.                    *)
(*                                                                         *)
(* hand is what a worker believes it has: the pool checks neither status   *)
(* nor assignee when a worker writes a plan, completes, fails or releases. *)
(***************************************************************************)
EXTENDS Naturals

CONSTANTS Tasks, Workers,
          Identity,     \* Identity[w]: the claimer id worker w claims with
          Submitters,
          CreateLimit,  \* EVOTOWN_TASK_CREATE_RPM
          Priorities,
          SetByHand,    \* the statuses an administrator sets
          Nobody

VARIABLES
    pool,      \* task_pool: a function on the ids of the rows
    bucket,    \* _CREATE_RATE_BUCKETS: creations in the submitter's window
    hand,      \* hand[w]: pairs <<task, mode>> worker w works on
    reopened,  \* history: tasks given out again by a timeout, a release or by hand
    byHand     \* history: tasks an administrator set in progress

poolVars == <<pool, bucket, hand, reopened, byHand>>

Hermes == "sysadmin"

Statuses == {"pending", "pre_review", "approved", "in_progress", "completed",
             "failed", "rejected"}

(* Time since claimed_at: none, up to 10 minutes, up to 2 hours, more.     *)
Ages == {"none", "fresh", "old", "stale"}

PoolInit ==
    /\ pool = [t \in {} |-> {}]
    /\ bucket = [s \in Submitters |-> 0]
    /\ hand = [w \in Workers |-> {}]
    /\ reopened = {}
    /\ byHand = {}

Rows == DOMAIN pool

-----------------------------------------------------------------------------
(* Submission.                                                             *)

NewTask(target, priority) ==
    [status |-> "pending", target |-> target, priority |-> priority, plan |-> FALSE,
     assignee |-> Nobody, age |-> "none"]

InsertTask(t, target, priority) ==
    /\ t \notin Rows
    /\ pool' = [u \in Rows \cup {t} |->
                   IF u = t THEN NewTask(target, priority) ELSE pool[u]]
    /\ UNCHANGED <<hand, reopened, byHand>>

(* Mutant: the limit is not asked for.                                     *)
CreateUnlimited(t, s, target, priority) ==
    /\ bucket' = [bucket EXCEPT ![s] = @ + 1]
    /\ InsertTask(t, target, priority)

(* POST /tasks, within the submitter's limit of one minute.                *)
CreateTask(t, s, target, priority) ==
    /\ bucket[s] < CreateLimit
    /\ bucket' = [bucket EXCEPT ![s] = @ + 1]
    /\ InsertTask(t, target, priority)

(* The submit_task tool of an agent: no limit, default priority.           *)
SubmitByTool(t, target) == InsertTask(t, target, 0) /\ UNCHANGED bucket

CreateWindowMoves(s) ==
    /\ bucket[s] > 0
    /\ bucket' = [bucket EXCEPT ![s] = @ - 1]
    /\ UNCHANGED <<pool, hand, reopened, byHand>>

-----------------------------------------------------------------------------
(* claim_task.                                                             *)

StaleReservations ==
    {t \in Rows : /\ pool[t].status = "pending"
                  /\ pool[t].assignee # Nobody
                  /\ ~pool[t].plan
                  /\ pool[t].age \in {"old", "stale"}}

StaleExecutions == {t \in Rows : pool[t].status = "in_progress" /\ pool[t].age = "stale"}

Freed(row, status) == [row EXCEPT !.status = status, !.assignee = Nobody, !.age = "none"]

(* The transaction's first statement takes back what is overdue.           *)
ReleasedPool(mode) ==
    IF mode = "pre_review"
    THEN [t \in Rows |-> IF t \in StaleReservations THEN Freed(pool[t], "pending")
                         ELSE pool[t]]
    ELSE [t \in Rows |-> IF t \in StaleExecutions THEN Freed(pool[t], "approved")
                         ELSE pool[t]]

(* Mutant: a reserved task can be reserved again.                          *)
ReservedIgnored(rows, id, mode) ==
    {t \in DOMAIN rows :
        /\ rows[t].status = IF mode = "pre_review" THEN "pending" ELSE "approved"
        /\ rows[t].target = id}

(* Rows a claimer may take.  Without an id of a task there is none.        *)
Claimable(rows, id, mode) ==
    {t \in DOMAIN rows :
        /\ rows[t].status = IF mode = "pre_review" THEN "pending" ELSE "approved"
        /\ rows[t].target = id
        /\ mode = "pre_review" => rows[t].assignee = Nobody}

(* The mutex of Hermes, for execution only.                                *)
HermesBusy(rows, id, mode) ==
    /\ id = Hermes
    /\ mode = "execute"
    /\ \E t \in DOMAIN rows : rows[t].status = "in_progress" /\ rows[t].assignee = Hermes

(* ORDER BY priority, created_at: the seconds of created_at leave ties.    *)
First(rows, set) == {t \in set : \A u \in set : rows[t].priority <= rows[u].priority}

(* Mutant: a claim for execution leaves the status as it is.               *)
ClaimedAsIs(row, id, mode) == [row EXCEPT !.assignee = id, !.age = "fresh"]

Claimed(row, id, mode) ==
    [row EXCEPT !.status = IF mode = "pre_review" THEN @ ELSE "in_progress",
                !.assignee = id, !.age = "fresh"]

Claim(w, mode) ==
    LET id == Identity[w]
        rows == ReleasedPool(mode)
        next == IF HermesBusy(rows, id, mode) THEN {} ELSE First(rows, Claimable(rows, id, mode))
    IN  /\ \/ /\ next = {}
              /\ pool' = rows
              /\ UNCHANGED hand
           \/ \E t \in next :
                 /\ pool' = [rows EXCEPT ![t] = Claimed(@, id, mode)]
                 /\ hand' = [hand EXCEPT ![w] = @ \cup {<<t, mode>>}]
        /\ reopened' = reopened \cup {t \in Rows : rows[t] # pool[t]}
        /\ byHand' = byHand \cap {t \in Rows : pool'[t].status = "in_progress"}
        /\ UNCHANGED bucket

-----------------------------------------------------------------------------
(* What workers and administrators write, whatever the row's state.        *)

SetStatus(t, status, plan) ==
    /\ pool' = [pool EXCEPT ![t].status = status, ![t].plan = @ \/ plan]
    /\ UNCHANGED bucket

DropFromHand(w, t, mode) == hand' = [hand EXCEPT ![w] = @ \ {<<t, mode>>}]

WritePlan(w, t) ==
    /\ <<t, "pre_review">> \in hand[w]
    /\ SetStatus(t, "pre_review", TRUE)
    /\ DropFromHand(w, t, "pre_review")
    /\ byHand' = byHand \ {t}
    /\ UNCHANGED reopened

EndTask(w, t, status) ==
    /\ <<t, "execute">> \in hand[w]
    /\ SetStatus(t, status, FALSE)
    /\ DropFromHand(w, t, "execute")
    /\ byHand' = byHand \ {t}
    /\ UNCHANGED reopened

(* The assignee stays on the row that is approved again.                   *)
ReleaseTask(w, t, mode) ==
    /\ <<t, mode>> \in hand[w]
    /\ SetStatus(t, "approved", FALSE)
    /\ DropFromHand(w, t, mode)
    /\ reopened' = reopened \cup {t}
    /\ byHand' = byHand \ {t}

(* PATCH /tasks/{id}: status, target and priority, whatever they were.     *)
UpdateTask(t, status, target, priority) ==
    /\ t \in Rows
    /\ pool' = [pool EXCEPT ![t].status = status, ![t].target = target,
                            ![t].priority = priority]
    /\ reopened' = IF pool[t].status = "pre_review" /\ status \in {"approved", "rejected"}
                   THEN reopened ELSE reopened \cup {t}
    /\ byHand' = IF status = "in_progress" THEN byHand \cup {t} ELSE byHand \ {t}
    /\ UNCHANGED <<bucket, hand>>

TimePasses(t) ==
    /\ t \in Rows
    /\ pool[t].age \in {"fresh", "old"}
    /\ pool' = [pool EXCEPT ![t].age = IF @ = "fresh" THEN "old" ELSE "stale"]
    /\ UNCHANGED <<bucket, hand, reopened, byHand>>

(* A worker's process dies, and what it had in hand with it.               *)
WorkerDies(w) ==
    /\ hand[w] # {}
    /\ hand' = [hand EXCEPT ![w] = {}]
    /\ UNCHANGED <<pool, bucket, reopened, byHand>>

Targets == {Identity[w] : w \in Workers}

SubmitterNext(s) ==
    \/ \E t \in Tasks, target \in Targets, priority \in Priorities :
          CreateTask(t, s, target, priority)
    \/ CreateWindowMoves(s)

WorkerNext(w) ==
    \/ \E mode \in {"pre_review", "execute"} : Claim(w, mode)
    \/ WorkerDies(w)
    \/ \E t \in Tasks :
        \/ WritePlan(w, t)
        \/ \E status \in {"completed", "failed"} : EndTask(w, t, status)
        \/ \E mode \in {"pre_review", "execute"} : ReleaseTask(w, t, mode)

(* What befalls a task otherwise.                                          *)
TaskNext(t) == TimePasses(t) \/ \E target \in Targets : SubmitByTool(t, target)

ByHandNext(t) ==
    \E status \in SetByHand, target \in Targets, priority \in Priorities :
        UpdateTask(t, status, target, priority)

PoolNext ==
    \/ \E s \in Submitters : SubmitterNext(s)
    \/ \E w \in Workers : WorkerNext(w)
    \/ \E t \in Tasks : TaskNext(t) \/ ByHandNext(t)

PoolSpec == PoolInit /\ [][PoolNext]_poolVars

-----------------------------------------------------------------------------
PoolTypeOK ==
    /\ Rows \subseteq Tasks
    /\ \A t \in Rows :
          pool[t] \in [status : Statuses, target : Targets, priority : Priorities \cup {0},
                       plan : BOOLEAN, assignee : Targets \cup {Nobody}, age : Ages]
    /\ bucket \in [Submitters -> 0 .. CreateLimit]
    /\ hand \in [Workers -> SUBSET (Tasks \X {"pre_review", "execute"})]
    /\ reopened \subseteq Tasks /\ byHand \subseteq Tasks

(* Hermes workers have one task in progress between them, whatever they    *)
(* claim and release at the same time and whatever is taken back, unless   *)
(* an administrator sets one in progress (task_pool.py:330-336).           *)
HermesAlone ==
    \A t, u \in Rows \ byHand :
        (\A v \in {t, u} : pool[v].status = "in_progress" /\ pool[v].assignee = Hermes) => t = u

(* Two workers have one task in hand for the same purpose only after it    *)
(* was given out again: by a timeout, a release or by hand                 *)
(* (task_pool.py:302-384).                                                 *)
ClaimedOnce ==
    \A t \in Tasks \ reopened, mode \in {"pre_review", "execute"}, v, w \in Workers :
        <<t, mode>> \in hand[v] \cap hand[w] => v = w

ClaimsExclude == ClaimedOnce /\ HermesAlone
=============================================================================
