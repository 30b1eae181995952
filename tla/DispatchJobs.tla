---------------------------- MODULE DispatchJobs ----------------------------
(***************************************************************************)
(* The dispatch_jobs table (backend/infra/agent_dispatch.py) as a value,   *)
(* and what each SQL statement on it does.  The table is a function from   *)
(* job numbers, in order of insertion, to rows; the modules that hold it   *)
(* in a variable build their actions from these operators.                 *)
(*                                                                         *)
(* Columns that only the reader of a job looks at (kind, title, message,   *)
(* summaries, exit code, completed_at) are left out.  updated_at is kept   *)
(* as `age', the seconds since the row was last written, because every     *)
(* test of it compares it with the current time; lease_expires_at is       *)
(* updated_at + LEASE_SECONDS in every leased row, so age serves for both. *)
(* age stays 0 in the rows whose age no statement reads.                   *)
(***************************************************************************)
EXTENDS Integers

CONSTANTS
    Engines,                \* registered engines (owner-side connectors)
    Agents,                 \* agents hosted by the control plane
    Teams,
    None,                   \* the empty string of a text column
    OwnerTeam,              \* [Engines -> Teams \cup {None}]
    TeamPairs,              \* <<source team, target team>> the policy lists
    MaxJobs,                \* bound: rows the table can hold
    LEASE_SECONDS,          \* _LEASE_SECONDS
    RUNNING_STALE_SECONDS,  \* _RUNNING_STALE_SECONDS
    DAY                     \* seconds of a UTC day

Executors == Engines \cup Agents

ASSUME DispatchNames ==
    /\ None \notin Executors \cup Teams
    /\ Engines \cap Agents = {}
    /\ OwnerTeam \in [Engines -> Teams \cup {None}]

ASSUME DispatchTimes ==
    /\ MaxJobs \in Nat
    /\ LEASE_SECONDS \in Nat
    /\ RUNNING_STALE_SECONDS \in Nat
    /\ DAY \in Nat
    /\ RUNNING_STALE_SECONDS < DAY

JobIds == 1..MaxJobs

Live == {"queued", "leased", "running"}
Terminal == {"completed", "failed", "cancelled"}

Target == [engine : Engines \cup {None},
           team   : Teams \cup {None},
           agent  : Agents \cup {None}]

Nobody == [engine |-> None, team |-> None, agent |-> None]

AgeCap == IF LEASE_SECONDS < RUNNING_STALE_SECONDS
          THEN RUNNING_STALE_SECONDS
          ELSE LEASE_SECONDS + 1

Job == [status : {"absent"} \cup Live \cup Terminal,
        to     : Target,                 \* target_{engine,team,agent}_id
        next   : Target,                 \* payload.on_success_handoff
        parent : JobIds \cup {0},        \* refs.parent_job_id, 0 for none
        lease  : Executors \cup {None},  \* lease_engine_id
        age    : 0..AgeCap]

NoJob == [status |-> "absent", to |-> Nobody, next |-> Nobody, parent |-> 0,
          lease |-> None, age |-> 0]

Table == [JobIds -> Job]

-----------------------------------------------------------------------------
(* Which engine may have a job, and who may hand one to whom.              *)

Matches(e, row) ==
    \/ row.to.engine = e
    \/ /\ row.to.engine = None
       /\ row.to.team # None
       /\ row.to.team = OwnerTeam[e]

TeamOf(x) == IF x \in Engines THEN OwnerTeam[x] ELSE None

HandoffAllowed(source, to) ==
    LET from == TeamOf(source)
        dest == IF to.team # None THEN to.team ELSE TeamOf(to.engine)
    IN  /\ to.engine # source
        /\ \/ from = None
           \/ dest = None
           \/ <<from, dest>> \in TeamPairs

-----------------------------------------------------------------------------
(* INSERT and the UPDATEs.                                                 *)

\* The row the next INSERT fills: rows are filled in order.
IsNewId(t, k) ==
    /\ k \in JobIds
    /\ t[k].status = "absent"
    /\ \A i \in JobIds : i < k => t[i].status # "absent"

Insert(t, k, to, next, parent) ==
    [t EXCEPT ![k] = [status |-> "queued", to |-> to, next |-> next,
                      parent |-> parent, lease |-> None, age |-> 0]]

Leased(row, x) == [row EXCEPT !.status = "leased", !.lease = x, !.age = 0]

Running(row, x) == [row EXCEPT !.status = "running", !.lease = x, !.age = 0]

\* mutant: the holder of the lost lease is kept
RequeuedKeepsLease(row) == [row EXCEPT !.status = "queued", !.age = 0]

Requeued(row) == [row EXCEPT !.status = "queued", !.lease = None, !.age = 0]

Finished(row, outcome) == [row EXCEPT !.status = outcome, !.age = 0]

-----------------------------------------------------------------------------
(* _requeue_stale, run at the head of every lease.                         *)

\* mutant: the sweep looks at the wrong status
LeaseExpiredRunning(row) == row.status = "running" /\ row.age > LEASE_SECONDS

\* lease_expires_at < now: both in the same format, a strict comparison.
LeaseExpired(row) == row.status = "leased" /\ row.age > LEASE_SECONDS

\* updated_at < now - _RUNNING_STALE_SECONDS is a comparison of strings.
\* updated_at is written by datetime('now'), "YYYY-MM-DD HH:MM:SS"; the bound
\* is "YYYY-MM-DDTHH:MM:SSZ".  A blank is less than a T, so on equal dates the
\* test is true whatever the hours, and only the dates decide.  With less than
\* a day between the two, the dates are equal iff both moments are today (tod
\* seconds old) or both are yesterday.
RunningStale(row, tod) ==
    /\ row.status = "running"
    /\ \/ row.age >= RUNNING_STALE_SECONDS
       \/ (row.age <= tod) <=> (RUNNING_STALE_SECONDS <= tod)

Stale(row, tod) == LeaseExpired(row) \/ RunningStale(row, tod)

RequeueStale(t, tod) ==
    [j \in JobIds |-> IF Stale(t[j], tod) THEN Requeued(t[j]) ELSE t[j]]

-----------------------------------------------------------------------------
(* SELECT ... WHERE status='queued' AND ... ORDER BY created_at.           *)

\* mutant: leased jobs are offered again
QueuedOrLeasedFor(t, e) ==
    {j \in JobIds : t[j].status \in {"queued", "leased"} /\ Matches(e, t[j])}

\* mutant: the targets are not looked at
QueuedForAnyone(t, e) == {j \in JobIds : t[j].status = "queued"}

QueuedFor(t, e) == {j \in JobIds : t[j].status = "queued" /\ Matches(e, t[j])}

QueuedHosted(t) ==
    {j \in JobIds : t[j].status = "queued" /\ t[j].to.agent # None}

IsOldest(j, S) == j \in S /\ \A k \in S : j <= k

\* One second passes for a row.
Aged(row) ==
    IF row.status \in {"leased", "running"} /\ row.age < AgeCap
    THEN [row EXCEPT !.age = @ + 1]
    ELSE row
=============================================================================
