---------------------------- MODULE EngineIngest ----------------------------
(***************************************************************************)
(* External engines (infra/engine_ingest.py, routers/engine_ingest.py):    *)
(* an engine registers, gets a token that is shown once, and reports its   *)
(* runs; its reports are checked against the policies before they are      *)
(* stored.                                                                 *)
(*                                                                         *)
(* A report is sent over HTTP by a connector that may send it again, late, *)
(* or never: a message in net can be delivered at any time and any number  *)
(* of times.  work is what the engine itself does, the runs table what     *)
(* the control plane knows of it.                                          *)
(***************************************************************************)
EXTENDS Policies

CONSTANTS Engines, RunIds,
          RunEngine,    \* RunEngine[r]: the engine that executes run r
          StepKinds,    \* event kinds that do not touch the run's row
          StepContexts, \* the actions a step event may report
          EndTexts,     \* the log texts a run may end with
          MaxTokens     \* bound on the tokens issued

VARIABLES
    tokens,     \* tokens[e]: the token whose hash the engine's row has, 0 for no row
    issued,     \* tokens issued so far
    held,       \* held[e]: the token the engine's machine has stored
    work,       \* work[r]: "idle", "running" or how the engine ended run r
    net,        \* reports sent
    runs,       \* external_runs: the status of run r, "none" for no row
    events,     \* run_events
    violations  \* policy_violations

ingestVars == <<tokens, issued, held, work, net, runs, events, violations, policies>>

machine == <<work, net>>

stored == <<runs, events, violations>>

Terminal == {"succeeded", "failed", "cancelled"}

IngestInit ==
    /\ PolicyInit
    /\ tokens = [e \in Engines |-> 0]
    /\ issued = 0
    /\ held = [e \in Engines |-> 0]
    /\ work = [r \in RunIds |-> "idle"]
    /\ net = {}
    /\ runs = [r \in RunIds |-> "none"]
    /\ events = {}
    /\ violations = {}

-----------------------------------------------------------------------------
(* Tokens.                                                                 *)

Registered(e) == tokens[e] # 0

(* _engine_from_row drops the hash from what get_engine returns.           *)
RowShowsHash(e) == FALSE

NeedsToken(e, rotate) == ~Registered(e) \/ rotate \/ ~RowShowsHash(e)

(* The token is returned once; the caller stores it on the machine or not. *)
IssueToken(e) ==
    /\ issued < MaxTokens
    /\ issued' = issued + 1
    /\ tokens' = [tokens EXCEPT ![e] = issued']
    /\ held' \in {held, [held EXCEPT ![e] = issued']}

Register(e, rotate) ==
    /\ IF NeedsToken(e, rotate) THEN IssueToken(e) ELSE UNCHANGED <<tokens, issued, held>>
    /\ UNCHANGED <<machine, stored, policies>>

RotateToken(e) ==
    /\ Registered(e)
    /\ IssueToken(e)
    /\ UNCHANGED <<machine, stored, policies>>

(* lookup_engine_id_for_ingest_token and the scope check: a report counts  *)
(* when its token is the current one of the engine it names.               *)
Authorised(m) == Registered(m.engine) /\ m.token = tokens[m.engine]

-----------------------------------------------------------------------------
(* The engine and its connector.                                           *)

Report(kind, r, status, ctx) ==
    [kind |-> kind, run |-> r, engine |-> RunEngine[r], token |-> held[RunEngine[r]],
     status |-> status, ctx |-> ctx]

NoDetail == [kind |-> "text", what |-> <<>>, size |-> 0, roots |-> {}]

Send(m) == held[m.engine] # 0 /\ net' = net \cup {m}

StartRun(r) ==
    /\ work[r] = "idle"
    /\ work' = [work EXCEPT ![r] = "running"]
    /\ Send(Report("run.started", r, "running", NoDetail))
    /\ UNCHANGED <<tokens, issued, held, stored, policies>>

(* A progress event, with no status of its own, or a step of the run.      *)
ReportStep(r, kind, ctx) ==
    /\ work[r] = "running"
    /\ Send(Report(kind, r, "unset", ctx))
    /\ UNCHANGED <<tokens, issued, held, work, stored, policies>>

(* The end of a run is reported by an event, with or without its status,   *)
(* or by the complete endpoint.                                            *)
EndRun(r, end, text) ==
    /\ work[r] = "running"
    /\ work' = [work EXCEPT ![r] = end]
    /\ \E kind \in {"run.completed", "complete"} : Send(Report(kind, r, end, text))
    /\ UNCHANGED <<tokens, issued, held, stored, policies>>

-----------------------------------------------------------------------------
(* The control plane.                                                      *)

(* enforce_or_raise: every hit is stored, whatever the verdict.            *)
RecordViolations(m, ctx) ==
    violations' = violations \cup {[run |-> m.run, engine |-> m.engine, action |-> a] :
                                     a \in Hits(ctx)}

(* Mutant: an event without a status of its own ends the run.              *)
EventEnds(m) == IF m.status = "unset" THEN "succeeded" ELSE m.status

EventStatus(m) ==
    IF m.status \in Terminal THEN m.status
    ELSE IF m.kind = "run.completed" THEN "succeeded" ELSE "running"

Logged(m) == [run |-> m.run, kind |-> m.kind, ctx |-> m.ctx, forbidden |-> Forbidden(m.ctx)]

(* The checks a report is subject to: a tool call and an artifact for what *)
(* they name, an end for its log text.                                     *)
Checked(m) == m.kind \notin {"run.started", "run.progress"} /\ m.ctx.what # <<>>

(* POST /events of a kind that carries the run's state: the row is written *)
(* before the policies are asked, and stays written if they refuse.        *)
RunEvent(m) ==
    /\ m.kind \in {"run.started", "run.progress", "run.completed"}
    /\ Authorised(m)
    /\ runs' = [runs EXCEPT ![m.run] = EventStatus(m)]
    /\ IF Checked(m) THEN RecordViolations(m, m.ctx) ELSE UNCHANGED violations
    /\ events' = IF Checked(m) /\ ~Allowed(m.ctx) THEN events ELSE events \cup {Logged(m)}
    /\ UNCHANGED <<tokens, issued, held, machine, policies>>

(* POST /events of any other kind: 422 unless the run has a row.           *)
StepEvent(m) ==
    /\ m.kind \in StepKinds
    /\ Authorised(m)
    /\ runs[m.run] # "none"
    /\ IF Checked(m) THEN RecordViolations(m, m.ctx) ELSE UNCHANGED violations
    /\ events' = IF Checked(m) /\ ~Allowed(m.ctx) THEN events ELSE events \cup {Logged(m)}
    /\ UNCHANGED <<tokens, issued, held, machine, runs, policies>>

(* POST /runs/{id}/complete: a refusal leaves its violations, even for a   *)
(* run that has no row; a run that has ended stays as it is.               *)
Complete(m) ==
    /\ m.kind = "complete"
    /\ Authorised(m)
    /\ IF Checked(m) THEN RecordViolations(m, m.ctx) ELSE UNCHANGED violations
    /\ runs' = IF (Checked(m) /\ ~Allowed(m.ctx)) \/ runs[m.run] \in Terminal
               THEN runs ELSE [runs EXCEPT ![m.run] = m.status]
    /\ UNCHANGED <<tokens, issued, held, machine, events, policies>>

(* POST /policy/evaluate by a connector, before it acts.                   *)
EvaluatePolicy(r, ctx) ==
    /\ work[r] = "running"
    /\ RecordViolations(Report("evaluate", r, "unset", ctx), ctx)
    /\ UNCHANGED <<tokens, issued, held, machine, runs, events, policies>>

(* POST /policy/violations: 422 unless the run has a row.                  *)
ReportViolation(r) ==
    /\ work[r] = "running"
    /\ Authorised(Report("violation", r, "unset", NoDetail))
    /\ runs[r] # "none"
    /\ violations' = violations \cup {[run |-> r, engine |-> RunEngine[r], action |-> "warned"]}
    /\ UNCHANGED <<tokens, issued, held, machine, runs, events, policies>>

AdministerPolicies == ChangePolicies /\ UNCHANGED <<tokens, issued, held, machine, stored>>

IngestNext ==
    \/ \E e \in Engines : (\E rotate \in BOOLEAN : Register(e, rotate)) \/ RotateToken(e)
    \/ \E r \in RunIds :
        \/ StartRun(r)
        \/ ReportStep(r, "run.progress", NoDetail)
        \/ \E kind \in StepKinds, ctx \in StepContexts : ReportStep(r, kind, ctx)
        \/ \E end \in Terminal, text \in EndTexts : EndRun(r, end, text)
        \/ \E ctx \in StepContexts : EvaluatePolicy(r, ctx)
        \/ ReportViolation(r)
    \/ \E m \in net : RunEvent(m) \/ StepEvent(m) \/ Complete(m)
    \/ AdministerPolicies

IngestSpec == IngestInit /\ [][IngestNext]_ingestVars

-----------------------------------------------------------------------------
IngestTypeOK ==
    /\ DOMAIN policies \subseteq PolicyIds
    /\ \A p \in DOMAIN policies : policies[p] \in PolicyRows \cup
            {DefaultPolicies[q] : q \in DOMAIN DefaultPolicies}
    /\ tokens \in [Engines -> 0 .. MaxTokens]
    /\ held \in [Engines -> 0 .. MaxTokens]
    /\ work \in [RunIds -> {"idle", "running"} \cup Terminal]
    /\ runs \in [RunIds -> {"none", "running"} \cup Terminal]

(* The control plane never shows an outcome the engine did not have: no    *)
(* reordering, repetition or default of a report ends a run that is still  *)
(* running or turns one outcome into another (engine_ingest.py:335-400).   *)
OutcomeWasReported == \A r \in RunIds : runs[r] \in Terminal => work[r] = runs[r]

(* Nothing that some policy forbade when it was reported is in the event   *)
(* log, however many policies there are and in whatever order they are     *)
(* read and changed (policy_engine.py:61-75, evaluator.py:41-77).          *)
ForbiddenIsNotLogged == \A ev \in events : Checked(ev) => ~ev.forbidden
=============================================================================
