---------------------------- MODULE RegistryProofs ----------------------------
(***************************************************************************)
(* Proofs about the registries of the control plane, each on its own.      *)
(*                                                                         *)
(* What engines are promised, for any engines, runs, policies, tasks,      *)
(* workers and submitters: no reordering or repetition of reports gives a  *)
(* run an outcome its engine did not have, the severest verdict wins, what *)
(* is forbidden is not logged, Hermes workers execute one task between     *)
(* them, and a task is in the hands of two workers for one purpose only if *)
(* it was given out again.  Then accounts, hosted agents, MCP services,    *)
(* the skills market, the gateway's requests and conversations.            *)
(*                                                                         *)
(* The lemmas about least numbers and induction on numbers, which other    *)
(* modules of proofs use too, are with the policies.                       *)
(***************************************************************************)
EXTENDS EngineIngest, TaskPool, Accounts, HostedAgents, AgentSkills, McpRegistry, SkillMarket, Gateway,
        Conversations, FiniteSetTheorems, SequenceTheorems, TLAPS

-----------------------------------------------------------------------------
(* The ingest.  The invariant is about the reports under way: what ends a   *)
(* run names the outcome the engine has by then, for good, and nothing else *)
(* ends one.                                                               *)

\* A report that ends a run comes from its end.
ReportOK(m) ==
    /\ m.run \in RunIds
    /\ m.kind \in {"run.completed", "complete"} => m.status \in Terminal /\ m.status = work[m.run]
    /\ m.kind \notin {"run.completed", "complete"} => m.status \notin Terminal

ReportsOK == \A m \in net : ReportOK(m)

Tables == work \in [RunIds -> {"idle", "running"} \cup Terminal] /\ DOMAIN runs = RunIds

IInv == Tables /\ ReportsOK /\ OutcomeWasReported

LEMMA IngestStart == IngestInit => IInv
BY DEF IngestInit, IInv, Tables, ReportsOK, OutcomeWasReported, Terminal

\* The engine's side: an outcome once reached stays, and is what its reports say.
LEMMA EngineMoves ==
    ASSUME IInv, NEW r \in RunIds, work[r] \notin Terminal,
           NEW status \in {"running"} \cup Terminal,
           work' = [work EXCEPT ![r] = status], runs' = runs,
           NEW m, net' = net \cup {m}, m.run = r,
           IF m.kind \in {"run.completed", "complete"} THEN m.status = status /\ status \in Terminal
                                                       ELSE m.status \notin Terminal
    PROVE  IInv'
<1>1. \A q \in RunIds : work'[q] = IF q = r THEN status ELSE work[q]
  BY DEF IInv, Tables
<1>2. Tables'
  BY DEF IInv, Tables
<1>3. \A n \in net' : ReportOK(n)'
  <2>1. ASSUME NEW n \in net
        PROVE  ReportOK(n)'
    BY <1>1 DEF IInv, ReportsOK, ReportOK
  <2>2. ReportOK(m)'
    BY <1>1 DEF ReportOK
  <2>3. QED
    BY <2>1, <2>2
<1>4. OutcomeWasReported'
  BY <1>1 DEF IInv, OutcomeWasReported
<1>5. QED
  BY <1>2, <1>3, <1>4 DEF IInv, ReportsOK

\* The control plane's side: a row ends only by a report that says how.
LEMMA RowMoves ==
    ASSUME IInv, work' = work, net' = net, NEW m \in net, NEW status,
           runs' = [runs EXCEPT ![m.run] = status],
           status \in Terminal => m.kind \in {"run.completed", "complete"} /\ status = m.status
    PROVE  IInv'
<1>1. m.run \in RunIds /\ (status \in Terminal => work[m.run] = status)
  BY DEF IInv, ReportsOK, ReportOK
<1>2. /\ DOMAIN runs' = RunIds
      /\ \A q \in RunIds : runs'[q] = IF q = m.run THEN status ELSE runs[q]
  BY <1>1 DEF IInv, Tables
<1>3. QED
  BY <1>1, <1>2 DEF IInv, Tables, ReportsOK, ReportOK, OutcomeWasReported

LEMMA NothingMoves ==
    ASSUME IInv, work' = work, net' = net, runs' = runs
    PROVE  IInv'
BY DEF IInv, Tables, ReportsOK, ReportOK, OutcomeWasReported

LEMMA IngestStep ==
    ASSUME StepKinds \cap {"run.completed", "complete"} = {}, IInv, [IngestNext]_ingestVars
    PROVE  IInv'
<1>1. ASSUME NEW r \in RunIds, StartRun(r)
      PROVE  IInv'
  <2>1. work[r] \notin Terminal
    BY <1>1 DEF StartRun, Terminal
  <2> DEFINE m == Report("run.started", r, "running", NoDetail)
  <2>2. net' = net \cup {m} /\ work' = [work EXCEPT ![r] = "running"] /\ runs' = runs
    BY <1>1 DEF StartRun, Send, stored
  <2>3. m.run = r /\ m.kind \notin {"run.completed", "complete"} /\ m.status \notin Terminal
    BY DEF Report, Terminal
  <2> HIDE DEF m
  <2>4. QED
    BY <2>1, <2>2, <2>3, EngineMoves
<1>2. ASSUME NEW r \in RunIds, NEW kind \in StepKinds \cup {"run.progress"}, NEW ctx,
             ReportStep(r, kind, ctx)
      PROVE  IInv'
  <2>1. work[r] = "running" /\ work' = work /\ runs' = runs
    BY <1>2 DEF ReportStep, stored
  <2>2. work' = [work EXCEPT ![r] = "running"]
    BY <2>1 DEF IInv, Tables
  <2> DEFINE m == Report(kind, r, "unset", ctx)
  <2>3. net' = net \cup {m}
    BY <1>2 DEF ReportStep, Send
  <2>4. m.run = r /\ m.kind \notin {"run.completed", "complete"} /\ m.status \notin Terminal
    BY DEF Report, Terminal
  <2>5. work[r] \notin Terminal
    BY <2>1 DEF Terminal
  <2> HIDE DEF m
  <2>6. QED
    BY <2>1, <2>2, <2>3, <2>4, <2>5, EngineMoves
<1>3. ASSUME NEW r \in RunIds, NEW end \in Terminal, NEW text, EndRun(r, end, text)
      PROVE  IInv'
  <2>1. PICK kind \in {"run.completed", "complete"} : Send(Report(kind, r, end, text))
    BY <1>3 DEF EndRun
  <2> DEFINE m == Report(kind, r, end, text)
  <2>2. /\ net' = net \cup {m} /\ work' = [work EXCEPT ![r] = end] /\ runs' = runs
        /\ work[r] \notin Terminal
    BY <1>3, <2>1 DEF EndRun, Send, stored, Terminal
  <2>3. m.run = r /\ m.kind \in {"run.completed", "complete"} /\ m.status = end
    BY DEF Report
  <2> HIDE DEF m
  <2>4. QED
    BY <2>2, <2>3, EngineMoves
<1>4. ASSUME NEW m \in net, RunEvent(m)
      PROVE  IInv'
  <2>1. EventStatus(m) \in Terminal =>
           m.kind \in {"run.completed", "complete"} /\ EventStatus(m) = m.status
    <3>1. /\ m.kind \in {"run.completed", "complete"} => m.status \in Terminal
          /\ m.kind \notin {"run.completed", "complete"} => m.status \notin Terminal
      BY DEF IInv, ReportsOK, ReportOK
    <3>2. CASE m.status \in Terminal
      BY <3>1, <3>2 DEF EventStatus
    <3>3. CASE m.status \notin Terminal
      BY <3>1, <3>3 DEF EventStatus, Terminal
    <3>4. QED
      BY <3>2, <3>3
  <2>2. QED
    BY <1>4, <2>1, RowMoves DEF RunEvent, machine
<1>5. ASSUME NEW m \in net, Complete(m)
      PROVE  IInv'
  BY <1>5, RowMoves, NothingMoves DEF Complete, machine
<1>6. CASE work' = work /\ net' = net /\ runs' = runs
  BY <1>6, NothingMoves
<1>7. QED
  BY <1>1, <1>2, <1>3, <1>4, <1>5, <1>6
     DEF IngestNext, Register, RotateToken, StepEvent, EvaluatePolicy, ReportViolation, AdministerPolicies,
         machine, stored, ingestVars

\* However late, often or disordered its reports arrive, a run is shown with an
\* outcome only when its engine ended it so (engine_ingest.py:335-400).
THEOREM OutcomesWereReported ==
    ASSUME StepKinds \cap {"run.completed", "complete"} = {}
    PROVE  IngestSpec => []OutcomeWasReported
<1>1. IngestInit => IInv
  BY IngestStart
<1>2. IInv /\ [IngestNext]_ingestVars => IInv'
  BY IngestStep
<1>3. IInv => OutcomeWasReported
  BY DEF IInv
<1>4. QED
  BY <1>1, <1>2, <1>3, PTL DEF IngestSpec

-----------------------------------------------------------------------------
(* The policies.  The evaluation folds the verdicts of the enabled ones in *)
(* an order nobody fixed; that the severest wins is shown by induction on  *)
(* the number of policies read.                                            *)

LEMMA LeastNat ==
    ASSUME NEW T, T \subseteq Nat, T # {}
    PROVE  \E n \in T : \A m \in T : n <= m
<1> DEFINE R == {p \in Nat \X Nat : p[1] < p[2]}
<1>1. IsWellFoundedOn(R, Nat)
  BY NatLessThanWellFounded DEF OpToRel
<1>2. \A x, y \in Nat : <<y, x>> \in R <=> y < x
  OBVIOUS
<1> HIDE DEF R
<1>3. \E x \in T : \A y \in T : ~ (<<y, x>> \in R)
  BY <1>1, WFMin
<1>4. PICK n \in T : \A y \in T : ~ (<<y, n>> \in R)
  BY <1>3
<1>5. ASSUME NEW m \in T
      PROVE  n <= m
  <2>1. n \in Nat /\ m \in Nat /\ ~ (<<m, n>> \in R)
    BY <1>4
  <2>2. ~ (m < n)
    BY <1>2, <2>1
  <2>3. QED
    BY <2>1, <2>2
<1>6. QED
  BY <1>5

LEMMA NatSetInduction ==
    ASSUME NEW T, 0 \in T, \A n \in Nat : n \in T => n + 1 \in T
    PROVE  Nat \subseteq T
<1>1. SUFFICES ASSUME Nat \ T # {}
               PROVE  FALSE
  OBVIOUS
<1>2. PICK n \in Nat \ T : \A m \in Nat \ T : n <= m
  <2>1. Nat \ T \subseteq Nat
    OBVIOUS
  <2>2. QED
    BY <1>1, <2>1, LeastNat
<1>3. n # 0 /\ n - 1 \in Nat
  BY <1>2
<1>4. n - 1 \in T
  BY <1>2, <1>3
<1>5. QED
  BY <1>2, <1>3, <1>4

\* What the action is after one policy more, and after a set of them.
After(p, current, ctx) ==
    IF Verdict(p, ctx) = "none" THEN current ELSE MergeAction(current, Verdict(p, ctx))

OneMore(f, s, ctx) ==
    IF s = {} THEN "allowed" ELSE After(CHOOSE x \in s : TRUE, f[s \ {CHOOSE x \in s : TRUE}], ctx)

IsFold(f, S, ctx) == f = [s \in SUBSET S |-> OneMore(f, s, ctx)]

LEMMA NatOrderInduction ==
    ASSUME NEW T, \A n \in Nat : (\A m \in Nat : m < n => m \in T) => n \in T
    PROVE  Nat \subseteq T
<1>1. SUFFICES ASSUME Nat \ T # {}
               PROVE  FALSE
  OBVIOUS
<1>2. PICK n \in Nat \ T : \A m \in Nat \ T : n <= m
  <2>1. Nat \ T \subseteq Nat
    OBVIOUS
  <2>2. QED
    BY <1>1, <2>1, LeastNat
<1>3. \A m \in Nat : m < n => m \in T
  BY <1>2
<1>4. QED
  BY <1>2, <1>3

LEMMA ActionIsFold ==
    ASSUME NEW ctx
    PROVE  Action(ctx) = (CHOOSE f : IsFold(f, Enabled, ctx))[Enabled]
BY DEF Action, FoldSet, MapThenFoldSet, IsFold, OneMore, After

LEMMA VerdictIsKnown ==
    ASSUME NEW p, NEW ctx
    PROVE  Verdict(p, ctx) \in {"none", "warned", "blocked"}
BY DEF Verdict, EvalTool, EvalWorkspace, EvalNetwork, EvalArtifact, EvalText

\* A fold that is right up to sets of n policies gives one up to n + 1.
LEMMA FoldExists ==
    ASSUME NEW S, IsFiniteSet(S), NEW ctx
    PROVE  \E f : IsFold(f, S, ctx)
<1> DEFINE RightUpTo(f, n) == \A s \in SUBSET S : Cardinality(s) <= n => f[s] = OneMore(f, s, ctx)
           Next1(f) == [s \in SUBSET S |-> OneMore(f, s, ctx)]
           T == {n \in Nat : \E f : RightUpTo(f, n)}
<1>1. \A s \in SUBSET S : IsFiniteSet(s) /\ Cardinality(s) \in Nat
  BY FS_Subset, FS_CardinalityType
<1>2. ASSUME NEW s \in SUBSET S, s # {}, NEW x \in s
      PROVE  s \ {x} \in SUBSET S /\ Cardinality(s \ {x}) = Cardinality(s) - 1
  BY <1>1, <1>2, FS_RemoveElement
<1>3. 0 \in T
  <2> DEFINE f == [s \in SUBSET S |-> "allowed"]
  <2>1. \A s \in SUBSET S : Cardinality(s) <= 0 => s = {}
    BY <1>1, FS_EmptySet
  <2>2. RightUpTo(f, 0)
    BY <2>1 DEF OneMore
  <2>3. QED
    BY <2>2
<1>4. ASSUME NEW n \in Nat, NEW f, RightUpTo(f, n)
      PROVE  RightUpTo(Next1(f), n + 1)
  <2>1. SUFFICES ASSUME NEW s \in SUBSET S, Cardinality(s) <= n + 1
                 PROVE  Next1(f)[s] = OneMore(Next1(f), s, ctx)
    OBVIOUS
  <2>2. Next1(f)[s] = OneMore(f, s, ctx)
    OBVIOUS
  <2>3. CASE s = {}
    BY <2>2, <2>3 DEF OneMore
  <2>4. CASE s # {}
    <3>0. PICK x : x = CHOOSE y \in s : TRUE
      OBVIOUS
    <3>1. x \in s
      BY <2>4, <3>0
    <3>2. s \ {x} \in SUBSET S /\ Cardinality(s \ {x}) <= n
      BY <1>1, <1>2, <2>1, <2>4, <3>1
    <3>3. f[s \ {x}] = OneMore(f, s \ {x}, ctx)
      BY <1>4, <3>2
    <3>4. Next1(f)[s \ {x}] = f[s \ {x}]
      <4>1. Next1(f)[s \ {x}] = OneMore(f, s \ {x}, ctx)
        BY <3>2
      <4>2. QED
        BY <3>3, <4>1
    <3> HIDE DEF Next1
    <3>5. OneMore(f, s, ctx) = OneMore(Next1(f), s, ctx)
      BY <2>4, <3>0, <3>4 DEF OneMore
    <3>6. QED
      BY <2>2, <3>5
  <2>5. QED
    BY <2>3, <2>4
<1>5. ASSUME NEW n \in Nat, n \in T
      PROVE  n + 1 \in T
  <2>1. PICK f : RightUpTo(f, n)
    BY <1>5
  <2>2. RightUpTo(Next1(f), n + 1)
    BY <1>4, <2>1
  <2> HIDE DEF RightUpTo, Next1
  <2>3. QED
    BY <2>2
<1>6. PICK f : RightUpTo(f, Cardinality(S))
  <2>1. Cardinality(S) \in Nat
    BY FS_CardinalityType
  <2> HIDE DEF T
  <2>2. Cardinality(S) \in T
    BY <1>3, <1>5, <2>1, NatSetInduction
  <2>3. QED
    BY <2>2 DEF T
<1>7. \A s \in SUBSET S : Cardinality(s) <= Cardinality(S)
  BY FS_Subset
<1>8. \A s \in SUBSET S : f[s] = OneMore(f, s, ctx)
  BY <1>6, <1>7
<1> DEFINE g == [s \in SUBSET S |-> f[s]]
<1>9. ASSUME NEW s \in SUBSET S
      PROVE  g[s] = OneMore(g, s, ctx)
  <2>1. CASE s = {}
    BY <1>8, <2>1 DEF OneMore
  <2>2. CASE s # {}
    <3>0. PICK x : x = CHOOSE y \in s : TRUE
      OBVIOUS
    <3>1. x \in s /\ s \ {x} \in SUBSET S
      BY <2>2, <3>0
    <3>2. g[s \ {x}] = f[s \ {x}]
      BY <3>1
    <3>3. OneMore(g, s, ctx) = OneMore(f, s, ctx)
      BY <2>2, <3>0, <3>2 DEF OneMore
    <3>4. QED
      BY <1>8, <3>3
  <2>3. QED
    BY <2>1, <2>2
<1>10. IsFold(g, S, ctx)
  <2>1. g = [s \in SUBSET S |-> g[s]]
    OBVIOUS
  <2> HIDE DEF g
  <2>2. QED
    BY <1>9, <2>1 DEF IsFold
<1>11. QED
  BY <1>10

\* The severest verdict wins, whatever the order.
LEMMA BlockedStays ==
    ASSUME NEW current \in {"allowed", "warned", "blocked"}, NEW new \in {"warned", "blocked"}
    PROVE  /\ MergeAction(current, new) \in {"allowed", "warned", "blocked"}
           /\ MergeAction(current, new) = "blocked" <=> current = "blocked" \/ new = "blocked"
BY DEF MergeAction, Rank

LEMMA FoldIsSevere ==
    ASSUME NEW S, IsFiniteSet(S), NEW ctx, NEW f, IsFold(f, S, ctx)
    PROVE  \A s \in SUBSET S :
              /\ f[s] \in {"allowed", "warned", "blocked"}
              /\ f[s] = "blocked" <=> \E p \in s : Verdict(p, ctx) = "blocked"
<1> DEFINE Severe(s) == /\ f[s] \in {"allowed", "warned", "blocked"}
                        /\ f[s] = "blocked" <=> \E p \in s : Verdict(p, ctx) = "blocked"
           T == {n \in Nat : \A s \in SUBSET S : Cardinality(s) = n => Severe(s)}
<1>1. \A s \in SUBSET S : IsFiniteSet(s) /\ Cardinality(s) \in Nat /\ f[s] = OneMore(f, s, ctx)
  BY FS_Subset, FS_CardinalityType DEF IsFold
<1>2. 0 \in T
  <2>1. SUFFICES ASSUME NEW s \in SUBSET S, Cardinality(s) = 0
                 PROVE  Severe(s)
    OBVIOUS
  <2>2. s = {}
    BY <1>1, <2>1, FS_EmptySet
  <2>3. QED
    BY <1>1, <2>2 DEF OneMore
<1>3. ASSUME NEW n \in Nat, n \in T
      PROVE  n + 1 \in T
  <2>1. SUFFICES ASSUME NEW s \in SUBSET S, Cardinality(s) = n + 1
                 PROVE  Severe(s)
    OBVIOUS
  <2>2. s # {}
    BY <2>1, FS_EmptySet
  <2>3. PICK x : x = CHOOSE y \in s : TRUE
    OBVIOUS
  <2>4. x \in s
    BY <2>2, <2>3
  <2>5. s \ {x} \in SUBSET S /\ Cardinality(s \ {x}) = n
    <3>1. IsFiniteSet(s)
      BY <1>1
    <3>2. Cardinality(s \ {x}) = Cardinality(s) - 1
      BY <2>4, <3>1, FS_RemoveElement
    <3>3. QED
      BY <2>1, <3>2
  <2>6. Severe(s \ {x})
    BY <1>3, <2>5
  <2>7. f[s] = After(x, f[s \ {x}], ctx)
    BY <1>1, <2>2, <2>3 DEF OneMore
  <2>8. Verdict(x, ctx) \in {"none", "warned", "blocked"}
    BY VerdictIsKnown
  <2>9. CASE Verdict(x, ctx) = "none"
    BY <2>6, <2>7, <2>9 DEF After
  <2>10. CASE Verdict(x, ctx) # "none"
    <3>1. f[s] = MergeAction(f[s \ {x}], Verdict(x, ctx))
      BY <2>7, <2>10 DEF After
    <3>2. QED
      BY <2>6, <2>8, <2>10, <3>1, BlockedStays
  <2>11. QED
    BY <2>9, <2>10
<1> HIDE DEF T
<1>4. Nat \subseteq T
  BY <1>2, <1>3, NatSetInduction
<1>5. QED
  BY <1>1, <1>4 DEF T

\* What is let through is what none of the policies forbids: the order in which
\* they are read does not matter, and no policy lets pass what another forbids
\* (evaluator.py:41-77, policy_engine.py:61-75).
THEOREM SeverestVerdictWins ==
    ASSUME IsFiniteSet(Enabled), NEW ctx
    PROVE  Allowed(ctx) <=> ~ Forbidden(ctx)
<1> DEFINE f == CHOOSE f : IsFold(f, Enabled, ctx)
<1>1. IsFold(f, Enabled, ctx)
  BY FoldExists
<1>2. Action(ctx) = f[Enabled]
  BY ActionIsFold
<1> HIDE DEF f
<1>3. /\ f[Enabled] \in {"allowed", "warned", "blocked"}
      /\ f[Enabled] = "blocked" <=> Forbidden(ctx)
  BY <1>1, FoldIsSevere DEF Forbidden
<1>4. QED
  BY <1>2, <1>3 DEF Allowed

\* The policies that are asked are finitely many.
PolicyInv == DOMAIN policies \subseteq PolicyIds \cup DOMAIN DefaultPolicies

LEMMA EnabledIsFinite ==
    ASSUME IsFiniteSet(PolicyIds), IsFiniteSet(DOMAIN DefaultPolicies), PolicyInv
    PROVE  IsFiniteSet(Enabled)
<1> DEFINE D == {q \in DOMAIN policies : policies[q].on}
           f == [q \in D |-> policies[q]]
<1>1. IsFiniteSet(PolicyIds \cup DOMAIN DefaultPolicies)
  BY FS_Union
<1>2. D \in SUBSET (PolicyIds \cup DOMAIN DefaultPolicies)
  BY DEF PolicyInv
<1>3. IsFiniteSet(D)
  BY <1>1, <1>2, FS_Subset
<1>4. f \in Surjection(D, Enabled)
  BY DEF Enabled, Surjection
<1>5. QED
  BY <1>3, <1>4, FS_Surjection

LogInv == PolicyInv /\ ForbiddenIsNotLogged

LEMMA LogStart == IngestInit => LogInv
BY DEF IngestInit, PolicyInit, LogInv, PolicyInv, ForbiddenIsNotLogged

\* A report enters the log unless what it was checked for was refused.
LEMMA LogGrows ==
    ASSUME IsFiniteSet(PolicyIds), IsFiniteSet(DOMAIN DefaultPolicies), LogInv, NEW m,
           events' = IF Checked(m) /\ ~Allowed(m.ctx) THEN events ELSE events \cup {Logged(m)},
           policies' = policies
    PROVE  LogInv'
<1>1. PolicyInv'
  BY DEF LogInv, PolicyInv
<1>2. IsFiniteSet(Enabled)
  BY EnabledIsFinite DEF LogInv
<1>3. /\ Checked(Logged(m)) <=> Checked(m)
      /\ Logged(m).forbidden <=> Forbidden(m.ctx)
  BY DEF Checked, Logged
<1>4. Forbidden(m.ctx) => ~ Allowed(m.ctx)
  BY <1>2, SeverestVerdictWins
<1>5. ForbiddenIsNotLogged'
  BY <1>3, <1>4 DEF LogInv, ForbiddenIsNotLogged
<1>6. QED
  BY <1>1, <1>5 DEF LogInv

LEMMA PoliciesChange ==
    ASSUME PolicyInv, ChangePolicies
    PROVE  PolicyInv'
<1>1. ASSUME NEW p \in PolicyIds, NEW row, UpsertPolicy(p, row)
      PROVE  PolicyInv'
  BY <1>1 DEF UpsertPolicy, PolicyInv
<1>2. ASSUME NEW ids \in SUBSET PolicyIds, NEW new \in [ids -> PolicyRows], ReplacePolicies(new)
      PROVE  PolicyInv'
  BY <1>2 DEF ReplacePolicies, PolicyInv
<1>3. CASE SeedDefaults
  BY <1>3 DEF SeedDefaults, PolicyInv
<1>4. QED
  BY <1>1, <1>2, <1>3 DEF ChangePolicies

LEMMA LogStep ==
    ASSUME IsFiniteSet(PolicyIds), IsFiniteSet(DOMAIN DefaultPolicies), LogInv, [IngestNext]_ingestVars
    PROVE  LogInv'
<1>1. ASSUME NEW m \in net, RunEvent(m) \/ StepEvent(m)
      PROVE  LogInv'
  BY <1>1, LogGrows DEF RunEvent, StepEvent
<1>2. CASE events' = events /\ policies' = policies
  BY <1>2 DEF LogInv, PolicyInv, ForbiddenIsNotLogged
<1>3. CASE AdministerPolicies
  <2>1. events' = events /\ PolicyInv'
    BY <1>3, PoliciesChange DEF AdministerPolicies, stored, LogInv
  <2>2. QED
    BY <2>1 DEF LogInv, ForbiddenIsNotLogged
<1>4. QED
  BY <1>1, <1>2, <1>3
     DEF IngestNext, Register, RotateToken, StartRun, ReportStep, EndRun, Complete, EvaluatePolicy,
         ReportViolation, machine, stored, ingestVars

\* With any finite number of policies, read in any order and changed at any time,
\* what one of them forbade when it was reported is not in the event log
\* (policy_engine.py:61-75, evaluator.py:41-77).
THEOREM NothingForbiddenIsLogged ==
    ASSUME IsFiniteSet(PolicyIds), IsFiniteSet(DOMAIN DefaultPolicies)
    PROVE  IngestSpec => []ForbiddenIsNotLogged
<1>1. IngestInit => LogInv
  BY LogStart
<1>2. LogInv /\ [IngestNext]_ingestVars => LogInv'
  BY LogStep
<1>3. LogInv => ForbiddenIsNotLogged
  BY DEF LogInv
<1>4. QED
  BY <1>1, <1>2, <1>3, PTL DEF IngestSpec

-----------------------------------------------------------------------------
(* The task pool.  HermesAlone is inductive with the types.  ClaimedOnce   *)
(* needs Held: a task somebody has in hand, and that was never given out   *)
(* again, still has the status its claim left.  That excludes a second     *)
(* claim, since a claim for a plan takes tasks without assignee and one    *)
(* for execution approved ones.                                            *)

Modes == {"pre_review", "execute"}

PoolRow == [status : Statuses, target : Targets, priority : Priorities \cup {0},
        plan : BOOLEAN, assignee : Targets \cup {Nobody}, age : Ages]

\* The row of a task that was claimed and not given out since.
InHand(row, mode) ==
    IF mode = "pre_review" THEN row.status = "pending" /\ row.assignee # Nobody
                           ELSE row.status = "in_progress"

Held ==
    \A t \in Tasks \ reopened, mode \in Modes, w \in Workers :
        <<t, mode>> \in hand[w] => t \in Rows /\ InHand(pool[t], mode)

-----------------------------------------------------------------------------
(* Types.  pool is a function on its rows, which come one by one.          *)

LEMMA TypesInit ==
    ASSUME CreateLimit \in Nat, PoolInit
    PROVE  PoolTypeOK
BY DEF PoolInit, PoolTypeOK, Rows

\* A claim takes overdue tasks back and then takes one.
LEMMA ReleasedRows ==
    ASSUME PoolTypeOK, NEW mode \in Modes
    PROVE  /\ DOMAIN ReleasedPool(mode) = Rows
           /\ \A t \in Rows :
                 /\ ReleasedPool(mode)[t] \in PoolRow
                 /\ \/ ReleasedPool(mode)[t] = pool[t]
                    \/ /\ ReleasedPool(mode)[t].status \in {"pending", "approved"}
                       /\ ReleasedPool(mode)[t].assignee = Nobody
<1>1. \A t \in Rows : pool[t] \in PoolRow
  BY DEF PoolTypeOK, PoolRow
<1>2. ASSUME NEW t \in Rows, NEW status \in {"pending", "approved"}
      PROVE  /\ Freed(pool[t], status) \in PoolRow
             /\ Freed(pool[t], status).status = status
             /\ Freed(pool[t], status).assignee = Nobody
  BY <1>1 DEF Freed, PoolRow, Statuses, Ages
<1>3. CASE mode = "pre_review"
  BY <1>1, <1>2, <1>3 DEF ReleasedPool
<1>4. CASE mode # "pre_review"
  BY <1>1, <1>2, <1>4 DEF ReleasedPool
<1>5. QED
  BY <1>3, <1>4

LEMMA ClaimedRow ==
    ASSUME NEW row \in PoolRow, NEW w \in Workers, NEW mode \in Modes
    PROVE  /\ Claimed(row, Identity[w], mode) \in PoolRow
           /\ Claimed(row, Identity[w], mode).assignee = Identity[w]
           /\ Claimed(row, Identity[w], mode).status =
                 IF mode = "pre_review" THEN row.status ELSE "in_progress"
<1>1. /\ "in_progress" \in Statuses /\ "fresh" \in Ages /\ Identity[w] \in Targets
  BY DEF Statuses, Ages, Targets
<1>2. QED
  BY <1>1 DEF Claimed, PoolRow

\* A claim ends with the overdue tasks taken back, or with one more that it takes.
Takes(w, mode, t) ==
    LET rows == ReleasedPool(mode)
    IN  /\ t \in Rows
        /\ t \in Claimable(rows, Identity[w], mode)
        /\ ~HermesBusy(rows, Identity[w], mode)
        /\ pool' = [rows EXCEPT ![t] = Claimed(@, Identity[w], mode)]
        /\ hand' = [hand EXCEPT ![w] = @ \cup {<<t, mode>>}]

LEMMA ClaimRows ==
    ASSUME PoolTypeOK, NEW w \in Workers, NEW mode \in Modes, Claim(w, mode)
    PROVE  \/ pool' = ReleasedPool(mode) /\ hand' = hand
           \/ \E t \in Tasks : Takes(w, mode, t)
<1>1. DOMAIN ReleasedPool(mode) = Rows /\ Rows \subseteq Tasks
  BY ReleasedRows DEF PoolTypeOK
<1>2. QED
  BY <1>1 DEF Claim, First, Claimable, Takes

LEMMA ClaimTypes ==
    ASSUME PoolTypeOK, NEW w \in Workers, NEW mode \in Modes, Claim(w, mode)
    PROVE  PoolTypeOK'
<1>1. /\ DOMAIN ReleasedPool(mode) = Rows
      /\ \A t \in Rows : ReleasedPool(mode)[t] \in PoolRow
  BY ReleasedRows
<1>2. Rows' = Rows /\ \A t \in Rows : pool'[t] \in PoolRow
  <2>1. CASE pool' = ReleasedPool(mode)
    BY <1>1, <2>1 DEF Rows
  <2>2. ASSUME NEW t \in Tasks, Takes(w, mode, t)
        PROVE  Rows' = Rows /\ \A u \in Rows : pool'[u] \in PoolRow
    <3>1. Claimed(ReleasedPool(mode)[t], Identity[w], mode) \in PoolRow
      BY <1>1, <2>2, ClaimedRow DEF Takes
    <3>2. pool' = [ReleasedPool(mode) EXCEPT
                      ![t] = Claimed(ReleasedPool(mode)[t], Identity[w], mode)]
      BY <2>2 DEF Takes
    <3>3. QED
      BY <1>1, <3>1, <3>2 DEF Rows
  <2>3. QED
    BY <2>1, <2>2, ClaimRows
<1>3. hand' \in [Workers -> SUBSET (Tasks \X Modes)]
  BY ClaimRows DEF PoolTypeOK, Takes, Modes
<1>4. /\ bucket' = bucket
      /\ reopened' = reopened \cup {t \in Rows : ReleasedPool(mode)[t] # pool[t]}
      /\ byHand' \subseteq byHand
  BY DEF Claim
<1>5. QED
  BY <1>2, <1>3, <1>4 DEF PoolTypeOK, PoolRow, Modes

LEMMA TypesNext ==
    ASSUME CreateLimit \in Nat, SetByHand \subseteq Statuses, PoolTypeOK, [PoolNext]_poolVars
    PROVE  PoolTypeOK'
<1>0. /\ \A t \in Rows : pool[t] \in PoolRow
      /\ Rows \subseteq Tasks
      /\ bucket \in [Submitters -> 0 .. CreateLimit]
      /\ hand \in [Workers -> SUBSET (Tasks \X Modes)]
  BY DEF PoolTypeOK, PoolRow, Modes
<1>1. ASSUME NEW t \in Tasks, NEW target \in Targets, NEW priority \in Priorities \cup {0},
             InsertTask(t, target, priority), bucket' \in [Submitters -> 0 .. CreateLimit]
      PROVE  PoolTypeOK'
  <2>1. NewTask(target, priority) \in PoolRow
    BY DEF NewTask, PoolRow, Statuses, Ages
  <2>2. /\ Rows' = Rows \cup {t}
        /\ \A u \in Rows' : pool'[u] \in PoolRow
    BY <1>0, <1>1, <2>1 DEF InsertTask, Rows
  <2>3. QED
    BY <1>1, <2>2 DEF PoolTypeOK, PoolRow, InsertTask
<1>2. ASSUME NEW s \in Submitters, bucket[s] < CreateLimit,
             bucket' = [bucket EXCEPT ![s] = @ + 1]
      PROVE  bucket' \in [Submitters -> 0 .. CreateLimit]
  BY <1>0, <1>2
<1>3. ASSUME NEW t \in Tasks, NEW row, t \in Rows => row \in PoolRow,
             pool' = [pool EXCEPT ![t] = row], bucket' = bucket,
             hand' \in [Workers -> SUBSET (Tasks \X Modes)],
             reopened' \subseteq Tasks, byHand' \subseteq Tasks
      PROVE  PoolTypeOK'
  <2>1. Rows' = Rows /\ \A u \in Rows' : pool'[u] \in PoolRow
    BY <1>0, <1>3 DEF Rows
  <2>2. QED
    BY <1>0, <1>3, <2>1 DEF PoolTypeOK, PoolRow, Modes
<1>4. reopened \subseteq Tasks /\ byHand \subseteq Tasks
  BY DEF PoolTypeOK
<1>5. ASSUME NEW t \in Tasks, NEW s \in Submitters, NEW target \in Targets,
             NEW priority \in Priorities, CreateTask(t, s, target, priority)
      PROVE  PoolTypeOK'
  BY <1>1, <1>2, <1>5 DEF CreateTask
<1>6. ASSUME NEW t \in Tasks, NEW target \in Targets, SubmitByTool(t, target)
      PROVE  PoolTypeOK'
  <2>1. bucket' \in [Submitters -> 0 .. CreateLimit]
    BY <1>0, <1>6 DEF SubmitByTool
  <2>2. QED
    BY <1>1, <1>6, <2>1 DEF SubmitByTool
<1>7. ASSUME NEW t \in Tasks, NEW status \in SetByHand, NEW target \in Targets,
             NEW priority \in Priorities, UpdateTask(t, status, target, priority)
      PROVE  PoolTypeOK'
  <2> DEFINE row == [pool[t] EXCEPT !.status = status, !.target = target,
                                    !.priority = priority]
  <2>1. t \in Rows => row \in PoolRow
    BY <1>0, <1>7 DEF PoolRow
  <2>2. pool' = [pool EXCEPT ![t] = row]
    BY <1>0, <1>7 DEF UpdateTask
  <2>3. /\ bucket' = bucket
        /\ hand' \in [Workers -> SUBSET (Tasks \X Modes)]
        /\ reopened' \subseteq Tasks /\ byHand' \subseteq Tasks
    BY <1>0, <1>4, <1>7 DEF UpdateTask
  <2>4. QED
    BY <1>3, <2>1, <2>2, <2>3
<1>8. ASSUME NEW w \in Workers, NEW mode \in Modes, Claim(w, mode)
      PROVE  PoolTypeOK'
  BY <1>8, ClaimTypes
<1>9. ASSUME NEW t \in Tasks, NEW w \in Workers, NEW mode \in Modes,
             NEW status \in Statuses, NEW plan \in BOOLEAN, SetStatus(t, status, plan),
             DropFromHand(w, t, mode), reopened' \subseteq Tasks, byHand' \subseteq Tasks
      PROVE  PoolTypeOK'
  <2> DEFINE row == [pool[t] EXCEPT !.status = status, !.plan = @ \/ plan]
  <2>1. t \in Rows => row \in PoolRow
    <3> SUFFICES ASSUME t \in Rows PROVE row \in PoolRow
      OBVIOUS
    <3>1. (pool[t].plan \/ plan) \in BOOLEAN
      OBVIOUS
    <3>2. QED
      BY <1>0, <3>1 DEF PoolRow
  <2>2. pool' = [pool EXCEPT ![t] = row] /\ bucket' = bucket
    BY <1>9 DEF SetStatus
  <2>3. hand' \in [Workers -> SUBSET (Tasks \X Modes)]
    BY <1>0, <1>9 DEF DropFromHand
  <2>4. QED
    BY <1>3, <1>9, <2>1, <2>2, <2>3
<1>10. ASSUME NEW w \in Workers, NEW t \in Tasks, WritePlan(w, t)
       PROVE  PoolTypeOK'
  BY <1>4, <1>9, <1>10 DEF WritePlan, Modes, Statuses
<1>11. ASSUME NEW w \in Workers, NEW t \in Tasks, NEW status \in {"completed", "failed"},
              EndTask(w, t, status)
       PROVE  PoolTypeOK'
  BY <1>4, <1>9, <1>11 DEF EndTask, Modes, Statuses
<1>12. ASSUME NEW w \in Workers, NEW t \in Tasks, NEW mode \in Modes, ReleaseTask(w, t, mode)
       PROVE  PoolTypeOK'
  BY <1>4, <1>9, <1>12 DEF ReleaseTask, Statuses
<1>13. ASSUME NEW t \in Tasks, TimePasses(t)
       PROVE  PoolTypeOK'
  <2> DEFINE row == [pool[t] EXCEPT !.age = IF @ = "fresh" THEN "old" ELSE "stale"]
  <2>1. row \in PoolRow /\ pool' = [pool EXCEPT ![t] = row]
    BY <1>0, <1>13 DEF TimePasses, PoolRow, Ages
  <2>2. QED
    BY <1>0, <1>3, <1>4, <1>13, <2>1 DEF TimePasses
<1>14. ASSUME NEW s \in Submitters, CreateWindowMoves(s)
       PROVE  PoolTypeOK'
  <2>1. bucket' \in [Submitters -> 0 .. CreateLimit]
    BY <1>0, <1>14 DEF CreateWindowMoves
  <2>2. QED
    BY <1>14, <2>1 DEF CreateWindowMoves, PoolTypeOK, Rows
<1>15. ASSUME NEW w \in Workers, WorkerDies(w)
       PROVE  PoolTypeOK'
  <2>1. hand' \in [Workers -> SUBSET (Tasks \X Modes)]
    BY <1>0, <1>15 DEF WorkerDies
  <2>2. QED
    BY <1>15, <2>1 DEF WorkerDies, PoolTypeOK, Rows, Modes
<1>16. CASE UNCHANGED poolVars
  BY <1>16 DEF poolVars, PoolTypeOK, Rows
<1>17. QED
  BY <1>5, <1>6, <1>7, <1>8, <1>10, <1>11, <1>12, <1>13, <1>14, <1>15, <1>16
     DEF PoolNext, SubmitterNext, WorkerNext, TaskNext, ByHandNext, Modes

-----------------------------------------------------------------------------
(* Hermes.                                                                 *)

Busy(row) == row.status = "in_progress" /\ row.assignee = Hermes

\* It is enough that no further task gets busy.
LEMMA AloneKept ==
    ASSUME HermesAlone,
           \A u \in Rows' \ byHand' : Busy(pool'[u]) => u \in Rows \ byHand /\ Busy(pool[u])
    PROVE  HermesAlone'
BY DEF HermesAlone, Busy

LEMMA AloneClaim ==
    ASSUME PoolTypeOK, HermesAlone, NEW w \in Workers, NEW mode \in Modes, Claim(w, mode)
    PROVE  HermesAlone'
<1> DEFINE rows == ReleasedPool(mode)
<1>1. /\ DOMAIN rows = Rows
      /\ \A t \in Rows : rows[t] \in PoolRow /\ (Busy(rows[t]) => rows[t] = pool[t])
  BY ReleasedRows DEF Busy
<1>2. byHand' = byHand \cap {t \in Rows : pool'[t].status = "in_progress"}
  BY DEF Claim
<1>3. CASE pool' = rows
  <2>1. Rows' = Rows
    BY <1>1, <1>3 DEF Rows
  <2>2. QED
    BY <1>1, <1>2, <1>3, <2>1, AloneKept DEF Busy
<1>4. ASSUME NEW t \in Tasks, Takes(w, mode, t)
      PROVE  HermesAlone'
  <2>1. /\ t \in Rows
        /\ pool' = [rows EXCEPT ![t] = Claimed(rows[t], Identity[w], mode)]
        /\ rows[t].status = IF mode = "pre_review" THEN "pending" ELSE "approved"
        /\ ~HermesBusy(rows, Identity[w], mode)
    BY <1>4 DEF Takes, Claimable
  <2>2. /\ Rows' = Rows
        /\ \A u \in Rows \ {t} : pool'[u] = rows[u]
        /\ pool'[t] = Claimed(rows[t], Identity[w], mode)
    BY <1>1, <2>1 DEF Rows
  <2>3. CASE Identity[w] = Hermes /\ mode = "execute"
    <3>1. \A u \in Rows : ~Busy(rows[u])
      BY <1>1, <2>1, <2>3 DEF HermesBusy, Busy
    <3>2. QED
      BY <2>2, <3>1 DEF HermesAlone, Busy
  <2>4. CASE ~(Identity[w] = Hermes /\ mode = "execute")
    <3>1. ~Busy(pool'[t])
      BY <1>1, <2>1, <2>2, <2>4, ClaimedRow DEF Busy, Modes
    <3>2. QED
      BY <1>1, <1>2, <2>2, <3>1, AloneKept DEF Busy
  <2>5. QED
    BY <2>3, <2>4
<1>5. QED
  BY <1>3, <1>4, ClaimRows

\* Any other step that writes one row leaves it not in progress, or in progress by
\* hand, or as busy as it was.
LEMMA AloneWrite ==
    ASSUME HermesAlone, NEW t, NEW row, pool' = [pool EXCEPT ![t] = row],
           \A u \in Rows \ {t} : u \in byHand => u \in byHand',
           Busy(row) => t \in byHand' \/ (t \notin byHand /\ Busy(pool[t]))
    PROVE  HermesAlone'
<1>1. /\ Rows' = Rows
      /\ \A u \in Rows \ {t} : pool'[u] = pool[u]
      /\ t \in Rows => pool'[t] = row
  BY DEF Rows
<1>2. QED
  BY <1>1, AloneKept

LEMMA AloneNext ==
    ASSUME PoolTypeOK, HermesAlone, [PoolNext]_poolVars
    PROVE  HermesAlone'
<1>1. ASSUME NEW t \in Tasks, NEW target \in Targets, NEW priority \in Priorities \cup {0},
             InsertTask(t, target, priority)
      PROVE  HermesAlone'
  <2>1. /\ Rows' = Rows \cup {t} /\ byHand' = byHand
        /\ \A u \in Rows : pool'[u] = pool[u]
        /\ ~Busy(pool'[t])
    BY <1>1 DEF InsertTask, NewTask, Busy, Rows
  <2>2. QED
    BY <2>1, AloneKept
<1>2. ASSUME NEW t \in Tasks, NEW status \in SetByHand, NEW target \in Targets,
             NEW priority \in Priorities, UpdateTask(t, status, target, priority)
      PROVE  HermesAlone'
  <2> DEFINE row == [pool[t] EXCEPT !.status = status, !.target = target,
                                    !.priority = priority]
  <2>1. /\ pool[t] \in PoolRow
        /\ pool' = [pool EXCEPT ![t] = row]
        /\ byHand' = IF status = "in_progress" THEN byHand \cup {t} ELSE byHand \ {t}
    BY <1>2 DEF UpdateTask, PoolTypeOK, PoolRow
  <2>2. Busy(row) => t \in byHand'
    BY <2>1 DEF Busy, PoolRow
  <2>3. QED
    BY <2>1, <2>2, AloneWrite
<1>3. ASSUME NEW w \in Workers, NEW mode \in Modes, Claim(w, mode)
      PROVE  HermesAlone'
  BY <1>3, AloneClaim
<1>4. ASSUME NEW t \in Tasks, NEW status \in Statuses \ {"in_progress"}, NEW plan,
             SetStatus(t, status, plan), byHand' = byHand \ {t}
      PROVE  HermesAlone'
  <2> DEFINE row == [pool[t] EXCEPT !.status = status, !.plan = @ \/ plan]
  <2>1. pool' = [pool EXCEPT ![t] = row]
    BY <1>4 DEF SetStatus
  <2>2. t \in Rows => ~Busy(row)
    BY <1>4 DEF PoolTypeOK, Busy
  <2>3. CASE t \in Rows
    BY <1>4, <2>1, <2>2, <2>3, AloneWrite
  <2>4. CASE t \notin Rows
    BY <1>4, <2>1, <2>4 DEF HermesAlone, Rows
  <2>5. QED
    BY <2>3, <2>4
<1>5. ASSUME NEW w \in Workers, NEW t \in Tasks, WritePlan(w, t)
      PROVE  HermesAlone'
  BY <1>4, <1>5 DEF WritePlan, Statuses
<1>6. ASSUME NEW w \in Workers, NEW t \in Tasks, NEW status \in {"completed", "failed"},
             EndTask(w, t, status)
      PROVE  HermesAlone'
  BY <1>4, <1>6 DEF EndTask, Statuses
<1>7. ASSUME NEW w \in Workers, NEW t \in Tasks, NEW mode \in Modes, ReleaseTask(w, t, mode)
      PROVE  HermesAlone'
  BY <1>4, <1>7 DEF ReleaseTask, Statuses
<1>8. ASSUME NEW t \in Tasks, TimePasses(t)
      PROVE  HermesAlone'
  <2> DEFINE row == [pool[t] EXCEPT !.age = IF @ = "fresh" THEN "old" ELSE "stale"]
  <2>1. pool' = [pool EXCEPT ![t] = row] /\ byHand' = byHand
    BY <1>8 DEF TimePasses
  <2>2. Busy(row) => Busy(pool[t])
    BY <1>8 DEF TimePasses, PoolTypeOK, Busy
  <2>3. QED
    BY <2>1, <2>2, AloneWrite
<1>9. CASE pool' = pool /\ byHand' = byHand
  BY <1>9 DEF HermesAlone, Rows
<1>10. QED
  BY <1>1, <1>2, <1>3, <1>5, <1>6, <1>7, <1>8, <1>9
     DEF PoolNext, SubmitterNext, WorkerNext, TaskNext, ByHandNext, CreateTask, SubmitByTool,
         CreateWindowMoves, WorkerDies, poolVars, Modes

-----------------------------------------------------------------------------
(* Who has what in hand.                                                   *)

\* Hands only lose, and what they keep is as it was.
LEMMA HeldKept ==
    ASSUME Held, ClaimedOnce, reopened \subseteq reopened',
           \A w \in Workers : hand'[w] \subseteq hand[w],
           \A t \in Tasks \ reopened', mode \in Modes, w \in Workers :
              <<t, mode>> \in hand'[w] /\ t \in Rows =>
                 t \in Rows' /\ (InHand(pool[t], mode) => InHand(pool'[t], mode))
    PROVE  Held' /\ ClaimedOnce'
<1>1. Held'
  BY DEF Held
<1>2. ClaimedOnce'
  BY DEF ClaimedOnce
<1>3. QED
  BY <1>1, <1>2

\* A worker that ends what it had in hand leaves the task in nobody's.
LEMMA HeldAlone ==
    ASSUME PoolTypeOK, Held, ClaimedOnce, NEW t \in Tasks \ reopened,
           NEW mode \in Modes, NEW w \in Workers, <<t, mode>> \in hand[w],
           DropFromHand(w, t, mode)
    PROVE  \A v \in Workers, other \in Modes : <<t, other>> \notin hand'[v]
<1> SUFFICES ASSUME NEW v \in Workers, NEW other \in Modes, <<t, other>> \in hand'[v]
             PROVE  FALSE
  OBVIOUS
<1>1. hand'[v] = IF v = w THEN hand[w] \ {<<t, mode>>} ELSE hand[v]
  BY DEF DropFromHand, PoolTypeOK
<1>2. InHand(pool[t], mode) /\ InHand(pool[t], other)
  BY <1>1 DEF Held
<1>3. other = mode
  BY <1>2 DEF InHand, Modes
<1>4. v = w
  BY <1>1, <1>3 DEF ClaimedOnce, Modes
<1>5. QED
  BY <1>1, <1>3, <1>4

LEMMA HeldClaim ==
    ASSUME \A x \in Workers : Identity[x] # Nobody,
           PoolTypeOK, Held, ClaimedOnce, NEW w \in Workers, NEW mode \in Modes, Claim(w, mode)
    PROVE  Held' /\ ClaimedOnce'
<1> DEFINE rows == ReleasedPool(mode)
<1>1. /\ DOMAIN rows = Rows
      /\ \A t \in Rows : rows[t] \in PoolRow
      /\ reopened' = reopened \cup {t \in Rows : rows[t] # pool[t]}
  BY ReleasedRows DEF Claim
<1>2. CASE pool' = rows /\ hand' = hand
  <2>1. Rows' = Rows
    BY <1>1, <1>2 DEF Rows
  <2>2. QED
    BY <1>1, <1>2, <2>1, HeldKept
<1>3. ASSUME NEW t \in Tasks, Takes(w, mode, t)
      PROVE  Held' /\ ClaimedOnce'
  <2>1. /\ t \in Rows
        /\ pool' = [rows EXCEPT ![t] = Claimed(rows[t], Identity[w], mode)]
        /\ rows[t].status = IF mode = "pre_review" THEN "pending" ELSE "approved"
        /\ mode = "pre_review" => rows[t].assignee = Nobody
        /\ hand' = [hand EXCEPT ![w] = @ \cup {<<t, mode>>}]
    BY <1>3 DEF Takes, Claimable
  <2>2. /\ Rows' = Rows
        /\ \A u \in Rows \ {t} : pool'[u] = rows[u]
        /\ pool'[t] = Claimed(rows[t], Identity[w], mode)
    BY <1>1, <2>1 DEF Rows
  <2>3. \A v \in Workers : hand'[v] = IF v = w THEN hand[w] \cup {<<t, mode>>} ELSE hand[v]
    BY <2>1 DEF PoolTypeOK
  <2>4. t \notin reopened' => \A v \in Workers, other \in Modes : <<t, other>> \notin hand[v]
    BY <1>1, <2>1 DEF Held, InHand, Modes
  <2>5. InHand(pool'[t], mode)
    BY <1>1, <2>1, <2>2, ClaimedRow DEF InHand
  <2>6. Held'
    <3> SUFFICES ASSUME NEW u \in Tasks \ reopened', NEW other \in Modes, NEW v \in Workers,
                        <<u, other>> \in hand'[v]
                 PROVE  u \in Rows' /\ InHand(pool'[u], other)
      BY DEF Held
    <3>1. CASE u = t
      BY <2>1, <2>2, <2>3, <2>4, <2>5, <3>1
    <3>2. CASE u # t
      BY <1>1, <2>2, <2>3, <3>2 DEF Held
    <3>3. QED
      BY <3>1, <3>2
  <2>7. ClaimedOnce'
    <3> SUFFICES ASSUME NEW u \in Tasks \ reopened', NEW other \in Modes,
                        NEW v \in Workers, NEW x \in Workers,
                        <<u, other>> \in hand'[v] \cap hand'[x]
                 PROVE  v = x
      BY DEF ClaimedOnce, Modes
    <3>1. CASE u = t
      <4>1. \A y \in Workers : <<t, other>> \in hand'[y] => y = w
        BY <2>3, <2>4, <3>1
      <4>2. QED
        BY <3>1, <4>1
    <3>2. CASE u # t
      <4>1. <<u, other>> \in hand[v] /\ <<u, other>> \in hand[x]
        BY <2>3, <3>2
      <4>2. u \in Tasks \ reopened
        BY <1>1
      <4>3. QED
        BY <4>1, <4>2 DEF ClaimedOnce, Modes
    <3>3. QED
      BY <3>1, <3>2
  <2>8. QED
    BY <2>6, <2>7
<1>4. QED
  BY <1>2, <1>3, ClaimRows

LEMMA HeldNext ==
    ASSUME \A x \in Workers : Identity[x] # Nobody,
           PoolTypeOK, Held, ClaimedOnce, [PoolNext]_poolVars
    PROVE  Held' /\ ClaimedOnce'
<1>1. ASSUME NEW t \in Tasks, NEW target, NEW priority, InsertTask(t, target, priority)
      PROVE  Held' /\ ClaimedOnce'
  <2>1. /\ Rows' = Rows \cup {t} /\ t \notin Rows
        /\ \A u \in Rows : pool'[u] = pool[u]
        /\ hand' = hand /\ reopened' = reopened
    BY <1>1 DEF InsertTask, Rows
  <2>2. QED
    BY <2>1, HeldKept
<1>2. ASSUME NEW t \in Tasks, NEW status, NEW target, NEW priority,
             UpdateTask(t, status, target, priority)
      PROVE  Held' /\ ClaimedOnce'
  <2>1. /\ Rows' = Rows /\ hand' = hand /\ reopened \subseteq reopened'
        /\ \A u \in Rows \ {t} : pool'[u] = pool[u]
        /\ pool[t].status = "pre_review" \/ t \in reopened'
    BY <1>2 DEF UpdateTask, Rows
  <2>2. QED
    BY <2>1, HeldKept DEF InHand
<1>3. ASSUME NEW w \in Workers, NEW mode \in Modes, Claim(w, mode)
      PROVE  Held' /\ ClaimedOnce'
  BY <1>3, HeldClaim
<1>4. ASSUME NEW w \in Workers, NEW t \in Tasks, NEW mode \in Modes, <<t, mode>> \in hand[w],
             DropFromHand(w, t, mode), NEW status, NEW plan, SetStatus(t, status, plan),
             reopened \subseteq reopened'
      PROVE  Held' /\ ClaimedOnce'
  <2>1. /\ Rows' = Rows
        /\ \A u \in Rows \ {t} : pool'[u] = pool[u]
    BY <1>4 DEF SetStatus, Rows
  <2>2. \A v \in Workers : hand'[v] \subseteq hand[v]
    BY <1>4 DEF DropFromHand, PoolTypeOK
  <2>3. t \notin reopened => \A v \in Workers, other \in Modes : <<t, other>> \notin hand'[v]
    BY <1>4, HeldAlone
  <2>4. QED
    BY <1>4, <2>1, <2>2, <2>3, HeldKept
<1>5. ASSUME NEW w \in Workers, NEW t \in Tasks, WritePlan(w, t)
      PROVE  Held' /\ ClaimedOnce'
  BY <1>4, <1>5 DEF WritePlan, Modes
<1>6. ASSUME NEW w \in Workers, NEW t \in Tasks, NEW status, EndTask(w, t, status)
      PROVE  Held' /\ ClaimedOnce'
  BY <1>4, <1>6 DEF EndTask, Modes
<1>7. ASSUME NEW w \in Workers, NEW t \in Tasks, NEW mode \in Modes, ReleaseTask(w, t, mode)
      PROVE  Held' /\ ClaimedOnce'
  BY <1>4, <1>7 DEF ReleaseTask
<1>8. ASSUME NEW t \in Tasks, TimePasses(t)
      PROVE  Held' /\ ClaimedOnce'
  <2>1. /\ Rows' = Rows /\ hand' = hand /\ reopened' = reopened
        /\ \A u \in Rows \ {t} : pool'[u] = pool[u]
        /\ pool'[t].status = pool[t].status /\ pool'[t].assignee = pool[t].assignee
    BY <1>8 DEF TimePasses, PoolTypeOK, Rows
  <2>2. QED
    BY <2>1, HeldKept DEF InHand
<1>9. ASSUME NEW w \in Workers, WorkerDies(w)
      PROVE  Held' /\ ClaimedOnce'
  <2>1. \A v \in Workers : hand'[v] \subseteq hand[v]
    BY <1>9 DEF WorkerDies, PoolTypeOK
  <2>2. QED
    BY <1>9, <2>1, HeldKept DEF WorkerDies, Rows
<1>10. CASE pool' = pool /\ hand' = hand /\ reopened' = reopened
  BY <1>10, HeldKept DEF Rows
<1>11. QED
  BY <1>1, <1>2, <1>3, <1>5, <1>6, <1>7, <1>8, <1>9, <1>10
     DEF PoolNext, SubmitterNext, WorkerNext, TaskNext, ByHandNext, CreateTask, SubmitByTool,
         CreateWindowMoves, poolVars, Modes

-----------------------------------------------------------------------------
\* Rows, buckets and hands are what their columns say (task_pool.py:67-91).
THEOREM PoolTypes ==
    ASSUME CreateLimit \in Nat, SetByHand \subseteq Statuses
    PROVE  PoolSpec => []PoolTypeOK
<1>1. PoolInit => PoolTypeOK
  BY TypesInit
<1>2. PoolTypeOK /\ [PoolNext]_poolVars => PoolTypeOK'
  BY TypesNext
<1>3. QED
  BY <1>1, <1>2, PTL DEF PoolSpec

\* However many Hermes workers claim, release and die, and whatever times out, one
\* task that no administrator set in progress is executed by them at a time
\* (task_pool.py:330-336).
THEOREM HermesIsAlone ==
    ASSUME CreateLimit \in Nat, SetByHand \subseteq Statuses
    PROVE  PoolSpec => []HermesAlone
<1>1. PoolInit => HermesAlone
  BY DEF PoolInit, HermesAlone, Rows
<1>2. PoolTypeOK /\ HermesAlone /\ [PoolNext]_poolVars => HermesAlone'
  BY AloneNext
<1>3. PoolSpec => []PoolTypeOK
  BY PoolTypes
<1>4. QED
  BY <1>1, <1>2, <1>3, PTL DEF PoolSpec

\* Two workers have a task in hand for one purpose only if a timeout, a release or
\* an administrator gave it out again (task_pool.py:302-384).
THEOREM ClaimsAreExclusive ==
    ASSUME CreateLimit \in Nat, SetByHand \subseteq Statuses,
           \A w \in Workers : Identity[w] # Nobody
    PROVE  PoolSpec => []ClaimedOnce
<1>1. PoolInit => Held /\ ClaimedOnce
  BY DEF PoolInit, Held, ClaimedOnce
<1>2. PoolTypeOK /\ Held /\ ClaimedOnce /\ [PoolNext]_poolVars => (Held /\ ClaimedOnce)'
  BY HeldNext
<1>3. PoolSpec => []PoolTypeOK
  BY PoolTypes
<1>4. QED
  BY <1>1, <1>2, <1>3, PTL DEF PoolSpec

\* Both together, as the runs check them.
THEOREM ClaimsAreExclusiveAndAlone ==
    ASSUME CreateLimit \in Nat, SetByHand \subseteq Statuses,
           \A w \in Workers : Identity[w] # Nobody
    PROVE  PoolSpec => []ClaimsExclude
<1>1. ClaimedOnce /\ HermesAlone => ClaimsExclude
  BY DEF ClaimsExclude
<1>2. PoolSpec => []ClaimedOnce /\ []HermesAlone
  BY ClaimsAreExclusive, HermesIsAlone
<1>3. QED
  BY <1>1, <1>2, PTL


-----------------------------------------------------------------------------
(* Accounts.  The invariant is the property and the columns of a row; what *)
(* matters is that a step that gives an account a subject first sees that  *)
(* no row has it, one that is disabled or cut off included.                *)
AccountsSpec == AccountsInit /\ [][AccountsNext]_accountVars

\* A row has all its columns.
Columns(row) == row = [org |-> row.org, sub |-> row.sub, login |-> row.login,
                       role |-> row.role, status |-> row.status]

AccountsInv ==
    /\ \A a \in DOMAIN accounts : Columns(accounts[a])
    /\ OneAccountPerSub

\* The two ways in which a step writes to gateway_accounts.
KeepsSubs ==
    /\ DOMAIN accounts' = DOMAIN accounts
    /\ \A a \in DOMAIN accounts : Columns(accounts'[a]) /\ accounts'[a].sub = accounts[a].sub

Adds ==
    \E a, row :
        /\ accounts' = Add(accounts, a, row)
        /\ Columns(row)
        /\ row.sub = NoSub \/ SubIsFree(row.sub)

LEMMA OidcAccountAdds ==
    ASSUME NEW sub, NEW linked, linked => SubIsFree(sub), OidcAccount(sub, linked)
    PROVE  Adds
<1>1. PICK a \in NextId :
         accounts' = Add(accounts, a, AccountRow(DefaultOrg, IF linked THEN sub ELSE NoSub, NoLogin, "employee"))
  BY DEF OidcAccount
<1> DEFINE row == AccountRow(DefaultOrg, IF linked THEN sub ELSE NoSub, NoLogin, "employee")
<1>2. Columns(row) /\ (row.sub = NoSub \/ SubIsFree(row.sub))
  BY DEF Columns, AccountRow
<1>3. QED
  BY <1>1, <1>2 DEF Adds

\* What any step does to gateway_accounts.
LEMMA AccountsMove ==
    ASSUME AccountsInv, [AccountsNext]_accountVars
    PROVE  KeepsSubs \/ Adds
<1>1. CASE accounts' = accounts
  BY <1>1 DEF KeepsSubs, AccountsInv
<1>2. ASSUME NEW c, NEW org, NEW login, NEW role, CreateAccount(c, org, login, role)
      PROVE  Adds
  <2>1. PICK a \in NextId : accounts' = Add(accounts, a, AccountRow(org, NoSub, login, role))
    BY <1>2 DEF CreateAccount
  <2>2. QED
    BY <2>1 DEF Adds, AccountRow, Columns
<1>3. ASSUME NEW c, NEW a, NEW org, NEW role, NEW status, UpdateAccount(c, a, org, role, status)
      PROVE  KeepsSubs
  <2> DEFINE new == [org |-> org, sub |-> accounts[a].sub, login |-> accounts[a].login,
                     role |-> role, status |-> status]
  <2>1. /\ DOMAIN accounts' = DOMAIN accounts
        /\ \A b \in DOMAIN accounts : b # a => accounts'[b] = accounts[b]
    BY <1>3 DEF UpdateAccount
  <2>2. accounts'[a] = new
    <3>1. accounts'[a] = [[[accounts[a] EXCEPT !.org = org] EXCEPT !.role = role] EXCEPT !.status = status]
      BY <1>3 DEF UpdateAccount
    <3>2. accounts[a] = [org |-> accounts[a].org, sub |-> accounts[a].sub, login |-> accounts[a].login,
                         role |-> accounts[a].role, status |-> accounts[a].status]
      BY <1>3 DEF UpdateAccount, AccountsInv, Columns
    <3>3. QED
      BY <3>1, <3>2
  <2>3. QED
    BY <2>1, <2>2 DEF KeepsSubs, AccountsInv, Columns
<1>4. ASSUME NEW c, NEW org, DeleteOrg(c, org)
      PROVE  KeepsSubs
  BY <1>4 DEF DeleteOrg, MembersMoved, KeepsSubs, AccountsInv, Columns
<1>5. ASSUME NEW sub, NEW t, OidcLogin(sub, t), accounts' # accounts
      PROVE  Adds
  BY <1>5, OidcAccountAdds DEF OidcLogin
<1>6. ASSUME AccountsRestart, accounts' # accounts
      PROVE  Adds
  BY <1>6, OidcAccountAdds DEF AccountsRestart
<1>7. ASSUME NEW c, Administer(c), accounts' # accounts
      PROVE  KeepsSubs \/ Adds
  BY <1>2, <1>3, <1>4, <1>7 DEF Administer, CreateOrg, CreateKey, UpdateKey, RevokeKey
<1>8. QED
  BY <1>1, <1>5, <1>6, <1>7
     DEF AccountsNext, accountVars, Show, StaffLogin, StaffLogout, SessionAges, OidcCallback,
         ExchangeFails, KeyExpires

LEMMA AccountsStart == AccountsInit => AccountsInv
BY DEF AccountsInit, AccountsInv, OneAccountPerSub

LEMMA AccountsStep ==
    ASSUME AccountsInv, [AccountsNext]_accountVars
    PROVE  AccountsInv'
<1>1. CASE KeepsSubs
  BY <1>1 DEF KeepsSubs, AccountsInv, OneAccountPerSub, Columns
<1>2. CASE Adds
  <2>1. PICK a, row : /\ accounts' = Add(accounts, a, row)
                      /\ Columns(row)
                      /\ row.sub = NoSub \/ SubIsFree(row.sub)
    BY <1>2 DEF Adds
  <2>2. /\ DOMAIN accounts' = DOMAIN accounts \cup {a}
        /\ \A b \in DOMAIN accounts' : accounts'[b] = IF b = a THEN row ELSE accounts[b]
    BY <2>1 DEF Add
  <2>3. \A b \in DOMAIN accounts' : Columns(accounts'[b])
    BY <2>1, <2>2 DEF AccountsInv
  <2>4. OneAccountPerSub'
    BY <2>1, <2>2 DEF AccountsInv, OneAccountPerSub, SubIsFree
  <2>5. QED
    BY <2>3, <2>4 DEF AccountsInv, Columns
<1>3. QED
  BY <1>1, <1>2, AccountsMove

(* A person of the identity provider has one account, however logins,      *)
(* restarts between the two statements of a login, and administration      *)
(* interleave (oidc.py:184-208).                                           *)
THEOREM OneAccountEach == AccountsSpec => []OneAccountPerSub
<1>1. AccountsInv /\ [AccountsNext]_accountVars => AccountsInv'
  BY AccountsStep
<1>2. AccountsInv => OneAccountPerSub
  BY DEF AccountsInv
<1>3. QED
  BY AccountsStart, <1>1, <1>2, PTL DEF AccountsSpec

-----------------------------------------------------------------------------
(* Hosted agents.  The key an agent presents is in accounts.db before it is *)
(* in the agent's row, and a key is made once: it was no other agent's.     *)
AgentsSpec == AgentsInit /\ [][AgentsNext]_agentVars

AgentColumns(row) ==
    row = [status |-> row.status, policy |-> row.policy, template |-> row.template,
           key |-> row.key, legacy |-> row.legacy]

AgentsInv ==
    /\ \A a \in DOMAIN agents : AgentColumns(agents[a])
    /\ KeyIsKnown

\* The ways in which a step writes rows and keys: a row with the key it had or
\* none, no row losing its key; and a new key, of one agent.
KeepsKeys ==
    /\ \A a \in DOMAIN agents' :
          /\ AgentColumns(agents'[a])
          /\ agents'[a].key # NoKey => a \in DOMAIN agents /\ agents'[a].key = agents[a].key
    /\ DOMAIN agentKeys' = DOMAIN agentKeys
    /\ \A k \in DOMAIN agentKeys : agentKeys'[k].owner = agentKeys[k].owner

IssuesKey ==
    \E a, k :
        /\ k \notin DOMAIN agentKeys
        /\ DOMAIN agentKeys' = DOMAIN agentKeys \cup {k}
        /\ \A j \in DOMAIN agentKeys : agentKeys'[j] = agentKeys[j]
        /\ agentKeys'[k].owner = a
        /\ \A b \in DOMAIN agents' :
              /\ AgentColumns(agents'[b])
              /\ \/ agents'[b].key = NoKey
                 \/ b \in DOMAIN agents /\ agents'[b].key = agents[b].key
                 \/ b = a /\ agents'[b].key = k

LEMMA KeyIsAdded ==
    ASSUME NEW a, NEW k, k \notin DOMAIN agentKeys, NEW whole, agentKeys' = KeysWith(a, k, whole)
    PROVE  /\ DOMAIN agentKeys' = DOMAIN agentKeys \cup {k}
           /\ \A j \in DOMAIN agentKeys : agentKeys'[j] = agentKeys[j]
           /\ agentKeys'[k].owner = a
BY DEF KeysWith, FirstWrite

\* The key is put in a row that may have just been made.
LEMMA KeyIsWritten ==
    ASSUME NEW rows, NEW a \in DOMAIN rows, NEW k, NEW whole \in BOOLEAN,
           \A b \in DOMAIN rows : AgentColumns(rows[b])
    PROVE  /\ DOMAIN AgentsWith(rows, a, k, whole) = DOMAIN rows
           /\ \A b \in DOMAIN rows : AgentColumns(AgentsWith(rows, a, k, whole)[b])
           /\ \A b \in DOMAIN rows : b # a => AgentsWith(rows, a, k, whole)[b] = rows[b]
           /\ AgentsWith(rows, a, k, whole)[a].key \in {rows[a].key, k}
<1>1. CASE AgentsWith(rows, a, k, whole) = rows
  BY <1>1
<1>2. CASE AgentsWith(rows, a, k, whole) = [rows EXCEPT ![a].key = k]
  <2>1. rows[a] = [status |-> rows[a].status, policy |-> rows[a].policy, template |-> rows[a].template,
                   key |-> rows[a].key, legacy |-> rows[a].legacy]
    BY DEF AgentColumns
  <2>2. [rows[a] EXCEPT !.key = k]
          = [status |-> rows[a].status, policy |-> rows[a].policy, template |-> rows[a].template,
             key |-> k, legacy |-> rows[a].legacy]
    BY <2>1
  <2>3. AgentsWith(rows, a, k, whole)[a] = [rows[a] EXCEPT !.key = k]
    BY <1>2
  <2>4. QED
    BY <1>2, <2>2, <2>3 DEF AgentColumns
<1>3. QED
  BY <1>1, <1>2 DEF AgentsWith, FirstWrite

LEMMA CreateAgentMoves ==
    ASSUME AgentsInv, NEW a \in AgentIds, NEW p, NEW policy, NEW t, NEW steps \in 1 .. 5,
           CreateAgent(a, p, policy, t, steps)
    PROVE  KeepsKeys \/ IssuesKey
<1> DEFINE rows == [b \in DOMAIN agents \cup {a} |-> IF b = a THEN AgentRow(policy, t) ELSE agents[b]]
<1>1. /\ a \notin DOMAIN agents
      /\ DOMAIN rows = DOMAIN agents \cup {a}
      /\ \A b \in DOMAIN agents : rows[b] = agents[b]
      /\ rows[a] = AgentRow(policy, t)
  BY DEF CreateAgent
<1>2. \A b \in DOMAIN rows : AgentColumns(rows[b])
  BY <1>1 DEF AgentsInv, AgentColumns, AgentRow
<1>3. rows[a].key = NoKey
  BY <1>1 DEF AgentRow
<1>4. CASE ~ steps > 3
  <2>1. agents' = rows /\ agentKeys' = agentKeys
    BY <1>4 DEF CreateAgent
  <2> HIDE DEF rows
  <2>2. QED
    BY <2>1, <1>1, <1>2, <1>3 DEF KeepsKeys
<1>5. CASE steps > 3
  <2>1. PICK k \in FreshKeys :
           /\ agentKeys' = KeysWith(a, k, steps = 5)
           /\ agents' = AgentsWith(rows, a, k, steps = 5)
    BY <1>5 DEF CreateAgent
  <2>2. k \notin DOMAIN agentKeys
    BY DEF FreshKeys
  <2> HIDE DEF rows
  <2>3. /\ DOMAIN agentKeys' = DOMAIN agentKeys \cup {k}
        /\ \A j \in DOMAIN agentKeys : agentKeys'[j] = agentKeys[j]
        /\ agentKeys'[k].owner = a
    BY <2>1, <2>2, KeyIsAdded
  <2>4. /\ DOMAIN agents' = DOMAIN rows
        /\ \A b \in DOMAIN rows : AgentColumns(agents'[b])
        /\ \A b \in DOMAIN rows : b # a => agents'[b] = rows[b]
        /\ agents'[a].key \in {rows[a].key, k}
    <3> DEFINE whole == steps = 5
    <3>1. a \in DOMAIN rows /\ whole \in BOOLEAN /\ agents' = AgentsWith(rows, a, k, whole)
      BY <1>1, <2>1
    <3> HIDE DEF whole
    <3>2. QED
      BY <3>1, <1>2, KeyIsWritten
  <2>5. QED
    BY <2>2, <2>3, <2>4, <1>1, <1>3 DEF IssuesKey
<1>6. QED
  BY <1>4, <1>5

LEMMA GetAgentKeyMoves ==
    ASSUME AgentsInv, NEW a \in AgentIds, NEW whole \in BOOLEAN, GetAgentKey(a, whole)
    PROVE  IssuesKey
<1>1. PICK k \in FreshKeys : agentKeys' = KeysWith(a, k, whole) /\ agents' = AgentsWith(agents, a, k, whole)
  BY DEF GetAgentKey
<1>2. a \in DOMAIN agents /\ agents[a].key = NoKey /\ k \notin DOMAIN agentKeys
  BY DEF GetAgentKey, FreshKeys
<1>3. /\ DOMAIN agentKeys' = DOMAIN agentKeys \cup {k}
      /\ \A j \in DOMAIN agentKeys : agentKeys'[j] = agentKeys[j]
      /\ agentKeys'[k].owner = a
  BY <1>1, <1>2, KeyIsAdded
<1>4. /\ DOMAIN agents' = DOMAIN agents
      /\ \A b \in DOMAIN agents : AgentColumns(agents'[b])
      /\ \A b \in DOMAIN agents : b # a => agents'[b] = agents[b]
      /\ agents'[a].key \in {agents[a].key, k}
  BY <1>1, <1>2, KeyIsWritten DEF AgentsInv
<1>5. QED
  BY <1>2, <1>3, <1>4 DEF IssuesKey

LEMMA UpdateAgentMoves ==
    ASSUME AgentsInv, NEW who, NEW a \in AgentIds, NEW status, NEW policy,
           UpdateAgent(who, a, status, policy)
    PROVE  KeepsKeys
<1>1. /\ a \in DOMAIN agents
      /\ agentKeys' = agentKeys
      /\ DOMAIN agents' = DOMAIN agents
      /\ \A b \in DOMAIN agents : b # a => agents'[b] = agents[b]
      /\ agents'[a] = [[agents[a] EXCEPT !.status = status] EXCEPT !.policy = policy]
  BY DEF UpdateAgent, CanAccess
<1>2. agents[a] = [status |-> agents[a].status, policy |-> agents[a].policy,
                   template |-> agents[a].template, key |-> agents[a].key, legacy |-> agents[a].legacy]
  BY <1>1 DEF AgentsInv, AgentColumns
<1>3. agents'[a] = [status |-> status, policy |-> policy, template |-> agents[a].template,
                    key |-> agents[a].key, legacy |-> agents[a].legacy]
  BY <1>1, <1>2
<1>4. QED
  BY <1>1, <1>3 DEF KeepsKeys, AgentsInv, AgentColumns

LEMMA AgentsMove ==
    ASSUME AgentsInv, [AgentsNext]_agentVars
    PROVE  KeepsKeys \/ IssuesKey
<1>1. CASE agents' = agents /\ agentKeys' = agentKeys
  BY <1>1 DEF KeepsKeys, AgentsInv
<1>2. ASSUME NEW k, RevokeAgentKey(k)
      PROVE  KeepsKeys
  <2>1. /\ agents' = agents
        /\ k \in DOMAIN agentKeys
        /\ agentKeys' = [agentKeys EXCEPT ![k].live = FALSE]
    BY <1>2 DEF RevokeAgentKey
  <2>2. \A j \in DOMAIN agentKeys : agentKeys'[j].owner = agentKeys[j].owner
    BY <2>1
  <2>3. QED
    BY <2>1, <2>2 DEF KeepsKeys, AgentsInv
<1>3. ASSUME NEW a \in AgentIds, NEW p \in People, NEW policy, NEW t, NEW steps \in 1 .. 5,
             CreateAgent(a, p, policy, t, steps)
      PROVE  KeepsKeys \/ IssuesKey
  BY <1>3, CreateAgentMoves
<1>4. ASSUME NEW a \in AgentIds, NEW whole \in BOOLEAN, GetAgentKey(a, whole)
      PROVE  IssuesKey
  BY <1>4, GetAgentKeyMoves
<1>5. ASSUME NEW who, NEW a \in AgentIds, NEW status, NEW policy, UpdateAgent(who, a, status, policy)
      PROVE  KeepsKeys
  BY <1>5, UpdateAgentMoves
<1>6. CASE UNCHANGED agentVars
  BY <1>1, <1>6 DEF agentVars
<1>7. CASE \E a \in AgentIds :
              \/ \E p \in People :
                    \/ BindAccount(a, p) \/ UnbindAccount(a, p)
                    \/ \E policy \in {"all", "routes_only"},
                          t \in {NoTemplate} \cup Builtins \cup TemplateIds, steps \in 1 .. 5 :
                          CreateAgent(a, p, policy, t, steps)
              \/ \E whole \in BOOLEAN :
                    \/ GetAgentKey(a, whole)
                    \/ \E who \in People \cup {Admin}, text \in Texts : SaveProfile(who, a, text, whole)
              \/ \E who \in People \cup {Admin}, s \in {"active", "archived", "deleted"},
                    policy \in {"all", "routes_only"} : UpdateAgent(who, a, s, policy)
  <2>1. PICK a \in AgentIds :
              \/ \E p \in People :
                    \/ BindAccount(a, p) \/ UnbindAccount(a, p)
                    \/ \E policy \in {"all", "routes_only"},
                          t \in {NoTemplate} \cup Builtins \cup TemplateIds, steps \in 1 .. 5 :
                          CreateAgent(a, p, policy, t, steps)
              \/ \E whole \in BOOLEAN :
                    \/ GetAgentKey(a, whole)
                    \/ \E who \in People \cup {Admin}, text \in Texts : SaveProfile(who, a, text, whole)
              \/ \E who \in People \cup {Admin}, s \in {"active", "archived", "deleted"},
                    policy \in {"all", "routes_only"} : UpdateAgent(who, a, s, policy)
    BY <1>7
  <2>2. QED
    BY <1>1, <1>3, <1>4, <1>5, <2>1 DEF BindAccount, UnbindAccount, SaveProfile
<1>11. CASE \E k \in AgentKeyIds : RevokeAgentKey(k)
  BY <1>2, <1>11
<1>8. CASE \E t \in TemplateIds \cup Builtins :
              \/ DeleteTemplate(t)
              \/ \E A \in SUBSET AgentIds : SyncTemplate(t, A)
              \/ \E text \in Texts, c \in {"department", "personal"} : UpdateTemplate(t, text, c)
  BY <1>1, <1>8 DEF DeleteTemplate, SyncTemplate, UpdateTemplate
<1>9. CASE \/ \E t \in TemplateIds, text \in Texts : CreateTemplate(t, text)
           \/ ListTemplates
           \/ AgentsRestart
  BY <1>1, <1>9 DEF CreateTemplate, ListTemplates, AgentsRestart
<1>10. QED
  BY <1>6, <1>7, <1>8, <1>9, <1>11, Zenon DEF AgentsNext

LEMMA AgentsStart == AgentsInit => AgentsInv
<1> SUFFICES ASSUME AgentsInit
             PROVE  AgentsInv
  OBVIOUS
<1> DEFINE row == [status |-> "active", policy |-> "all", template |-> NoTemplate, key |-> NoKey,
                   legacy |-> TRUE]
<1> DEFINE off == FALSE
           on == TRUE
<1> HIDE DEF off, on
<1>1. [[status |-> "active", policy |-> "all", template |-> NoTemplate, key |-> NoKey, legacy |-> off]
          EXCEPT !.legacy = on]
        = [status |-> "active", policy |-> "all", template |-> NoTemplate, key |-> NoKey, legacy |-> on]
  OBVIOUS
<1>3. [AgentRow("all", NoTemplate) EXCEPT !.legacy = TRUE] = row
  BY <1>1, Zenon DEF on, off, AgentRow
<1>2. agents = [a \in LegacyAgents |-> row]
  BY <1>3 DEF AgentsInit
<1>4. QED
  BY <1>2 DEF AgentsInv, AgentColumns, KeyIsKnown

LEMMA AgentsStep ==
    ASSUME AgentsInv, [AgentsNext]_agentVars
    PROVE  AgentsInv'
<1>1. CASE KeepsKeys
  BY <1>1 DEF KeepsKeys, AgentsInv, KeyIsKnown, AgentColumns
<1>2. CASE IssuesKey
  BY <1>2 DEF IssuesKey, AgentsInv, KeyIsKnown, AgentColumns
<1>3. QED
  BY <1>1, <1>2, AgentsMove

(* Wherever the process stops between the writes to the two databases, the *)
(* key an agent presents was issued to it (agents.py:132-147, 244-250).    *)
THEOREM AgentsKeysAreKnown == AgentsSpec => []KeyIsKnown
<1>1. AgentsInv /\ [AgentsNext]_agentVars => AgentsInv'
  BY AgentsStep
<1>2. AgentsInv => KeyIsKnown
  BY DEF AgentsInv
<1>3. QED
  BY AgentsStart, <1>1, <1>2, PTL DEF AgentsSpec

-----------------------------------------------------------------------------
(* The gateway.  What a request has sent tells what its client may have    *)
(* heard: nothing while no text was sent, and then only the attempt that   *)
(* is open.                                                                *)
GatewaySpec == GatewayInit /\ [][GatewayNext]_gatewayVars

Columns4 == {"at", "attempts", "content", "lines"}

\* A request that is c, whose client heard text of the attempts h.
ToldOf(c, h) ==
    \/ c.at = "idle" /\ h = {}
    \/ /\ c.at \in {"next", "sent", "stream"}
       /\ Columns4 \subseteq DOMAIN c
       /\ c.content \in BOOLEAN /\ c.lines \in BOOLEAN
       /\ c.at # "stream" => ~c.content
       /\ ~c.lines => ~c.content
       /\ ~c.content => h = {}
       /\ h \subseteq {c.attempts}
    \/ c.at = "done" /\ \E n : h \subseteq {n}

GatewayInv ==
    /\ DOMAIN call = Requests /\ DOMAIN heard = Requests
    /\ \A r \in Requests : ToldOf(call[r], heard[r])

LEMMA ToldOfOne ==
    ASSUME NEW c, NEW h, ToldOf(c, h)
    PROVE  \E n : h \subseteq {n}
<1>1. CASE h = {}
  <2>1. h \subseteq {0}
    BY <1>1
  <2>2. QED
    BY <2>1
<1>2. CASE h \subseteq {c.attempts}
  BY <1>2
<1>3. CASE \E n : h \subseteq {n}
  BY <1>3
<1>4. QED
  BY <1>1, <1>2, <1>3 DEF ToldOf

LEMMA DoneKeeps ==
    ASSUME GatewayInv, NEW r \in Requests, call' = [call EXCEPT ![r] = Done], heard' = heard
    PROVE  GatewayInv'
<1>1. \E n : heard[r] \subseteq {n}
  BY ToldOfOne DEF GatewayInv
<1>2. ToldOf(Done, heard[r])
  BY <1>1 DEF ToldOf, Done
<1>3. QED
  BY <1>2 DEF GatewayInv

LEMMA ContinueKeeps ==
    ASSUME GatewayInv, NEW r \in Requests, NEW c, ToldOf(c, heard[r]), Continue(r, c)
    PROVE  GatewayInv'
BY DEF GatewayInv, Continue

\* What is tried again has sent nothing.
LEMMA RetryIsTold ==
    ASSUME NEW c, NEW h, ToldOf(c, h), c.at \in {"sent", "stream"}, ~c.content
    PROVE  ToldOf(Again(c), h) /\ ToldOf(NextHop(c), h)
<1>1. Columns4 \subseteq DOMAIN c /\ h = {} /\ c.content \in BOOLEAN /\ c.lines \in BOOLEAN
  BY DEF ToldOf
<1>2. ToldOf(Again(c), h)
  BY <1>1 DEF ToldOf, Again, Columns4
<1>3. ToldOf(NextHop(c), h)
  BY <1>1 DEF ToldOf, NextHop, Columns4
<1>4. QED
  BY <1>2, <1>3

LEMMA FailureKeeps ==
    ASSUME GatewayInv, NEW r \in Requests, NEW c, ToldOf(c, heard[r]), c.at \in {"sent", "stream"},
           ~c.content, NEW failure, NEW status, AfterFailure(r, c, failure, status)
    PROVE  GatewayInv'
<1>1. ToldOf(Again(c), heard[r]) /\ ToldOf(NextHop(c), heard[r])
  BY RetryIsTold
<1>2. QED
  BY <1>1, ContinueKeeps, DoneKeeps DEF AfterFailure, Finish

LEMMA NextAttemptKeeps ==
    ASSUME GatewayInv, NEW r \in Requests, NextAttempt(r)
    PROVE  GatewayInv'
<1>1. ToldOf(call[r], heard[r]) /\ call[r].at = "next"
  BY DEF GatewayInv, NextAttempt, Active
<1>2. CASE call' = [call EXCEPT ![r] = Done] /\ heard' = heard
  BY <1>2, DoneKeeps
<1>3. CASE /\ call' = [call EXCEPT ![r].at = "sent", ![r].attempts = @ + 1,
                                   ![r].content = FALSE, ![r].lines = FALSE]
           /\ heard' = heard
  <2>1. heard[r] = {} /\ Columns4 \subseteq DOMAIN call[r] /\ r \in DOMAIN call
    BY <1>1 DEF ToldOf, GatewayInv
  <2>2. /\ call'[r].at = "sent"
        /\ call'[r].content = FALSE
        /\ call'[r].lines = FALSE
        /\ Columns4 \subseteq DOMAIN call'[r]
    BY <1>3, <2>1 DEF Columns4
  <2>3. ToldOf(call'[r], heard[r])
    BY <2>1, <2>2 DEF ToldOf
  <2>4. DOMAIN call' = DOMAIN call
    BY <1>3
  <2>5. \A q \in Requests : q # r => call'[q] = call[q]
    BY <1>3 DEF GatewayInv
  <2>6. QED
    BY <1>3, <2>3, <2>4, <2>5 DEF GatewayInv
<1>4. QED
  BY <1>2, <1>3 DEF NextAttempt, Finish, FinishStopped, FinishAllowed

LEMMA PostKeeps ==
    ASSUME GatewayInv, NEW r \in Requests, Post(r)
    PROVE  GatewayInv'
<1>1. ToldOf(call[r], heard[r])
  BY DEF GatewayInv
<1>2. CASE NextAttempt(r)
  BY <1>2, NextAttemptKeeps
<1>3. CASE PostAnswered(r)
  BY <1>3, DoneKeeps DEF PostAnswered, FinishAnswered, FinishAllowed, Finish
<1>4. CASE DeadlinePasses(r)
  <2>1. ToldOf([call[r] EXCEPT !.late = TRUE], heard[r])
    BY <1>1, <1>4 DEF ToldOf, DeadlinePasses, Columns4
  <2>2. QED
    BY <1>4, <2>1, ContinueKeeps DEF DeadlinePasses
<1>5. ASSUME NEW s, PostRefused(r, s)
      PROVE  GatewayInv'
  <2>1. call[r].at = "sent" /\ ~call[r].content
    BY <1>1, <1>5 DEF PostRefused, Active, ToldOf
  <2>2. ToldOf(NextHop(call[r]), heard[r])
    BY <1>1, <2>1, RetryIsTold
  <2>3. QED
    BY <1>1, <1>5, <2>1, <2>2, ContinueKeeps, FailureKeeps DEF PostRefused
<1>6. ASSUME NEW error, Breaks(r, error)
      PROVE  GatewayInv'
  <2>1. call[r].at \in {"sent", "stream"}
    BY <1>6 DEF Breaks
  <2>2. QED
    BY <1>1, <1>6, <2>1, DoneKeeps, FailureKeeps DEF Breaks, Finish
<1>7. QED
  BY <1>2, <1>3, <1>4, <1>5, <1>6 DEF Post

LEMMA PieceKeeps ==
    ASSUME GatewayInv, NEW r \in Requests, call[r].api \in {"chat", "anthropic", "responses"},
           NEW piece, StreamPiece(r, piece)
    PROVE  GatewayInv'
<1> DEFINE sent == Sent(call[r], piece)
<1>1. ToldOf(call[r], heard[r]) /\ call[r].at = "stream" /\ r \in DOMAIN call /\ r \in DOMAIN heard
  BY DEF GatewayInv, StreamPiece, Active
<1>2. /\ Columns4 \subseteq DOMAIN call[r] /\ call[r].content \in BOOLEAN
      /\ ~call[r].content => heard[r] = {}
      /\ heard[r] \subseteq {call[r].attempts}
  BY <1>1 DEF ToldOf
<1>3. /\ sent \in BOOLEAN
      /\ call[r].content => sent
      /\ piece = "text" => sent
  BY <1>2 DEF Sent, ChatSent, AnthropicSent, ResponsesSent
<1> HIDE DEF sent
<1>4. /\ call' = [call EXCEPT ![r].content = sent, ![r].lines = TRUE]
      /\ heard' = IF piece = "text" THEN [heard EXCEPT ![r] = @ \cup {call[r].attempts}] ELSE heard
  BY DEF StreamPiece, sent
<1>5. /\ call'[r].at = "stream"
      /\ call'[r].attempts = call[r].attempts
      /\ call'[r].content = sent
      /\ call'[r].lines = TRUE
      /\ Columns4 \subseteq DOMAIN call'[r]
  BY <1>1, <1>2, <1>4 DEF Columns4
<1>6. heard'[r] = IF piece = "text" THEN heard[r] \cup {call[r].attempts} ELSE heard[r]
  BY <1>1, <1>4
<1>7. ToldOf(call'[r], heard'[r])
  BY <1>2, <1>3, <1>5, <1>6 DEF ToldOf
<1>8. DOMAIN call' = DOMAIN call /\ DOMAIN heard' = DOMAIN heard
  BY <1>4
<1>9. \A q \in Requests : q # r => call'[q] = call[q]
  BY <1>4 DEF GatewayInv
<1>10. \A q \in Requests : q # r => heard'[q] = heard[q]
  BY <1>4 DEF GatewayInv
<1>11. QED
  BY <1>7, <1>8, <1>9, <1>10 DEF GatewayInv

LEMMA StreamKeeps ==
    ASSUME GatewayInv, NEW r \in Requests, call[r].api \in {"chat", "anthropic", "responses"}, Stream(r)
    PROVE  GatewayInv'
<1>1. ToldOf(call[r], heard[r])
  BY DEF GatewayInv
<1>2. CASE NextAttempt(r)
  BY <1>2, NextAttemptKeeps
<1>3. CASE StreamOpens(r)
  <2>1. /\ Columns4 \subseteq DOMAIN call[r] /\ heard[r] = {}
        /\ call[r].content \in BOOLEAN /\ call[r].lines \in BOOLEAN /\ ~call[r].content
    BY <1>1, <1>3 DEF StreamOpens, Active, ToldOf
  <2>2. ToldOf([call[r] EXCEPT !.at = "stream", !.status = "200"], heard[r])
    BY <2>1 DEF ToldOf, Columns4
  <2>3. QED
    BY <1>3, <2>2, ContinueKeeps DEF StreamOpens
<1>4. CASE DeadlinePasses(r)
  <2>1. ToldOf([call[r] EXCEPT !.late = TRUE], heard[r])
    BY <1>1, <1>4 DEF ToldOf, DeadlinePasses, Columns4
  <2>2. QED
    BY <1>4, <2>1, ContinueKeeps DEF DeadlinePasses
<1>5. CASE ClientLeaves(r)
  BY <1>5, DoneKeeps DEF ClientLeaves, FinishStopped, FinishAllowed, Finish
<1>6. ASSUME NEW s, StreamRefused(r, s)
      PROVE  GatewayInv'
  <2> DEFINE c == [call[r] EXCEPT !.status = s]
  <2>1. call[r].at = "sent"
    BY <1>6 DEF StreamRefused, Active
  <2>2. ToldOf(c, heard[r]) /\ c.at = "sent" /\ ~c.content
    BY <1>1, <2>1 DEF ToldOf, Columns4
  <2>3. AfterFailure(r, c, s, s)
    BY <1>6 DEF StreamRefused
  <2> HIDE DEF c
  <2>4. QED
    BY <2>2, <2>3, FailureKeeps
<1>7. ASSUME NEW piece, StreamPiece(r, piece)
      PROVE  GatewayInv'
  BY <1>7, PieceKeeps
<1>8. CASE ChatStreamEnds(r)
  BY <1>8, DoneKeeps DEF ChatStreamEnds, FinishAnswered, FinishAllowed, Finish
<1>9. CASE ResponsesStreamEnds(r)
  <2>1. call[r].at = "stream"
    BY <1>9 DEF ResponsesStreamEnds, Active
  <2>2. CASE ~call[r].lines
    <3>1. ToldOf(NextHop(call[r]), heard[r])
      BY <1>1, <2>1, <2>2, RetryIsTold DEF ToldOf
    <3>2. QED
      BY <1>9, <2>2, <3>1, ContinueKeeps, DoneKeeps DEF ResponsesStreamEnds, Finish
  <2>3. CASE call[r].lines
    BY <1>9, <2>3, DoneKeeps DEF ResponsesStreamEnds, FinishAnswered, FinishAllowed, Finish
  <2>4. QED
    BY <2>2, <2>3
<1>10. ASSUME NEW error, Breaks(r, error)
       PROVE  GatewayInv'
  <2>1. call[r].at \in {"sent", "stream"}
    BY <1>10 DEF Breaks
  <2>2. QED
    BY <1>1, <1>10, <2>1, DoneKeeps, FailureKeeps DEF Breaks, Finish
<1>11. QED
  BY <1>2, <1>3, <1>4, <1>5, <1>6, <1>7, <1>8, <1>9, <1>10 DEF Stream

LEMMA AdmitKeeps ==
    ASSUME GatewayInv, NEW r \in Requests, NEW kind, NEW chain, Admit(r, kind, chain)
    PROVE  GatewayInv'
<1>1. heard[r] = {}
  BY DEF GatewayInv, ToldOf, Admit
<1>2. ToldOf(NewCall(kind, chain), heard[r])
  BY <1>1 DEF ToldOf, NewCall, Columns4
<1>3. CASE call' = [call EXCEPT ![r] = NewCall(kind, chain)] /\ heard' = heard
  BY <1>2, <1>3 DEF GatewayInv
<1>4. QED
  BY <1>3, DoneKeeps DEF Admit, Finish

LEMMA GatewayStart == GatewayInit => GatewayInv
BY DEF GatewayInit, GatewayInv, ToldOf, Idle

LEMMA GatewayStep ==
    ASSUME GatewayInv, [GatewayNext]_gatewayVars
    PROVE  GatewayInv'
<1>1. CASE call' = call /\ heard' = heard
  BY <1>1 DEF GatewayInv
<1>2. ASSUME NEW r \in Requests, NEW kind, NEW chain, Admit(r, kind, chain)
      PROVE  GatewayInv'
  BY <1>2, AdmitKeeps
<1>3. ASSUME NEW r \in Requests,
             ChatCompletions(r) \/ Responses(r) \/ AnthropicMessages(r)
      PROVE  GatewayInv'
  BY <1>3, PostKeeps DEF ChatCompletions, Responses, AnthropicMessages
<1>4. ASSUME NEW r \in Requests,
             ChatStream(r) \/ ResponsesStream(r) \/ AnthropicStream(r)
      PROVE  GatewayInv'
  BY <1>4, StreamKeeps DEF ChatStream, ResponsesStream, AnthropicStream, Of
<1>5. ASSUME NEW r \in Requests, WindowMoves(r)
      PROVE  GatewayInv'
  BY <1>1, <1>5 DEF WindowMoves
<1>6. CASE GatewayRestart
  <2>1. /\ call' = [r \in Requests |-> IF call[r].at = "idle" THEN Idle ELSE Done]
        /\ heard' = heard
    BY <1>6 DEF GatewayRestart
  <2>2. \A r \in Requests : ToldOf(call'[r], heard[r])
    <3>1. SUFFICES ASSUME NEW r \in Requests
                   PROVE  ToldOf(call'[r], heard[r])
      OBVIOUS
    <3>2. ToldOf(call[r], heard[r])
      BY DEF GatewayInv
    <3>3. CASE call[r].at = "idle"
      BY <2>1, <3>2, <3>3 DEF ToldOf, Idle
    <3>4. CASE call[r].at # "idle"
      <4>1. \E n : heard[r] \subseteq {n}
        BY <3>2, ToldOfOne
      <4>2. QED
        BY <2>1, <3>4, <4>1 DEF ToldOf, Done
    <3>5. QED
      BY <3>3, <3>4
  <2>3. QED
    BY <2>1, <2>2 DEF GatewayInv
<1>7. CASE AdministerRoutes /\ UNCHANGED <<call, log, heard>>
  BY <1>1, <1>7
<1>8. CASE UNCHANGED gatewayVars
  BY <1>1, <1>8 DEF gatewayVars
<1>9. QED
  BY <1>2, <1>3, <1>4, <1>5, <1>6, <1>7, <1>8 DEF GatewayNext, RequestNext

(* Whatever breaks, and whatever the routes become meanwhile, the text a   *)
(* client gets is that of one attempt (gateway.py:518-640).                *)
THEOREM GatewayAnswersOnce == GatewaySpec => []OneAnswer
<1>1. GatewayInv /\ [GatewayNext]_gatewayVars => GatewayInv'
  BY GatewayStep
<1>2. GatewayInv => OneAnswer
  <2>1. SUFFICES ASSUME GatewayInv, NEW r \in Requests
                 PROVE  Cardinality(heard[r]) <= 1
    BY DEF OneAnswer
  <2>2. \E n : heard[r] \subseteq {n}
    BY <2>1, ToldOfOne DEF GatewayInv
  <2>3. PICK n : heard[r] \subseteq {n}
    BY <2>2
  <2>4. heard[r] = {} \/ heard[r] = {n}
    BY <2>3
  <2>5. Cardinality({}) = 0 /\ Cardinality({n}) = 1
    BY FS_EmptySet, FS_Singleton
  <2>6. QED
    BY <2>4, <2>5
<1>3. QED
  BY GatewayStart, <1>1, <1>2, PTL DEF GatewaySpec

-----------------------------------------------------------------------------
(* MCP services.  A loaded handler is recognised by the time of its file.  *)
(* Two files that a service may have had since the handlers were cleared   *)
(* have different times or the same code: only a workspace's file, whose   *)
(* time tells its code, ever replaces one without a clearing.              *)
McpNext == CallNext \/ CatalogNext \/ GrantNext

McpSpec == McpInit /\ [][McpNext]_mcpVars

Unwritten(file) == file.code = 0 /\ file.time = 0

DevFile(file) == Unwritten(file) \/ file.time \in Nat \ {0}

ShopFile(file) == Unwritten(file) \/ (file.code \in Nat \ {0} /\ file.time = -file.code)

FilesOK ==
    /\ DOMAIN dev = Paths /\ DOMAIN shop = Callers /\ DOMAIN prod = Paths \cup Ids
    /\ \A p \in Paths : DevFile(dev[p]) /\ DevFile(prod[p])
    /\ \A a \in Callers : ShopFile(shop[a])
    /\ \A s \in Ids : ShopFile(prod[s])

ServiceColumns == {"status", "source", "path", "dims"}

ServicesOK ==
    /\ DOMAIN services \subseteq Ids
    /\ \A s \in DOMAIN services :
          /\ ServiceColumns \subseteq DOMAIN services[s]
          /\ services[s].path # NoPath => services[s].path \in Paths /\ IdOf[services[s].path] = s

Loaded(s) ==
    handlers[s].code # 0 =>
        /\ s \notin SystemIds =>
              s \in DOMAIN services /\ (DevFile(handlers[s]) \/ ShopFile(handlers[s]))
        /\ handlers[s].time = HandlerFile(s).time => handlers[s].code = HandlerFile(s).code

McpInv ==
    /\ FilesOK
    /\ ServicesOK
    /\ DOMAIN handlers = Ids /\ \A s \in Ids : Loaded(s)
    /\ HandlerIsCurrent

LEMMA FileIsKnown ==
    ASSUME FilesOK, ServicesOK, NEW s \in Ids, s \notin SystemIds
    PROVE  DevFile(HandlerFile(s)) \/ ShopFile(HandlerFile(s))
BY DEF FilesOK, ServicesOK, HandlerFile

LEMMA GetHandlerIsCurrent ==
    ASSUME FilesOK, ServicesOK, NEW s \in Ids, Loaded(s)
    PROVE  /\ GetHandler(s).code = HandlerFile(s).code
           /\ s \notin SystemIds => DevFile(GetHandler(s)) \/ ShopFile(GetHandler(s))
<1>1. CASE GetHandler(s) = HandlerFile(s)
  BY <1>1, FileIsKnown
<1>2. CASE /\ GetHandler(s) = handlers[s]
           /\ handlers[s].code # 0 /\ handlers[s].time = HandlerFile(s).time
  BY <1>2 DEF Loaded
<1>3. QED
  BY <1>1, <1>2 DEF GetHandler

\* What is still loaded is still good when the file is the same, or one that a
\* workspace brought.
LEMMA LoadedKept ==
    ASSUME NEW s, Loaded(s), handlers'[s] = handlers[s], s \in DOMAIN services => s \in DOMAIN services',
           HandlerFile(s)' = HandlerFile(s) \/ (s \notin SystemIds /\ ShopFile(HandlerFile(s)'))
    PROVE  Loaded(s)'
<1>1. SUFFICES ASSUME handlers[s].code # 0
               PROVE  Loaded(s)'
  BY DEF Loaded
<1>2. s \notin SystemIds => s \in DOMAIN services' /\ (DevFile(handlers'[s]) \/ ShopFile(handlers'[s]))
  BY <1>1 DEF Loaded
<1>3. CASE HandlerFile(s)' = HandlerFile(s)
  BY <1>1, <1>2, <1>3 DEF Loaded, DevFile, ShopFile, Unwritten
<1>4. CASE s \notin SystemIds /\ ShopFile(HandlerFile(s)')
  <2>1. handlers[s].time = HandlerFile(s)'.time => handlers[s].code = HandlerFile(s)'.code
    BY <1>1, <1>2, <1>4 DEF DevFile, ShopFile, Unwritten
  <2>2. QED
    BY <1>2, <1>4, <2>1 DEF Loaded, DevFile, ShopFile, Unwritten
<1>5. QED
  BY <1>3, <1>4

LEMMA NothingIsLoaded ==
    ASSUME NEW s \in Ids, handlers'[s] = NoFile
    PROVE  Loaded(s)'
BY DEF Loaded, NoFile

LEMMA StopKeeps ==
    ASSUME FilesOK', ServicesOK', ran' = ran, HandlerIsCurrent, ProcessStops
    PROVE  McpInv'
<1>1. DOMAIN handlers' = Ids /\ \A s \in Ids : handlers'[s] = NoFile
  BY DEF ProcessStops, Nothing
<1>2. HandlerIsCurrent'
  BY DEF HandlerIsCurrent
<1>3. QED
  BY <1>1, <1>2, NothingIsLoaded DEF McpInv

\* Most steps: a handler that stays loaded has its file.
LEMMA FilesStay ==
    ASSUME McpInv, FilesOK', ServicesOK', ran' = ran, DOMAIN handlers' = Ids,
           \A s \in Ids :
              \/ handlers'[s] = NoFile
              \/ /\ handlers'[s] = handlers[s]
                 /\ s \in DOMAIN services => s \in DOMAIN services'
                 /\ HandlerFile(s)' = HandlerFile(s) \/ (s \notin SystemIds /\ ShopFile(HandlerFile(s)'))
    PROVE  McpInv'
<1>1. \A s \in Ids : Loaded(s)'
  BY LoadedKept, NothingIsLoaded DEF McpInv
<1>2. HandlerIsCurrent'
  BY DEF McpInv, HandlerIsCurrent
<1>3. QED
  BY <1>1, <1>2 DEF McpInv

LEMMA McpStart == McpConstants /\ McpInit => McpInv
<1> SUFFICES ASSUME McpConstants, McpInit
             PROVE  McpInv
  OBVIOUS
<1>1. Min(Times) \in Nat \ {0}
  <2>1. \E n \in Times : \A m \in Times : n <= m
    BY LeastNat DEF McpConstants
  <2>2. Min(Times) \in Times
    BY <2>1 DEF Min
  <2>3. QED
    BY <2>2 DEF McpConstants
<1>2. DevFile(ReviewedFile) /\ DevFile(NoFile) /\ ShopFile(NoFile)
  BY <1>1 DEF DevFile, ShopFile, Unwritten, ReviewedFile, NoFile
<1>3. FilesOK
  BY <1>2 DEF McpInit, McpConstants, FilesOK
<1>4. ServicesOK
  <2>1. DOMAIN services = SystemIds \cup {IdOf[p] : p \in Approved}
    BY DEF McpInit
  <2>2. ASSUME NEW s \in DOMAIN services
        PROVE  /\ ServiceColumns \subseteq DOMAIN services[s]
               /\ services[s].path # NoPath => services[s].path \in Paths /\ IdOf[services[s].path] = s
    <3>1. CASE s \in SystemIds
      BY <2>1, <3>1 DEF McpInit, Row, ServiceColumns
    <3>2. CASE s \notin SystemIds
      <4> DEFINE p == CHOOSE p \in Approved : IdOf[p] = s
      <4>1. p \in Approved /\ IdOf[p] = s
        BY <2>1, <3>2
      <4>2. services[s] = Row("online", "internal", p, Dims)
        BY <2>1, <3>2 DEF McpInit
      <4> HIDE DEF p
      <4>3. QED
        BY <4>1, <4>2 DEF Row, ServiceColumns, McpConstants
    <3>3. QED
      BY <3>1, <3>2
  <2>3. QED
    BY <2>1, <2>2 DEF ServicesOK, Ids, McpConstants
<1>5. DOMAIN handlers = Ids /\ \A s \in Ids : Loaded(s)
  BY DEF McpInit, Loaded, NoFile
<1>6. HandlerIsCurrent
  BY DEF McpInit, HandlerIsCurrent
<1>7. QED
  BY <1>3, <1>4, <1>5, <1>6 DEF McpInv

\* A step that leaves the services, the files in production and what is loaded.
LEMMA UntouchedKeeps ==
    ASSUME McpInv, FilesOK', services' = services, prod' = prod, handlers' = handlers, ran' = ran
    PROVE  McpInv'
<1>1. ServicesOK'
  BY DEF McpInv, ServicesOK
<1>2. \A s \in Ids : HandlerFile(s)' = HandlerFile(s)
  BY DEF HandlerFile
<1>3. QED
  BY <1>1, <1>2, FilesStay DEF McpInv

LEMMA CallKeeps ==
    ASSUME McpInv, NEW a, NEW s \in Ids, CallMcp(a, s)
    PROVE  McpInv'
<1>1. /\ handlers' = [handlers EXCEPT ![s] = GetHandler(s)]
      /\ ran' = [code |-> GetHandler(s).code, onDisk |-> HandlerFile(s).code]
      /\ services' = services /\ dev' = dev /\ shop' = shop /\ prod' = prod
  BY DEF CallMcp, Runs
<1>2. s \in DOMAIN services
  BY DEF CallMcp, MayCall, ListPoliciesForAgent, Online
<1>3. /\ GetHandler(s).code = HandlerFile(s).code
      /\ s \notin SystemIds => DevFile(GetHandler(s)) \/ ShopFile(GetHandler(s))
  BY GetHandlerIsCurrent DEF McpInv
<1>4. FilesOK' /\ ServicesOK'
  BY <1>1 DEF McpInv, FilesOK, ServicesOK
<1>5. \A t : HandlerFile(t)' = HandlerFile(t)
  BY <1>1 DEF HandlerFile
<1>6. \A t \in Ids : Loaded(t)'
  BY <1>1, <1>2, <1>3, <1>5 DEF McpInv, Loaded
<1>7. HandlerIsCurrent'
  BY <1>1, <1>3 DEF HandlerIsCurrent
<1>8. QED
  BY <1>1, <1>4, <1>6, <1>7 DEF McpInv

LEMMA SubmitKeeps ==
    ASSUME McpInv, McpConstants, NEW a, NEW p \in Paths, NEW whole \in BOOLEAN, Submit(a, p, whole)
    PROVE  McpInv'
<1>1. dev' = dev /\ shop' = shop /\ prod' = prod /\ ran' = ran
  BY DEF Submit
<1>2. \/ services' = services
      \/ /\ IdOf[p] \notin DOMAIN services
         /\ services' = WithRow(IdOf[p], Row("pending", "internal", p, dev[p].dims))
  BY DEF Submit
<1>3. IdOf[p] \in Ids
  BY DEF Ids
<1>4. /\ ServicesOK'
      /\ \A t \in DOMAIN services : t \in DOMAIN services' /\ services'[t] = services[t]
  BY <1>2, <1>3 DEF McpInv, ServicesOK, WithRow, Row, ServiceColumns
<1>5. FilesOK'
  BY <1>1 DEF McpInv, FilesOK
<1>6. CASE ProcessStops
  BY <1>1, <1>4, <1>5, <1>6, StopKeeps DEF McpInv
<1>7. CASE handlers' = [handlers EXCEPT ![Deployer] = GetHandler(Deployer)]
  <2>1. Deployer \in Ids /\ Deployer \in DOMAIN services
    BY DEF Submit, MayCall, ListPoliciesForAgent, Online
  <2>2. /\ GetHandler(Deployer).code = HandlerFile(Deployer).code
        /\ Deployer \notin SystemIds => DevFile(GetHandler(Deployer)) \/ ShopFile(GetHandler(Deployer))
    BY <2>1, GetHandlerIsCurrent DEF McpInv
  <2>3. \A t \in DOMAIN services : HandlerFile(t)' = HandlerFile(t)
    BY <1>1, <1>4 DEF HandlerFile
  <2>4. ASSUME NEW t \in Ids
        PROVE  Loaded(t)'
    <3>1. CASE t = Deployer
      BY <1>4, <1>7, <2>1, <2>2, <2>3, <3>1 DEF McpInv, Loaded
    <3>2. CASE t # Deployer
      <4>1. handlers'[t] = handlers[t]
        BY <1>7, <3>2 DEF McpInv
      <4>2. CASE t \in DOMAIN services
        BY <1>4, <2>3, <4>1, <4>2, LoadedKept DEF McpInv
      <4>3. CASE t \in SystemIds
        <5>1. HandlerFile(t)' = HandlerFile(t)
          BY <4>3 DEF HandlerFile
        <5>2. QED
          BY <1>4, <4>1, <5>1, LoadedKept DEF McpInv
      <4>4. CASE t \notin SystemIds /\ t \notin DOMAIN services
        BY <4>1, <4>4 DEF McpInv, Loaded
      <4>5. QED
        BY <4>2, <4>3, <4>4
    <3>3. QED
      BY <3>1, <3>2
  <2>5. HandlerIsCurrent'
    BY <1>1 DEF McpInv, HandlerIsCurrent
  <2>6. QED
    BY <1>4, <1>5, <1>7, <2>4, <2>5 DEF McpInv
<1>8. QED
  BY <1>6, <1>7 DEF Submit

\* The rows of the services keep their paths.
SamePaths ==
    /\ DOMAIN services' = DOMAIN services
    /\ \A t \in DOMAIN services :
          ServiceColumns \subseteq DOMAIN services'[t] /\ services'[t].path = services[t].path

LEMMA SamePathsKeep ==
    ASSUME ServicesOK, SamePaths
    PROVE  ServicesOK'
BY DEF ServicesOK, SamePaths

LEMMA ApproveKeeps ==
    ASSUME McpInv, McpConstants, NEW s \in Ids, NEW steps, Approve(s, steps)
    PROVE  McpInv'
<1> DEFINE path == services[s].path
<1>1. /\ s \in DOMAIN services /\ path # NoPath
      /\ prod' = [prod EXCEPT ![path] = dev[path]]
      /\ dev' = dev /\ shop' = shop /\ ran' = ran
  BY DEF Approve
<1>2. path \in Paths /\ IdOf[path] = s
  BY <1>1 DEF McpInv, ServicesOK
<1>3. FilesOK'
  BY <1>1, <1>2 DEF McpInv, FilesOK, McpConstants
<1>4. SamePaths
  <2>1. CASE services' = services
    BY <2>1 DEF SamePaths, McpInv, ServicesOK
  <2>2. ASSUME NEW v, services' = [services EXCEPT ![s].status = "online",
                                                   ![s].dims = IF v = 0 THEN @ ELSE reviews[v].dims]
        PROVE  SamePaths
    <3>1. ServiceColumns \subseteq DOMAIN services[s]
      BY <1>1 DEF McpInv, ServicesOK
    <3>2. DOMAIN services' = DOMAIN services
      BY <2>2
    <3>3. \A t \in DOMAIN services : t # s => services'[t] = services[t]
      BY <2>2
    <3>4. ServiceColumns \subseteq DOMAIN services'[s] /\ services'[s].path = services[s].path
      BY <1>1, <2>2, <3>1 DEF ServiceColumns
    <3>5. QED
      BY <3>2, <3>3, <3>4 DEF SamePaths, McpInv, ServicesOK
  <2>3. QED
    BY <2>1, <2>2 DEF Approve
<1>5. ServicesOK'
  BY <1>4, SamePathsKeep DEF McpInv
<1>6. CASE ProcessStops
  BY <1>1, <1>3, <1>5, <1>6, StopKeeps DEF McpInv
<1>7. CASE ClearHandlerCache(s)
  <2>1. handlers' = [handlers EXCEPT ![s] = NoFile]
    BY <1>7 DEF ClearHandlerCache
  <2>2. ASSUME NEW t \in Ids, t # s
        PROVE  HandlerFile(t)' = HandlerFile(t)
    <3>1. CASE t \in SystemIds
      BY <3>1 DEF HandlerFile
    <3>2. CASE t \notin SystemIds /\ t \in DOMAIN services /\ services[t].path # NoPath
      <4>1. services[t].path \in Paths /\ services[t].path # path
        BY <1>2, <2>2, <3>2 DEF McpInv, ServicesOK
      <4>2. prod'[services[t].path] = prod[services[t].path]
        BY <1>1, <4>1 DEF McpInv, FilesOK
      <4>3. QED
        BY <1>4, <3>2, <4>2 DEF HandlerFile, SamePaths
    <3>3. CASE t \notin SystemIds /\ ~ (t \in DOMAIN services /\ services[t].path # NoPath)
      <4>1. prod'[t] = prod[t]
        BY <1>1, <1>2 DEF McpInv, FilesOK, McpConstants
      <4>2. QED
        BY <1>4, <3>3, <4>1 DEF HandlerFile, SamePaths
    <3>4. QED
      BY <3>1, <3>2, <3>3
  <2>3. \A t \in Ids : \/ handlers'[t] = NoFile
                       \/ handlers'[t] = handlers[t] /\ t # s
    BY <2>1 DEF McpInv
  <2>4. DOMAIN handlers' = Ids
    BY <2>1 DEF McpInv
  <2>5. QED
    BY <1>1, <1>3, <1>4, <1>5, <2>2, <2>3, <2>4, FilesStay DEF SamePaths
<1>8. QED
  BY <1>6, <1>7 DEF Approve

\* The rows change, the files and what is loaded do not.
LEMMA RowsKeep ==
    ASSUME McpInv, SamePaths, FilesOK', prod' = prod, ran' = ran, handlers' = handlers \/ ProcessStops
    PROVE  McpInv'
<1>1. ServicesOK'
  BY SamePathsKeep DEF McpInv
<1>2. CASE ProcessStops
  BY <1>1, <1>2, StopKeeps DEF McpInv
<1>3. CASE handlers' = handlers
  <2>1. \A t \in Ids : HandlerFile(t)' = HandlerFile(t)
    BY DEF HandlerFile, SamePaths
  <2>2. QED
    BY <1>1, <1>3, <2>1, FilesStay DEF McpInv, SamePaths
<1>4. QED
  BY <1>2, <1>3

LEMMA RejectKeeps ==
    ASSUME McpInv, NEW s \in Ids, NEW whole, Reject(s, whole)
    PROVE  McpInv'
<1>1. /\ s \in DOMAIN services
      /\ dev' = dev /\ shop' = shop /\ prod' = prod /\ ran' = ran
      /\ handlers' = handlers \/ ProcessStops
  BY DEF Reject
<1>2. services' = services \/ services' = [services EXCEPT ![s].status = "offline"]
  BY DEF Reject
<1>3. SamePaths
  BY <1>2 DEF SamePaths, McpInv, ServicesOK, ServiceColumns
<1>4. FilesOK'
  BY <1>1 DEF McpInv, FilesOK
<1>5. QED
  BY <1>1, <1>3, <1>4, RowsKeep

LEMMA UpdateServiceKeeps ==
    ASSUME McpInv, NEW s \in Ids, NEW status, NEW source, UpdateService(s, status, source)
    PROVE  McpInv'
<1>1. /\ s \in DOMAIN services
      /\ dev' = dev /\ shop' = shop /\ prod' = prod /\ ran' = ran /\ handlers' = handlers
      /\ services' = [services EXCEPT ![s].status = status,
                                      ![s].source = IF @ = "system" THEN @ ELSE source]
  BY DEF UpdateService
<1>2. ServiceColumns \subseteq DOMAIN services[s]
  BY <1>1 DEF McpInv, ServicesOK
<1>3. DOMAIN services' = DOMAIN services
  BY <1>1
<1>4. \A t \in DOMAIN services : t # s => services'[t] = services[t]
  BY <1>1
<1>5. ServiceColumns \subseteq DOMAIN services'[s] /\ services'[s].path = services[s].path
  BY <1>1, <1>2 DEF ServiceColumns
<1>6. SamePaths
  BY <1>3, <1>4, <1>5 DEF SamePaths, McpInv, ServicesOK
<1>7. FilesOK'
  BY <1>1 DEF McpInv, FilesOK
<1>8. QED
  BY <1>1, <1>6, <1>7, RowsKeep

LEMMA CreateServiceKeeps ==
    ASSUME McpInv, NEW s \in ExternalIds, NEW source, CreateService(s, source)
    PROVE  McpInv'
<1>1. /\ s \notin DOMAIN services
      /\ services' = WithRow(s, Row("online", source, NoPath, {}))
      /\ dev' = dev /\ shop' = shop /\ prod' = prod /\ ran' = ran /\ handlers' = handlers
  BY DEF CreateService
<1>2. /\ ServicesOK'
      /\ \A t \in DOMAIN services : t \in DOMAIN services' /\ services'[t] = services[t]
  BY <1>1 DEF McpInv, ServicesOK, WithRow, Row, ServiceColumns, Ids
<1>3. services'[s].path = NoPath
  BY <1>1 DEF WithRow, Row
<1>4. DOMAIN services' = DOMAIN services \cup {s}
  BY <1>1 DEF WithRow
<1>5. \A t \in Ids : HandlerFile(t)' = HandlerFile(t)
  BY <1>1, <1>2, <1>3, <1>4 DEF HandlerFile
<1>6. FilesOK'
  BY <1>1 DEF McpInv, FilesOK
<1>7. QED
  BY <1>1, <1>2, <1>5, <1>6, FilesStay DEF McpInv

LEMMA DeployMcpKeeps ==
    ASSUME McpInv, McpConstants, NEW a \in Callers, NEW s \in Deployed, NEW steps, DeployMcp(a, s, steps)
    PROVE  McpInv'
<1>1. /\ prod' = [prod EXCEPT ![s] = IF steps = 1 THEN NoFile ELSE shop[a]]
      /\ services' = IF steps = 3 THEN WithRow(s, Row("online", "internal", NoPath, {})) ELSE services
      /\ IF steps = 3 THEN handlers' = handlers ELSE ProcessStops
      /\ dev' = dev /\ shop' = shop /\ ran' = ran
  BY DEF DeployMcp
<1>2. s \in Ids /\ s \notin Paths
  BY DEF McpConstants
<1>3. ShopFile(NoFile) /\ ShopFile(shop[a])
  BY DEF McpInv, FilesOK, ShopFile, Unwritten, NoFile
<1>4. FilesOK'
  <2>1. /\ DOMAIN prod' = DOMAIN prod
        /\ \A d \in DOMAIN prod : d # s => prod'[d] = prod[d]
        /\ ShopFile(prod'[s])
    BY <1>1, <1>2, <1>3 DEF McpInv, FilesOK
  <2>2. QED
    BY <1>1, <1>2, <2>1 DEF McpInv, FilesOK
<1>5. CASE steps # 3
  <2>1. ServicesOK'
    BY <1>1, <1>5 DEF McpInv, ServicesOK
  <2>2. QED
    BY <1>1, <1>4, <1>5, <2>1, StopKeeps DEF McpInv
<1>6. CASE steps = 3
  <2>1. /\ DOMAIN services' = DOMAIN services \cup {s}
        /\ \A t \in DOMAIN services : t # s => services'[t] = services[t]
        /\ services'[s] = Row("online", "internal", NoPath, {})
    BY <1>1, <1>6 DEF WithRow
  <2>2. services'[s].path = NoPath /\ ServiceColumns \subseteq DOMAIN services'[s]
    BY <2>1 DEF Row, ServiceColumns
  <2>3. ServicesOK'
    BY <1>2, <2>1, <2>2 DEF McpInv, ServicesOK
  <2>4. ASSUME NEW t \in Ids
        PROVE  HandlerFile(t)' = HandlerFile(t) \/ (t \notin SystemIds /\ ShopFile(HandlerFile(t)'))
    <3>1. CASE t \in SystemIds
      BY <3>1 DEF HandlerFile
    <3>2. CASE t \notin SystemIds /\ t = s
      <4>1. HandlerFile(t)' = prod'[s]
        BY <2>1, <2>2, <3>2 DEF HandlerFile
      <4>2. QED
        BY <1>2, <1>4, <3>2, <4>1 DEF FilesOK
    <3>3. CASE t \notin SystemIds /\ t # s
      <4>1. prod'[t] = prod[t]
        BY <1>1, <3>3 DEF McpInv, FilesOK
      <4>2. t \in DOMAIN services /\ services[t].path # NoPath =>
               prod'[services[t].path] = prod[services[t].path]
        BY <1>1, <1>2 DEF McpInv, FilesOK, ServicesOK
      <4>3. QED
        BY <2>1, <3>3, <4>1, <4>2 DEF HandlerFile
    <3>4. QED
      BY <3>1, <3>2, <3>3
  <2>5. QED
    BY <1>1, <1>4, <1>6, <2>1, <2>3, <2>4, FilesStay DEF McpInv
<1>7. QED
  BY <1>5, <1>6

LEMMA DeleteServiceKeeps ==
    ASSUME McpInv, McpConstants, NEW s \in Ids, NEW steps, DeleteService(s, steps)
    PROVE  McpInv'
<1> DEFINE path == services[s].path
<1>1. /\ s \in DOMAIN services
      /\ services' = [t \in DOMAIN services \ {s} |-> services[t]]
      /\ IF steps = 6 THEN ClearHandlerCache(s) ELSE ProcessStops
      /\ dev' = [p \in Paths |-> IF steps > 4 /\ p = path THEN NoFile ELSE dev[p]]
      /\ prod' = [d \in Paths \cup Ids |-> IF steps = 6 /\ d \in {path, s} THEN NoFile ELSE prod[d]]
      /\ shop' = shop /\ ran' = ran
  BY DEF DeleteService
<1>2. ServicesOK'
  BY <1>1 DEF McpInv, ServicesOK
<1>3. FilesOK'
  <2>1. DevFile(NoFile) /\ ShopFile(NoFile)
    BY DEF DevFile, ShopFile, Unwritten, NoFile
  <2>2. QED
    BY <1>1, <2>1 DEF McpInv, FilesOK
<1>4. CASE steps # 6
  BY <1>1, <1>2, <1>3, <1>4, StopKeeps DEF McpInv
<1>5. CASE steps = 6
  <2>1. handlers' = [handlers EXCEPT ![s] = NoFile]
    BY <1>1, <1>5 DEF ClearHandlerCache
  <2>2. ASSUME NEW t \in Ids, t # s
        PROVE  HandlerFile(t)' = HandlerFile(t) \/ (t \notin SystemIds /\ ShopFile(HandlerFile(t)'))
    <3>1. CASE t \in SystemIds
      BY <3>1 DEF HandlerFile
    <3>2. CASE t \notin SystemIds /\ t \in DOMAIN services /\ services[t].path # NoPath
      <4>1. services[t].path \in Paths /\ IdOf[services[t].path] = t
        BY <3>2 DEF McpInv, ServicesOK
      <4>2. services[t].path # path
        <5>1. CASE path = NoPath
          BY <3>2, <5>1
        <5>2. CASE path # NoPath
          BY <1>1, <2>2, <4>1, <5>2 DEF McpInv, ServicesOK
        <5>3. QED
          BY <5>1, <5>2
      <4>3. services[t].path # s
        BY <4>1 DEF McpConstants
      <4>4. prod'[services[t].path] = prod[services[t].path]
        BY <1>1, <4>1, <4>2, <4>3
      <4>5. t \in DOMAIN services' /\ services'[t] = services[t]
        BY <1>1, <2>2, <3>2
      <4>6. QED
        BY <3>2, <4>4, <4>5 DEF HandlerFile
    <3>3. CASE t \notin SystemIds /\ ~ (t \in DOMAIN services /\ services[t].path # NoPath)
      <4>1. HandlerFile(t)' = prod'[t]
        BY <1>1, <3>3 DEF HandlerFile
      <4>2. QED
        BY <1>3, <3>3, <4>1 DEF FilesOK
    <3>4. QED
      BY <3>1, <3>2, <3>3
  <2>3. \A t \in Ids : \/ handlers'[t] = NoFile
                       \/ /\ handlers'[t] = handlers[t]
                          /\ t # s
                          /\ t \in DOMAIN services => t \in DOMAIN services'
    BY <1>1, <2>1 DEF McpInv
  <2>4. DOMAIN handlers' = Ids
    BY <2>1 DEF McpInv
  <2>5. QED
    BY <1>1, <1>2, <1>3, <2>2, <2>3, <2>4, FilesStay
<1>6. QED
  BY <1>4, <1>5

LEMMA GrantsKeep ==
    ASSUME McpInv, GrantNext
    PROVE  McpInv'
<1>1. ASSUME NEW r, NEW steps, DeleteRole(r, steps)
      PROVE  McpInv'
  <2>1. /\ services' = services /\ dev' = dev /\ shop' = shop /\ prod' = prod /\ ran' = ran
        /\ handlers' = handlers \/ ProcessStops
    BY <1>1 DEF DeleteRole
  <2>2. FilesOK' /\ SamePaths
    BY <2>1 DEF McpInv, FilesOK, SamePaths, ServicesOK
  <2>3. QED
    BY <2>1, <2>2, RowsKeep
<1>2. CASE UNCHANGED <<catalogVars, ran>>
  <2>1. /\ services' = services /\ dev' = dev /\ shop' = shop /\ prod' = prod /\ handlers' = handlers
        /\ ran' = ran
    BY <1>2 DEF catalogVars
  <2>2. FilesOK'
    BY <2>1 DEF McpInv, FilesOK
  <2>3. QED
    BY <2>1, <2>2, UntouchedKeeps
<1>3. QED
  BY <1>1, <1>2
     DEF GrantNext, CreateRole, SetRolePolicy, SetRoleMembers, SetRoleDimension, SetRoleDimensionsBatch,
         ChangeDimensions, WriteContextFiles

LEMMA CatalogKeeps ==
    ASSUME McpInv, McpConstants, CatalogNext
    PROVE  McpInv'
<1>1. ASSUME services' = services, dev' = dev, shop' = shop, prod' = prod, handlers' = handlers, ran' = ran
      PROVE  McpInv'
  <2>1. FilesOK'
    BY <1>1 DEF McpInv, FilesOK
  <2>2. QED
    BY <1>1, <2>1, UntouchedKeeps
<1>2. ASSUME NEW a, NEW s, FetchExternalTools(a, s)
      PROVE  McpInv'
  BY <1>1, <1>2 DEF FetchExternalTools
<1>3. ASSUME NEW a \in Callers, NEW c \in ShopCodes, NEW d, AgentWritesShop(a, c, d)
      PROVE  McpInv'
  <2>1. /\ shop' = [shop EXCEPT ![a] = [code |-> c, time |-> -c, dims |-> d]]
        /\ services' = services /\ dev' = dev /\ prod' = prod /\ handlers' = handlers /\ ran' = ran
    BY <1>3 DEF AgentWritesShop
  <2>2. ShopFile([code |-> c, time |-> -c, dims |-> d])
    BY DEF ShopFile, McpConstants
  <2>3. FilesOK'
    BY <2>1, <2>2 DEF McpInv, FilesOK
  <2>4. QED
    BY <2>1, <2>3, UntouchedKeeps
<1>4. ASSUME NEW p \in Paths, NEW c, NEW t \in Times, NEW d, AgentWritesDev(p, c, t, d)
      PROVE  McpInv'
  <2>1. /\ dev' = [dev EXCEPT ![p] = [code |-> c, time |-> t, dims |-> d]]
        /\ services' = services /\ shop' = shop /\ prod' = prod /\ handlers' = handlers /\ ran' = ran
    BY <1>4 DEF AgentWritesDev
  <2>2. DevFile([code |-> c, time |-> t, dims |-> d])
    BY DEF DevFile, McpConstants
  <2>3. FilesOK'
    BY <2>1, <2>2 DEF McpInv, FilesOK
  <2>4. QED
    BY <2>1, <2>3, UntouchedKeeps
<1>5. ASSUME NEW s, ToolsExpire(s)
      PROVE  McpInv'
  BY <1>1, <1>5 DEF ToolsExpire
<1>6. CASE LoaderRestart
  <2>1. /\ services' = services /\ dev' = dev /\ shop' = shop /\ prod' = prod /\ ran' = ran
        /\ ProcessStops
    BY <1>6 DEF LoaderRestart
  <2>2. FilesOK' /\ SamePaths
    BY <2>1 DEF McpInv, FilesOK, SamePaths, ServicesOK
  <2>3. QED
    BY <2>1, <2>2, RowsKeep
<1>7. ASSUME NEW s \in Ids, ServiceNext(s, ServiceStatuses, Sources)
      PROVE  McpInv'
  BY <1>2, <1>5, <1>7, DeployMcpKeeps, ApproveKeeps, RejectKeeps, UpdateServiceKeeps, DeleteServiceKeeps,
     CreateServiceKeeps
     DEF ServiceNext
<1>8. ASSUME NEW p \in Paths, PathNext(p, Dims)
      PROVE  McpInv'
  BY <1>4, <1>8, SubmitKeeps DEF PathNext
<1>9. ASSUME NEW a \in Callers, ShopNext(a, Dims)
      PROVE  McpInv'
  BY <1>3, <1>9 DEF ShopNext
<1>10. QED
  BY <1>6, <1>7, <1>8, <1>9 DEF CatalogNext

LEMMA McpStep ==
    ASSUME McpInv, McpConstants, [McpNext]_mcpVars
    PROVE  McpInv'
<1>1. CASE CallNext
  <2>1. ASSUME NEW a, NEW s, SetPolicy(a, s)
        PROVE  McpInv'
    <3>1. /\ services' = services /\ dev' = dev /\ shop' = shop /\ prod' = prod /\ handlers' = handlers
          /\ ran' = ran
      BY <2>1 DEF SetPolicy, catalogVars
    <3>2. FilesOK'
      BY <3>1 DEF McpInv, FilesOK
    <3>3. QED
      BY <3>1, <3>2, UntouchedKeeps
  <2>2. QED
    BY <1>1, <2>1, CallKeeps DEF CallNext, UseNext
<1>2. CASE UNCHANGED mcpVars
  <2>1. /\ services' = services /\ dev' = dev /\ shop' = shop /\ prod' = prod /\ handlers' = handlers
        /\ ran' = ran
    BY <1>2 DEF mcpVars, catalogVars
  <2>2. FilesOK'
    BY <2>1 DEF McpInv, FilesOK
  <2>3. QED
    BY <2>1, <2>2, UntouchedKeeps
<1>3. QED
  BY <1>1, <1>2, GrantsKeep, CatalogKeeps DEF McpNext

(* A call runs the code that is in production then, whichever of review,   *)
(* deployment, deletion and restart put it there after another was loaded  *)
(* (mcp_loader.py:108-128).                                                *)
THEOREM McpRunsProduction ==
    ASSUME McpConstants
    PROVE  McpSpec => []HandlerIsCurrent
<1>1. McpInit => McpInv
  BY McpStart
<1>2. McpInv /\ [McpNext]_mcpVars => McpInv'
  BY McpStep
<1>3. McpInv => HandlerIsCurrent
  BY DEF McpInv
<1>4. QED
  BY <1>1, <1>2, <1>3, PTL DEF McpSpec

-----------------------------------------------------------------------------
(* The skills market: what is published.  A version in review that no     *)
(* second review or upload touched has its snapshot, which is what was     *)
(* submitted.                                                              *)
MarketSpec == MarketInit /\ [][MarketNext]_marketVars

VersionColumns == {"status", "requires"}

PublishInv ==
    /\ DOMAIN published = Skills
    /\ \A x \in DOMAIN versions : VersionColumns \subseteq DOMAIN versions[x]
    /\ \A x \in DOMAIN versions : versions[x].status = "pending" /\ x \notin again => x \in DOMAIN snapshot
    /\ \A x \in DOMAIN snapshot : x \in DOMAIN submitted /\ snapshot[x] = submitted[x]
    /\ DOMAIN submitted \subseteq DOMAIN versions
    /\ \A s \in Authored :
          published[s] # None /\ <<s, published[s].version>> \notin again =>
              <<s, published[s].version>> \in DOMAIN submitted
    /\ PublishedAsSubmitted

reviewVars == <<versions, latest, snapshot, published, submitted, again>>

\* The steps that concern no version.
LEMMA MarketMove ==
    ASSUME [MarketNext]_marketVars
    PROVE  \/ UNCHANGED reviewVars
           \/ \E s \in Skills, v \in Default .. MaxVersion :
                 \/ \E needs \in SUBSET Skills : SubmitVersion(s, v, needs)
                 \/ ApproveVersion(s, v)
                 \/ RejectVersion(s, v)
                 \/ UploadPackage(s, v)
<1>1. ASSUME NEW s \in Skills,
             \/ CreateSkill(s) \/ EditWorkspace(s) \/ CreateDraft(s, FALSE)
             \/ SubmitToReview(s) \/ ProposeSkill(s) \/ Deprecate(s)
             \/ \E status \in {"approved", "pending"} : ImportStarter(s, status)
      PROVE  UNCHANGED reviewVars
  BY <1>1 DEF reviewVars, CreateSkill, EditWorkspace, CreateDraft, SubmitToReview, ProposeSkill, Deprecate,
              ImportStarter, files, history
<1>2. ASSUME \/ \E c \in DOMAIN candidate, decision \in {"approved", "rejected"} :
                   ReviewCandidate(c, decision)
             \/ \E chosen \in Bundles : PublishBundle(chosen)
             \/ Start
             \/ UNCHANGED marketVars
      PROVE  UNCHANGED reviewVars
  BY <1>2 DEF reviewVars, ReviewCandidate, PublishBundle, Start, marketVars, files, history
<1>3. QED
  BY <1>1, <1>2, Zenon DEF MarketNext, SkillNext, ShelvesNext

LEMMA PublishStart == MarketInit /\ Authored \subseteq Skills => PublishInv
BY DEF MarketInit, PublishInv, PublishedAsSubmitted

LEMMA SubmitPublishes ==
    ASSUME PublishInv, Authored \subseteq Skills, NEW s, NEW v, NEW needs, SubmitVersion(s, v, needs)
    PROVE  PublishInv'
<1> DEFINE x == <<s, v>>
           row == [status |-> "pending", requires |-> needs]
<1>1. /\ x \notin DOMAIN versions
      /\ DOMAIN versions' = DOMAIN versions \cup {x}
      /\ \A y \in DOMAIN versions' : versions'[y] = IF y = x THEN row ELSE versions[y]
  BY DEF SubmitVersion, With
<1>2. /\ DOMAIN snapshot' = DOMAIN snapshot \cup {x}
      /\ \A y \in DOMAIN snapshot' : snapshot'[y] = IF y = x THEN workspace[s] ELSE snapshot[y]
  BY DEF SubmitVersion, TakeSnapshot, With
<1>3. /\ DOMAIN submitted' = DOMAIN submitted \cup {x}
      /\ \A y \in DOMAIN submitted' : submitted'[y] = IF y = x THEN workspace[s] ELSE submitted[y]
  BY DEF SubmitVersion, With
<1>4. published' = published /\ again' = again
  BY DEF SubmitVersion
<1>5. VersionColumns \subseteq DOMAIN row
  BY DEF VersionColumns
<1> HIDE DEF x, row
<1>6. PublishedAsSubmitted'
  <2>1. SUFFICES ASSUME NEW t \in Authored, published[t] # None, <<t, published[t].version>> \notin again
                 PROVE  published[t].content = submitted'[<<t, published[t].version>>]
    BY <1>4 DEF PublishedAsSubmitted
  <2>2. <<t, published[t].version>> \in DOMAIN submitted
    BY <2>1 DEF PublishInv
  <2>3. published[t].content = submitted[<<t, published[t].version>>]
    BY <2>1 DEF PublishInv, PublishedAsSubmitted
  <2>4. QED
    BY <1>1, <1>3, <2>2, <2>3 DEF PublishInv
<1>7. QED
  BY <1>1, <1>2, <1>3, <1>4, <1>5, <1>6 DEF PublishInv

LEMMA ApprovePublishes ==
    ASSUME PublishInv, Authored \subseteq Skills, NEW s \in Skills, NEW v, ApproveVersion(s, v)
    PROVE  PublishInv'
<1> DEFINE x == <<s, v>>
<1>1. /\ x \in DOMAIN versions
      /\ versions' = [versions EXCEPT ![x].status = "approved"]
      /\ submitted' = submitted
      /\ again' = IF versions[x].status = "pending" THEN again ELSE again \cup {x}
      /\ Publish(s, v)
  BY DEF ApproveVersion
<1>2. VersionColumns \subseteq DOMAIN versions[x]
  BY <1>1 DEF PublishInv
<1>3. DOMAIN versions' = DOMAIN versions
  BY <1>1
<1>4. \A y \in DOMAIN versions : y # x => versions'[y] = versions[y]
  BY <1>1
<1>5. VersionColumns \subseteq DOMAIN versions'[x] /\ versions'[x].status = "approved"
  BY <1>1, <1>2 DEF VersionColumns
<1>6. again \subseteq again' /\ (x \notin again' => x \notin again /\ versions[x].status = "pending")
  BY <1>1
<1>7. /\ DOMAIN snapshot \ {x} \subseteq DOMAIN snapshot'
      /\ DOMAIN snapshot' \subseteq DOMAIN snapshot
      /\ \A y \in DOMAIN snapshot' : snapshot'[y] = snapshot[y]
  BY DEF ApproveVersion, Publish, Removed
<1>8. /\ DOMAIN published' = DOMAIN published
      /\ \A t \in Skills : t # s => published'[t] = published[t]
  BY DEF ApproveVersion, Publish, PublishInv
<1>9. x \notin again' =>
         x \in DOMAIN snapshot /\ published'[s] = [content |-> snapshot[x], version |-> v]
  <2>1. SUFFICES ASSUME x \notin again'
                 PROVE  x \in DOMAIN snapshot /\ published'[s] = [content |-> snapshot[x], version |-> v]
    OBVIOUS
  <2>2. x \in DOMAIN snapshot
    BY <1>1, <1>6, <2>1 DEF PublishInv
  <2>3. published' = [published EXCEPT ![s] = [content |-> snapshot[x], version |-> v]]
    BY <1>1, <2>2 DEF Publish
  <2>4. QED
    BY <2>2, <2>3 DEF PublishInv
<1>10. \/ published'[s] = published[s]
       \/ \E c : published'[s] = [content |-> c, version |-> v]
  BY DEF ApproveVersion, Publish, PublishInv
<1> HIDE DEF x
<1>11. ASSUME NEW t \in Authored, published'[t] # None, <<t, published'[t].version>> \notin again'
       PROVE  /\ <<t, published'[t].version>> \in DOMAIN submitted
              /\ published'[t].content = submitted[<<t, published'[t].version>>]
  <2>1. t \in Skills /\ <<t, published'[t].version>> \notin again
    BY <1>6, <1>11
  <2>2. CASE published'[t] = published[t]
    BY <1>11, <2>1, <2>2 DEF PublishInv, PublishedAsSubmitted
  <2>3. CASE published'[t] # published[t]
    <3>1. t = s /\ \E c : published'[s] = [content |-> c, version |-> v]
      BY <1>8, <1>10, <2>1, <2>3
    <3>2. published'[t].version = v
      BY <3>1
    <3>3. x \notin again'
      BY <1>11, <3>1, <3>2 DEF x
    <3>4. x \in DOMAIN submitted /\ published'[t].content = submitted[x]
      BY <1>9, <3>1, <3>3 DEF PublishInv
    <3>5. QED
      BY <3>1, <3>2, <3>4 DEF x
  <2>4. QED
    BY <2>2, <2>3
<1>12. PublishedAsSubmitted'
  BY <1>1, <1>11 DEF PublishedAsSubmitted
<1>13. \A y \in DOMAIN versions' :
          VersionColumns \subseteq DOMAIN versions'[y]
          /\ (versions'[y].status = "pending" /\ y \notin again' => y \in DOMAIN snapshot')
  BY <1>3, <1>4, <1>5, <1>6, <1>7 DEF PublishInv
<1>14. QED
  BY <1>1, <1>3, <1>7, <1>8, <1>11, <1>12, <1>13 DEF PublishInv

LEMMA RejectPublishes ==
    ASSUME PublishInv, NEW s, NEW v, RejectVersion(s, v)
    PROVE  PublishInv'
<1> DEFINE x == <<s, v>>
<1>1. /\ x \in DOMAIN versions
      /\ versions' = [versions EXCEPT ![x].status = "rejected"]
      /\ snapshot' = snapshot /\ published' = published /\ submitted' = submitted /\ again' = again
  BY DEF RejectVersion, files, history
<1>2. VersionColumns \subseteq DOMAIN versions[x]
  BY <1>1 DEF PublishInv
<1>3. DOMAIN versions' = DOMAIN versions
  BY <1>1
<1>4. \A y \in DOMAIN versions : y # x => versions'[y] = versions[y]
  BY <1>1
<1>5. VersionColumns \subseteq DOMAIN versions'[x] /\ versions'[x].status = "rejected"
  BY <1>1, <1>2 DEF VersionColumns
<1> HIDE DEF x
<1>6. QED
  BY <1>1, <1>3, <1>4, <1>5 DEF PublishInv, PublishedAsSubmitted

LEMMA UploadPublishes ==
    ASSUME PublishInv, NEW s, NEW v, UploadPackage(s, v)
    PROVE  PublishInv'
<1> DEFINE x == <<s, v>>
           row == [status |-> "pending", requires |-> {}]
<1>1. /\ snapshot' = snapshot /\ published' = published /\ submitted' = submitted
      /\ again' = again \cup {x}
  BY DEF UploadPackage
<1>2. /\ DOMAIN versions \subseteq DOMAIN versions' /\ DOMAIN versions' \subseteq DOMAIN versions \cup {x}
      /\ \A y \in DOMAIN versions : versions'[y] = versions[y]
      /\ x \notin DOMAIN versions => versions'[x] = row
  BY DEF UploadPackage, With
<1>3. VersionColumns \subseteq DOMAIN row
  BY DEF VersionColumns
<1> HIDE DEF x, row
<1>4. QED
  BY <1>1, <1>2, <1>3 DEF PublishInv, PublishedAsSubmitted

LEMMA PublishStep ==
    ASSUME PublishInv, Authored \subseteq Skills, [MarketNext]_marketVars
    PROVE  PublishInv'
<1>1. CASE UNCHANGED reviewVars
  BY <1>1 DEF reviewVars, PublishInv, PublishedAsSubmitted
<1>2. QED
  BY <1>1, MarketMove, SubmitPublishes, ApprovePublishes, RejectPublishes, UploadPublishes

(* What is published under a version is what was submitted as that         *)
(* version, whatever the author edits meanwhile, as long as it was reviewed *)
(* once (skill_market.py:1221-1345).                                       *)
THEOREM MarketPublishesSubmitted ==
    ASSUME Authored \subseteq Skills
    PROVE  MarketSpec => []PublishedAsSubmitted
<1>1. MarketInit => PublishInv
  BY PublishStart
<1>2. PublishInv /\ [MarketNext]_marketVars => PublishInv'
  BY PublishStep
<1>3. PublishInv => PublishedAsSubmitted
  BY DEF PublishInv
<1>4. QED
  BY <1>1, <1>2, <1>3, PTL DEF MarketSpec

-----------------------------------------------------------------------------
(* The skills market: what skills require.  The closure that a submission  *)
(* computes level by level is the least set that is closed under what its  *)
(* skills require, because there are no more levels than skills.           *)
\* f has the levels up to n of a closure.
IsLevels(f, set, n) ==
    f = [k \in 0 .. n |-> IF k = 0 THEN set ELSE WithRequired(f[k - 1])]

LEMMA LevelsExist ==
    ASSUME NEW set, NEW n \in Nat
    PROVE  \E f : IsLevels(f, set, n)
<1> DEFINE T == {k \in Nat : \E f : IsLevels(f, set, k)}
<1>1. 0 \in T
  <2> DEFINE f == [k \in 0 .. 0 |-> set]
  <2>1. f = [k \in 0 .. 0 |-> IF k = 0 THEN set ELSE WithRequired(f[k - 1])]
    OBVIOUS
  <2> HIDE DEF f
  <2>2. IsLevels(f, set, 0)
    BY <2>1 DEF IsLevels
  <2>3. QED
    BY <2>2
<1>2. ASSUME NEW k \in Nat, k \in T
      PROVE  k + 1 \in T
  <2>1. PICK f : IsLevels(f, set, k)
    BY <1>2
  <2> DEFINE g == [i \in 0 .. k + 1 |-> IF i = k + 1 THEN WithRequired(f[k]) ELSE f[i]]
  <2>2. \A i \in 0 .. k : f[i] = IF i = 0 THEN set ELSE WithRequired(f[i - 1])
    BY <2>1 DEF IsLevels
  <2>3. \A i \in 0 .. k + 1 : g[i] = IF i = 0 THEN set ELSE WithRequired(g[i - 1])
    <3>1. SUFFICES ASSUME NEW i \in 0 .. k + 1
                   PROVE  g[i] = IF i = 0 THEN set ELSE WithRequired(g[i - 1])
      OBVIOUS
    <3>2. CASE i = k + 1
      <4>1. g[i] = WithRequired(f[k]) /\ g[i - 1] = f[k] /\ i # 0
        BY <3>2
      <4> HIDE DEF g
      <4>2. QED
        BY <4>1
    <3>3. CASE i \in 1 .. k
      <4>1. g[i] = f[i] /\ g[i - 1] = f[i - 1] /\ i # 0 /\ i \in 0 .. k
        BY <3>3
      <4> HIDE DEF g
      <4>2. QED
        BY <2>2, <4>1
    <3>4. CASE i = 0
      <4>1. g[i] = f[i] /\ i \in 0 .. k
        BY <3>4
      <4> HIDE DEF g
      <4>2. QED
        BY <2>2, <3>4, <4>1
    <3>5. QED
      BY <3>2, <3>3, <3>4
  <2>4. g = [i \in 0 .. k + 1 |-> g[i]]
    OBVIOUS
  <2> HIDE DEF g
  <2>5. g = [i \in 0 .. k + 1 |-> IF i = 0 THEN set ELSE WithRequired(g[i - 1])]
    BY <2>3, <2>4
  <2>6. IsLevels(g, set, k + 1)
    BY <2>5 DEF IsLevels
  <2>7. QED
    BY <2>6
<1>3. \A k \in Nat : k \in T => k + 1 \in T
  BY <1>2
<1> HIDE DEF T
<1>4. n \in T
  BY <1>1, <1>3, NatSetInduction
<1>5. QED
  BY <1>4 DEF T

LEMMA ClosureLevels ==
    ASSUME NEW set, Cardinality(Skills) \in Nat
    PROVE  \E f : /\ Closure(set) = f[Cardinality(Skills)]
                  /\ f[0] = set
                  /\ \A n \in 1 .. Cardinality(Skills) : f[n] = WithRequired(f[n - 1])
<1> DEFINE N == Cardinality(Skills)
           f == CHOOSE f : IsLevels(f, set, N)
<1>1. IsLevels(f, set, N)
  BY LevelsExist
<1>2. Closure(set) = f[N]
  BY DEF Closure, IsLevels
<1> HIDE DEF f, N
<1>3. N \in Nat
  BY DEF N
<1>4. f[0] = set /\ \A n \in 1 .. N : f[n] = WithRequired(f[n - 1])
  BY <1>1, <1>3 DEF IsLevels
<1>5. QED
  BY <1>2, <1>4 DEF N

\* Everything required is a skill.
RequiredAreSkills == IsFiniteSet(Skills) /\ \A s \in Skills : Requires(s) \subseteq Skills

Closed(T) == \A s \in T : Requires(s) \subseteq T

LeastClosed ==
    \A set \in SUBSET Skills :
        /\ Closure(set) \subseteq Skills
        /\ set \subseteq Closure(set)
        /\ Closed(Closure(set))
        /\ \A T : set \subseteq T /\ Closed(T) => Closure(set) \subseteq T

LEMMA ClosureIsLeast == RequiredAreSkills => LeastClosed
<1> SUFFICES ASSUME RequiredAreSkills, NEW set \in SUBSET Skills
             PROVE  /\ Closure(set) \subseteq Skills
                    /\ set \subseteq Closure(set)
                    /\ Closed(Closure(set))
                    /\ \A T : set \subseteq T /\ Closed(T) => Closure(set) \subseteq T
  BY DEF LeastClosed
<1> DEFINE N == Cardinality(Skills)
<1>1. N \in Nat
  BY FS_CardinalityType DEF RequiredAreSkills
<1>2. PICK f : /\ Closure(set) = f[N]
               /\ f[0] = set
               /\ \A n \in 1 .. N : f[n] = WithRequired(f[n - 1])
  BY <1>1, ClosureLevels
<1> HIDE DEF N
<1>3. ASSUME NEW n \in Nat, n + 1 <= N
      PROVE  f[n + 1] = WithRequired(f[n])
  BY <1>1, <1>2, <1>3
<1>4. \A n \in Nat : n <= N => set \subseteq f[n] /\ f[n] \subseteq Skills
  <2> DEFINE T == {n \in Nat : n <= N => set \subseteq f[n] /\ f[n] \subseteq Skills}
  <2>1. 0 \in T
    BY <1>2
  <2>2. ASSUME NEW n \in Nat, n \in T
        PROVE  n + 1 \in T
    <3>1. CASE n + 1 <= N
      <4>1. n <= N
        BY <1>1, <3>1
      <4>2. set \subseteq f[n] /\ f[n] \subseteq Skills
        BY <2>2, <4>1
      <4>3. set \subseteq WithRequired(f[n]) /\ WithRequired(f[n]) \subseteq Skills
        BY <4>2 DEF WithRequired, RequiredAreSkills
      <4>4. QED
        BY <1>3, <3>1, <4>3
    <3>2. CASE ~ (n + 1 <= N)
      BY <3>2
    <3>3. QED
      BY <3>1, <3>2
  <2> HIDE DEF T
  <2>3. Nat \subseteq T
    BY <2>1, <2>2, NatSetInduction
  <2>4. QED
    BY <2>3 DEF T
<1>5. Closure(set) \subseteq Skills /\ set \subseteq Closure(set)
  BY <1>1, <1>2, <1>4
<1>6. \A n \in Nat : n <= N => Closed(f[n]) \/ Cardinality(f[n]) >= n + 1
  <2> DEFINE T == {n \in Nat : n <= N => Closed(f[n]) \/ Cardinality(f[n]) >= n + 1}
  <2>1. 0 \in T
    <3>1. CASE set = {}
      BY <1>2, <3>1 DEF Closed
    <3>2. CASE set # {}
      <4>1. IsFiniteSet(set)
        BY FS_Subset DEF RequiredAreSkills
      <4>2. Cardinality(set) \in Nat /\ Cardinality(set) # 0
        BY <3>2, <4>1, FS_CardinalityType, FS_EmptySet
      <4>3. QED
        BY <1>2, <4>2
    <3>3. QED
      BY <3>1, <3>2
  <2>2. ASSUME NEW n \in Nat, n \in T
        PROVE  n + 1 \in T
    <3>1. SUFFICES ASSUME n + 1 <= N
                   PROVE  Closed(f[n + 1]) \/ Cardinality(f[n + 1]) >= n + 1 + 1
      OBVIOUS
    <3>2. n <= N
      BY <1>1, <3>1
    <3>3. f[n + 1] = WithRequired(f[n])
      BY <1>3, <3>1
    <3>4. CASE Closed(f[n])
      <4>1. WithRequired(f[n]) = f[n]
        BY <3>4 DEF WithRequired, Closed
      <4>2. QED
        BY <3>3, <3>4, <4>1
    <3>5. CASE ~ Closed(f[n])
      <4>1. Cardinality(f[n]) >= n + 1
        BY <2>2, <3>2, <3>5
      <4>2. f[n] \subseteq f[n + 1] /\ f[n] # f[n + 1]
        BY <3>3, <3>5 DEF WithRequired, Closed
      <4>3. IsFiniteSet(f[n + 1])
        BY <1>4, <3>1, FS_Subset DEF RequiredAreSkills
      <4>4. /\ IsFiniteSet(f[n])
            /\ Cardinality(f[n]) <= Cardinality(f[n + 1])
            /\ Cardinality(f[n]) # Cardinality(f[n + 1])
        BY <4>2, <4>3, FS_Subset
      <4>5. Cardinality(f[n]) \in Nat /\ Cardinality(f[n + 1]) \in Nat
        BY <4>3, <4>4, FS_CardinalityType
      <4>6. QED
        BY <4>1, <4>4, <4>5
    <3>6. QED
      BY <3>4, <3>5
  <2> HIDE DEF T
  <2>3. Nat \subseteq T
    BY <2>1, <2>2, NatSetInduction
  <2>4. QED
    BY <2>3 DEF T
<1>7. Closed(Closure(set))
  <2>1. Cardinality(f[N]) \in Nat /\ Cardinality(f[N]) <= N
    BY <1>2, <1>5, FS_Subset, FS_CardinalityType DEF RequiredAreSkills, N
  <2>2. ~ (Cardinality(f[N]) >= N + 1)
    BY <1>1, <2>1
  <2>3. QED
    BY <1>1, <1>2, <1>6, <2>2
<1>8. ASSUME NEW T, set \subseteq T, Closed(T)
      PROVE  Closure(set) \subseteq T
  <2> DEFINE U == {n \in Nat : n <= N => f[n] \subseteq T}
  <2>1. 0 \in U
    BY <1>2, <1>8
  <2>2. ASSUME NEW n \in Nat, n \in U
        PROVE  n + 1 \in U
    <3>1. CASE n + 1 <= N
      <4>1. f[n] \subseteq T
        BY <1>1, <2>2, <3>1
      <4>2. WithRequired(f[n]) \subseteq T
        BY <1>8, <4>1 DEF WithRequired, Closed
      <4>3. QED
        BY <1>3, <3>1, <4>2
    <3>2. CASE ~ (n + 1 <= N)
      BY <3>2
    <3>3. QED
      BY <3>1, <3>2
  <2> HIDE DEF U
  <2>3. Nat \subseteq U
    BY <2>1, <2>2, NatSetInduction
  <2>4. QED
    BY <1>1, <1>2, <2>3 DEF U
<1>9. QED
  BY <1>5, <1>7, <1>8

\* That no skill requires itself, and the same with a closed set for each.
Acyclic == \A s \in Skills : s \notin Closure(Requires(s))

Separated ==
    \A s \in Skills : \E T \in SUBSET Skills : Requires(s) \subseteq T /\ Closed(T) /\ s \notin T

LEMMA AcyclicIsSeparated == RequiredAreSkills => (Acyclic <=> Separated)
<1> SUFFICES ASSUME RequiredAreSkills
             PROVE  Acyclic <=> Separated
  OBVIOUS
<1>1. LeastClosed
  BY ClosureIsLeast
<1>2. \A s \in Skills : Requires(s) \in SUBSET Skills
  BY DEF RequiredAreSkills
<1>3. ASSUME Acyclic, NEW s \in Skills
      PROVE  \E T \in SUBSET Skills : Requires(s) \subseteq T /\ Closed(T) /\ s \notin T
  <2>1. /\ Closure(Requires(s)) \in SUBSET Skills
        /\ Requires(s) \subseteq Closure(Requires(s))
        /\ Closed(Closure(Requires(s)))
    BY <1>1, <1>2 DEF LeastClosed
  <2>2. s \notin Closure(Requires(s))
    BY <1>3 DEF Acyclic
  <2>3. QED
    BY <2>1, <2>2
<1>4. ASSUME Separated, NEW s \in Skills
      PROVE  s \notin Closure(Requires(s))
  <2>1. PICK T \in SUBSET Skills : Requires(s) \subseteq T /\ Closed(T) /\ s \notin T
    BY <1>4 DEF Separated
  <2>2. Closure(Requires(s)) \subseteq T
    BY <1>1, <1>2, <2>1 DEF LeastClosed
  <2>3. QED
    BY <2>1, <2>2
<1>5. QED
  BY <1>3, <1>4 DEF Acyclic, Separated

LEMMA AcyclicIsSeparatedNext == RequiredAreSkills' => (Acyclic' <=> Separated')
BY AcyclicIsSeparated, PTL

LEMMA LessIsSeparated ==
    ASSUME RequiredAreSkills, Acyclic, \A t \in Skills : Requires(t)' \subseteq Requires(t)
    PROVE  Separated'
<1>1. SUFFICES ASSUME NEW s \in Skills
               PROVE  \E T \in SUBSET Skills : Requires(s)' \subseteq T /\ Closed(T)' /\ s \notin T
  BY DEF Separated
<1>2. PICK T \in SUBSET Skills : Requires(s) \subseteq T /\ Closed(T) /\ s \notin T
  BY AcyclicIsSeparated DEF Separated
<1>3. Closed(T)'
  BY <1>2 DEF Closed
<1>4. Requires(s)' \subseteq T
  BY <1>2
<1>5. QED
  BY <1>2, <1>3, <1>4

LEMMA SubmissionIsSeparated ==
    ASSUME RequiredAreSkills, Acyclic, NEW s \in Skills, NEW needs \in SUBSET Skills, ~ Circular(s, needs),
           \A t \in Skills : Requires(t)' = IF t = s THEN needs ELSE Requires(t)
    PROVE  Separated'
<1>0. PICK R : R = Closure(needs)
  OBVIOUS
<1>1. /\ R \in SUBSET Skills /\ needs \subseteq R /\ Closed(R)
      /\ \A T : needs \subseteq T /\ Closed(T) => R \subseteq T
  BY <1>0, ClosureIsLeast DEF LeastClosed
<1>2. s \notin R
  BY <1>0 DEF Circular
<1>3. Closed(R)'
  BY <1>1, <1>2 DEF Closed
<1>4. SUFFICES ASSUME NEW t \in Skills
               PROVE  \E T \in SUBSET Skills : Requires(t)' \subseteq T /\ Closed(T)' /\ t \notin T
  BY DEF Separated
<1>5. CASE t = s
  BY <1>1, <1>2, <1>3, <1>5
<1>6. CASE t # s
  <2>0. PICK C : C = Closure(Requires(t))
    OBVIOUS
  <2>1. /\ C \in SUBSET Skills /\ Requires(t) \subseteq C /\ Closed(C)
        /\ \A T : Requires(t) \subseteq T /\ Closed(T) => C \subseteq T
    <3>1. Requires(t) \in SUBSET Skills
      BY DEF RequiredAreSkills
    <3>2. QED
      BY <2>0, <3>1, ClosureIsLeast DEF LeastClosed
  <2>2. t \notin C
    BY <2>0 DEF Acyclic
  <2>3. CASE s \notin C
    <3>1. Closed(C)'
      BY <2>1, <2>3 DEF Closed
    <3>2. QED
      BY <1>6, <2>1, <2>2, <3>1
  <2>4. CASE s \in C
    <3>1. t \notin R
      <4>1. SUFFICES ASSUME t \in R
                     PROVE  FALSE
        OBVIOUS
      <4>2. Requires(t) \subseteq R
        BY <1>1, <4>1 DEF Closed
      <4>3. C \subseteq R
        BY <1>1, <2>1, <4>2
      <4>4. QED
        BY <1>2, <2>4, <4>3
    <3>2. Closed(C \cup R)'
      BY <1>1, <1>3, <2>1 DEF Closed
    <3>3. C \cup R \in SUBSET Skills /\ Requires(t)' \subseteq C \cup R /\ t \notin C \cup R
      BY <1>1, <1>6, <2>1, <2>2, <3>1
    <3>4. QED
      BY <3>2, <3>3
  <2>5. QED
    BY <2>3, <2>4
<1>7. QED
  BY <1>5, <1>6

DepsInv ==
    /\ IsFiniteSet(Skills)
    /\ \A x \in DOMAIN versions :
          /\ VersionColumns \subseteq DOMAIN versions[x]
          /\ versions[x].requires \subseteq Skills
          /\ x \notin DOMAIN submitted => versions[x].requires = {}
    /\ \A s \in DOMAIN latest : <<s, latest[s]>> \in DOMAIN versions
    /\ DepsAcyclic

LEMMA DepsAreSkills == DepsInv => RequiredAreSkills
BY DEF DepsInv, RequiredAreSkills, Requires

LEMMA DepsAreSkillsNext == DepsInv' => RequiredAreSkills'
BY DepsAreSkills, PTL

LEMMA DepsStart ==
    ASSUME IsFiniteSet(Skills), MarketInit
    PROVE  DepsInv
<1>1. /\ \A x \in DOMAIN versions :
            /\ VersionColumns \subseteq DOMAIN versions[x]
            /\ versions[x].requires \subseteq Skills
            /\ x \notin DOMAIN submitted => versions[x].requires = {}
      /\ \A s \in DOMAIN latest : <<s, latest[s]>> \in DOMAIN versions
  BY DEF MarketInit
<1>2. \A s : Requires(s) = {}
  BY DEF Requires, MarketInit
<1>3. RequiredAreSkills
  BY <1>2 DEF RequiredAreSkills
<1>4. Separated
  BY <1>2 DEF Separated, Closed
<1>5. Acyclic
  BY <1>3, <1>4, AcyclicIsSeparated
<1>6. QED
  BY <1>1, <1>5 DEF DepsInv, DepsAcyclic, Acyclic

\* The rows of versions, apart from what the requirements form.
RowsOfDeps ==
    /\ \A x \in DOMAIN versions :
          /\ VersionColumns \subseteq DOMAIN versions[x]
          /\ versions[x].requires \subseteq Skills
          /\ x \notin DOMAIN submitted => versions[x].requires = {}
    /\ \A s \in DOMAIN latest : <<s, latest[s]>> \in DOMAIN versions

LEMMA SeparatedKeepsDeps ==
    ASSUME IsFiniteSet(Skills), RowsOfDeps',
           DOMAIN submitted \subseteq DOMAIN submitted', again \subseteq again',
           DepsInv, again' \cap DOMAIN submitted' = {} /\ Acyclic => Separated'
    PROVE  DepsInv'
<1>1. SUFFICES ASSUME again' \cap DOMAIN submitted' = {}
               PROVE  Acyclic'
  BY DEF DepsInv, RowsOfDeps, DepsAcyclic, Acyclic
<1>2. Acyclic
  <2>1. again \cap DOMAIN submitted = {}
    BY <1>1
  <2>2. QED
    BY <2>1 DEF DepsInv, DepsAcyclic, Acyclic
<1>3. RequiredAreSkills'
  <2>1. \A s \in Skills : Requires(s)' \subseteq Skills
    BY DEF RowsOfDeps, Requires
  <2>2. QED
    BY <2>1 DEF RequiredAreSkills
<1>4. QED
  BY <1>1, <1>2, <1>3, AcyclicIsSeparatedNext

LEMMA SubmitKeepsDeps ==
    ASSUME DepsInv, NEW s \in Skills, NEW v, NEW needs \in SUBSET Skills, SubmitVersion(s, v, needs)
    PROVE  DepsInv'
<1> DEFINE x == <<s, v>>
           row == [status |-> "pending", requires |-> needs]
<1>1. /\ x \notin DOMAIN versions
      /\ DOMAIN versions' = DOMAIN versions \cup {x}
      /\ \A y \in DOMAIN versions' : versions'[y] = IF y = x THEN row ELSE versions[y]
  BY DEF SubmitVersion, With
<1>2. /\ DOMAIN latest' = DOMAIN latest \cup {s}
      /\ \A t \in DOMAIN latest' : latest'[t] = IF t = s THEN v ELSE latest[t]
  BY DEF SubmitVersion, With
<1>3. DOMAIN submitted' = DOMAIN submitted \cup {x} /\ again' = again /\ ~ Circular(s, needs)
  BY DEF SubmitVersion, With
<1>4. VersionColumns \subseteq DOMAIN row /\ row.requires = needs
  BY DEF VersionColumns
<1>5. ASSUME NEW t
      PROVE  Requires(t)' = IF t = s THEN needs ELSE Requires(t)
  <2>1. CASE t = s
    BY <1>1, <1>2, <1>4, <2>1 DEF Requires
  <2>2. CASE t # s /\ t \in DOMAIN latest
    <3>1. <<t, latest[t]>> \in DOMAIN versions /\ <<t, latest[t]>> # x
      BY <2>2 DEF DepsInv
    <3>2. QED
      BY <1>1, <1>2, <2>2, <3>1 DEF Requires
  <2>3. CASE t # s /\ t \notin DOMAIN latest
    BY <1>2, <2>3 DEF Requires
  <2>4. QED
    BY <2>1, <2>2, <2>3
<1>6. RowsOfDeps'
  <2>1. \A y \in DOMAIN versions' :
          /\ VersionColumns \subseteq DOMAIN versions'[y]
          /\ versions'[y].requires \subseteq Skills
          /\ y \notin DOMAIN submitted' => versions'[y].requires = {}
    <3> HIDE DEF x, row
    <3>1. QED
      BY <1>1, <1>3, <1>4 DEF DepsInv
  <2>2. \A t \in DOMAIN latest' : <<t, latest'[t]>> \in DOMAIN versions'
    BY <1>1, <1>2 DEF DepsInv
  <2>3. QED
    BY <2>1, <2>2 DEF RowsOfDeps
<1> HIDE DEF x, row
<1>7. again' \cap DOMAIN submitted' = {} /\ Acyclic => Separated'
  BY <1>3, <1>5, SubmissionIsSeparated, DepsAreSkills
<1>8. QED
  BY <1>3, <1>6, <1>7, SeparatedKeepsDeps DEF DepsInv

\* A review changes the status of a row only.
LEMMA ReviewKeepsDeps ==
    ASSUME DepsInv, NEW x, NEW status, versions' = [versions EXCEPT ![x].status = status],
           latest' = latest, submitted' = submitted, again \subseteq again'
    PROVE  DepsInv'
<1>1. DOMAIN versions' = DOMAIN versions
  OBVIOUS
<1>2. \A y \in DOMAIN versions : y # x => versions'[y] = versions[y]
  OBVIOUS
<1>3. x \in DOMAIN versions =>
         VersionColumns \subseteq DOMAIN versions'[x] /\ versions'[x].requires = versions[x].requires
  <2>1. SUFFICES ASSUME x \in DOMAIN versions
                 PROVE  VersionColumns \subseteq DOMAIN versions'[x]
                        /\ versions'[x].requires = versions[x].requires
    OBVIOUS
  <2>2. VersionColumns \subseteq DOMAIN versions[x]
    BY <2>1 DEF DepsInv
  <2>3. QED
    BY <2>1, <2>2 DEF VersionColumns
<1>4. RowsOfDeps'
  BY <1>1, <1>2, <1>3 DEF DepsInv, RowsOfDeps
<1>5. \A t \in Skills : Requires(t)' \subseteq Requires(t)
  <2>1. SUFFICES ASSUME NEW t \in Skills, t \in DOMAIN latest
                 PROVE  Requires(t)' \subseteq Requires(t)
    BY DEF Requires
  <2>2. <<t, latest[t]>> \in DOMAIN versions
    BY <2>1 DEF DepsInv
  <2>3. versions'[<<t, latest[t]>>].requires = versions[<<t, latest[t]>>].requires
    BY <1>2, <1>3, <2>2
  <2>4. QED
    BY <2>1, <2>3 DEF Requires
<1>6. again' \cap DOMAIN submitted' = {} /\ Acyclic => Separated'
  BY <1>5, LessIsSeparated, DepsAreSkills
<1>7. QED
  BY <1>4, <1>6, SeparatedKeepsDeps DEF DepsInv

LEMMA UploadKeepsDeps ==
    ASSUME DepsInv, NEW s \in Skills, NEW v, UploadPackage(s, v)
    PROVE  DepsInv'
<1> DEFINE x == <<s, v>>
           row == [status |-> "pending", requires |-> {}]
<1>1. submitted' = submitted /\ again' = again \cup {x}
  BY DEF UploadPackage
<1>2. /\ DOMAIN versions' = DOMAIN versions \cup {x}
      /\ \A y \in DOMAIN versions : versions'[y] = versions[y]
      /\ x \notin DOMAIN versions => versions'[x] = row
  BY DEF UploadPackage, With
<1>3. /\ DOMAIN latest' = DOMAIN latest \cup {s}
      /\ \A t \in DOMAIN latest' : latest'[t] = IF t = s THEN v ELSE latest[t]
  BY DEF UploadPackage, With
<1>4. VersionColumns \subseteq DOMAIN row /\ row.requires = {}
  BY DEF VersionColumns
<1>5. RowsOfDeps'
  <2>1. \A y \in DOMAIN versions' :
          /\ VersionColumns \subseteq DOMAIN versions'[y]
          /\ versions'[y].requires \subseteq Skills
          /\ y \notin DOMAIN submitted' => versions'[y].requires = {}
    <3> HIDE DEF x, row
    <3>1. QED
      BY <1>1, <1>2, <1>4 DEF DepsInv
  <2>2. \A t \in DOMAIN latest' : <<t, latest'[t]>> \in DOMAIN versions'
    BY <1>2, <1>3 DEF DepsInv
  <2>3. QED
    BY <2>1, <2>2 DEF RowsOfDeps
<1>6. ASSUME again' \cap DOMAIN submitted' = {}, NEW t \in Skills
      PROVE  Requires(t)' \subseteq Requires(t)
  <2>1. CASE t = s
    <3>1. x \notin DOMAIN submitted
      BY <1>1, <1>6
    <3>2. versions'[x].requires = {}
      BY <1>2, <1>4, <3>1 DEF DepsInv
    <3>3. Requires(t)' = {}
      BY <1>3, <2>1, <3>2 DEF Requires
    <3>4. QED
      BY <3>3
  <2>2. CASE t # s /\ t \in DOMAIN latest
    <3>1. <<t, latest[t]>> \in DOMAIN versions
      BY <2>2 DEF DepsInv
    <3>2. QED
      BY <1>2, <1>3, <2>2, <3>1 DEF Requires
  <2>3. CASE t # s /\ t \notin DOMAIN latest
    BY <1>3, <2>3 DEF Requires
  <2>4. QED
    BY <2>1, <2>2, <2>3
<1> HIDE DEF x, row
<1>7. again' \cap DOMAIN submitted' = {} /\ Acyclic => Separated'
  BY <1>6, LessIsSeparated, DepsAreSkills
<1>8. QED
  BY <1>1, <1>5, <1>7, SeparatedKeepsDeps DEF DepsInv

LEMMA DepsStep ==
    ASSUME DepsInv, [MarketNext]_marketVars
    PROVE  DepsInv'
<1>1. CASE UNCHANGED reviewVars
  <2>1. /\ versions' = versions /\ latest' = latest /\ submitted' = submitted /\ again' = again
    BY <1>1 DEF reviewVars
  <2>2. RowsOfDeps'
    BY <2>1 DEF DepsInv, RowsOfDeps
  <2>3. \A t \in Skills : Requires(t)' \subseteq Requires(t)
    BY <2>1 DEF Requires
  <2>4. Acyclic => Separated'
    BY <2>3, LessIsSeparated, DepsAreSkills
  <2>5. QED
    BY <2>1, <2>2, <2>4, SeparatedKeepsDeps DEF DepsInv
<1>2. ASSUME NEW s \in Skills, NEW v, ApproveVersion(s, v)
      PROVE  DepsInv'
  <2>1. /\ versions' = [versions EXCEPT ![<<s, v>>].status = "approved"]
        /\ latest' = latest /\ submitted' = submitted /\ again \subseteq again'
    BY <1>2 DEF ApproveVersion
  <2>2. QED
    BY <2>1, ReviewKeepsDeps
<1>3. ASSUME NEW s \in Skills, NEW v, RejectVersion(s, v)
      PROVE  DepsInv'
  <2>1. /\ versions' = [versions EXCEPT ![<<s, v>>].status = "rejected"]
        /\ latest' = latest /\ submitted' = submitted /\ again \subseteq again'
    BY <1>3 DEF RejectVersion, history
  <2>2. QED
    BY <2>1, ReviewKeepsDeps
<1>4. QED
  BY <1>1, <1>2, <1>3, MarketMove, SubmitKeepsDeps, UploadKeepsDeps

(* As long as no upload makes an older version the latest again, what the  *)
(* skills require is a hierarchy: the check of a submission, on the latest *)
(* versions of that moment, is enough for the versions to come             *)
(* (internal_skill_deploy/handler.py:66-104).                              *)
THEOREM MarketDepsAcyclic ==
    ASSUME IsFiniteSet(Skills)
    PROVE  MarketSpec => []DepsAcyclic
<1>1. MarketInit => DepsInv
  BY DepsStart
<1>2. DepsInv /\ [MarketNext]_marketVars => DepsInv'
  BY DepsStep
<1>3. DepsInv => DepsAcyclic
  BY DEF DepsInv
<1>4. QED
  BY <1>1, <1>2, <1>3, PTL DEF MarketSpec

-----------------------------------------------------------------------------
(* What skills require, as it is found for agents.                         *)

LEMMA SeqOfSet ==
    ASSUME NEW S, IsFiniteSet(S)
    PROVE  /\ SetToSeq(S) \in Seq(S)
           /\ Len(SetToSeq(S)) = Cardinality(S)
           /\ ToSet(SetToSeq(S)) = S
<1> DEFINE n == Cardinality(S)
<1>1. n \in Nat /\ ExistsBijection(1 .. n, S)
  BY FS_CardinalityType
<1>2. PICK f \in Bijection(1 .. n, S) : TRUE
  BY <1>1 DEF ExistsBijection
<1>3. f \in [1 .. n -> S] /\ IsInjective(f)
  BY <1>2 DEF Bijection, Injection, IsInjective
<1>4. SetToSeq(S) \in [1 .. n -> S] /\ IsInjective(SetToSeq(S))
  BY <1>3 DEF SetToSeq
<1>5. SetToSeq(S) \in Injection(1 .. n, S)
  BY <1>4 DEF Injection, IsInjective
<1>6. SetToSeq(S) \in Surjection(1 .. n, S)
  <2>1. IsFiniteSet(1 .. n) /\ Cardinality(1 .. n) = n
    BY <1>1, FS_Interval
  <2>2. QED
    BY <1>5, <2>1, FS_Injection
<1>7. QED
  BY <1>1, <1>4, <1>6 DEF Surjection, ToSet

\* One call of a walk, with f for the calls it makes.
Below(f, left, s, visited) ==
    IF s \in ToSet(visited) THEN visited
    ELSE f[<<left - 1, SetToSeq(requires[s]), Append(visited, s)>>]

OneCall(f, left, ids, visited) ==
    IF left = 0 \/ ids = <<>> THEN visited
    ELSE f[<<left, Tail(ids), Below(f, left, Head(ids), visited)>>]

LEMMA ResolveIsCalls ==
    ResolveFrom = CHOOSE f : f = [walk \in Walks |-> OneCall(f, walk[1], walk[2], walk[3])]
BY DEF ResolveFrom, OneCall, Below

SkillsFinite == 
    /\ IsFiniteSet(SkillIds) /\ MaxDepth \in Nat
    /\ requires \in [SkillIds -> SUBSET SkillIds]

\* How many calls a walk takes at most.
Height(left, ids) == left * (Cardinality(SkillIds) + 1) + Len(ids)

\* The calls that a walk makes are lower.
LEMMA CallsAreLower ==
    ASSUME SkillsFinite,
           NEW left \in 0 .. MaxDepth + 1, left # 0,
           NEW ids \in Seq(SkillIds), ids # <<>>,
           NEW visited \in Seq(SkillIds)
    PROVE  /\ Height(left, ids) \in Nat
           /\ Head(ids) \in SkillIds /\ left - 1 \in 0 .. MaxDepth + 1
           /\ SetToSeq(requires[Head(ids)]) \in Seq(SkillIds)
           /\ ToSet(SetToSeq(requires[Head(ids)])) = requires[Head(ids)]
           /\ Append(visited, Head(ids)) \in Seq(SkillIds)
           /\ Height(left - 1, SetToSeq(requires[Head(ids)])) \in Nat
           /\ Height(left - 1, SetToSeq(requires[Head(ids)])) < Height(left, ids)
           /\ Tail(ids) \in Seq(SkillIds)
           /\ Height(left, Tail(ids)) \in Nat
           /\ Height(left, Tail(ids)) < Height(left, ids)
<1> DEFINE n == Cardinality(SkillIds)  R == requires[Head(ids)]
<1>1. n \in Nat /\ Head(ids) \in SkillIds /\ R \in SUBSET SkillIds
  BY FS_CardinalityType DEF SkillsFinite
<1>2. IsFiniteSet(R) /\ Cardinality(R) <= n /\ Cardinality(R) \in Nat
  BY <1>1, FS_Subset, FS_CardinalityType DEF SkillsFinite
<1>3. SetToSeq(R) \in Seq(R) /\ Len(SetToSeq(R)) = Cardinality(R) /\ ToSet(SetToSeq(R)) = R
  BY <1>2, SeqOfSet
<1>4. SetToSeq(R) \in Seq(SkillIds)
  BY <1>1, <1>3
<1>5. left \in Nat /\ left - 1 \in Nat /\ Len(ids) \in Nat /\ Len(ids) # 0
      /\ Len(Tail(ids)) = Len(ids) - 1
  BY DEF SkillsFinite
<1>6. left * (n + 1) = (left - 1) * (n + 1) + (n + 1)
      /\ left * (n + 1) \in Nat /\ (left - 1) * (n + 1) \in Nat
  <2>1. \A a, b \in Nat : a * b \in Nat /\ (a - 1) * b + b = a * b
    OBVIOUS
  <2> DEFINE b == n + 1
  <2>2. b \in Nat
    BY <1>1
  <2> HIDE DEF b
  <2>3. left * b \in Nat /\ (left - 1) * b + b = left * b
    BY <1>5, <2>1, <2>2
  <2>4. (left - 1) * b \in Nat
    BY <1>5, <2>1, <2>2
  <2>5. QED
    BY <2>3, <2>4 DEF b
<1>7. left \in 0 .. MaxDepth + 1 /\ left - 1 \in 0 .. MaxDepth + 1
      /\ Append(visited, Head(ids)) \in Seq(SkillIds) /\ Tail(ids) \in Seq(SkillIds)
  BY <1>1 DEF SkillsFinite
<1>8. Height(left, ids) = left * (n + 1) + Len(ids)
      /\ Height(left, Tail(ids)) = left * (n + 1) + (Len(ids) - 1)
      /\ Height(left - 1, SetToSeq(R)) = (left - 1) * (n + 1) + Cardinality(R)
  BY <1>3, <1>5 DEF Height
<1> DEFINE a == left * (n + 1)  b == (left - 1) * (n + 1)
<1>9. a = b + (n + 1) /\ a \in Nat /\ b \in Nat
  BY <1>6
<1> HIDE DEF n, R, a, b
<1>10. /\ a + Len(ids) \in Nat /\ a + (Len(ids) - 1) \in Nat
       /\ a + (Len(ids) - 1) < a + Len(ids)
       /\ b + Cardinality(R) \in Nat /\ b + Cardinality(R) < a + Len(ids)
  BY <1>1, <1>2, <1>5, <1>9
<1>11. QED
  BY <1>1, <1>3, <1>4, <1>7, <1>8, <1>10 DEF n, R, a, b

Levels == 0 .. MaxDepth + 1

WalkFunctions == [Walks -> Seq(SkillIds)]

LEMMA WalkParts ==
    /\ \A left \in Levels, ids, visited \in Seq(SkillIds) : <<left, ids, visited>> \in Walks
    /\ \A walk \in Walks :
          /\ walk[1] \in Levels /\ walk[2] \in Seq(SkillIds) /\ walk[3] \in Seq(SkillIds)
          /\ walk = <<walk[1], walk[2], walk[3]>>
BY DEF Walks, Levels

LEMMA HeightIsNat ==
    ASSUME SkillsFinite, NEW left \in Levels, NEW ids \in Seq(SkillIds)
    PROVE  Height(left, ids) \in Nat
<1>1. Cardinality(SkillIds) \in Nat
  BY FS_CardinalityType DEF SkillsFinite
<1>2. left \in Nat /\ Len(ids) \in Nat
  BY DEF Levels, SkillsFinite
<1>3. \A a, b \in Nat : a * b \in Nat
  OBVIOUS
<1>4. left * (Cardinality(SkillIds) + 1) \in Nat
  BY <1>1, <1>2, <1>3
<1>5. QED
  BY <1>2, <1>4 DEF Height

LEMMA CallIsSeq ==
    ASSUME SkillsFinite, NEW f \in WalkFunctions,
           NEW left \in Levels, NEW ids \in Seq(SkillIds), NEW visited \in Seq(SkillIds)
    PROVE  OneCall(f, left, ids, visited) \in Seq(SkillIds)
<1>1. CASE left = 0 \/ ids = <<>>
  BY <1>1 DEF OneCall
<1>2. CASE left # 0 /\ ids # <<>>
  <2>1. /\ Head(ids) \in SkillIds /\ left - 1 \in Levels
        /\ SetToSeq(requires[Head(ids)]) \in Seq(SkillIds)
        /\ Append(visited, Head(ids)) \in Seq(SkillIds) /\ Tail(ids) \in Seq(SkillIds)
    BY <1>2, CallsAreLower DEF Levels
  <2>2. Below(f, left, Head(ids), visited) \in Seq(SkillIds)
    BY <2>1, WalkParts DEF Below, WalkFunctions
  <2>3. QED
    BY <1>2, <2>1, <2>2, WalkParts DEF OneCall, WalkFunctions
<1>3. QED
  BY <1>1, <1>2

LEMMA SameCalls ==
    ASSUME SkillsFinite, NEW f \in WalkFunctions, NEW g \in WalkFunctions,
           NEW left \in Levels, NEW ids \in Seq(SkillIds), NEW visited \in Seq(SkillIds),
           \A l \in Levels, i, v \in Seq(SkillIds) :
              Height(l, i) < Height(left, ids) => f[<<l, i, v>>] = g[<<l, i, v>>]
    PROVE  OneCall(f, left, ids, visited) = OneCall(g, left, ids, visited)
<1>1. CASE left = 0 \/ ids = <<>>
  BY <1>1 DEF OneCall
<1>2. CASE left # 0 /\ ids # <<>>
  <2>1. /\ Head(ids) \in SkillIds /\ left - 1 \in Levels
        /\ SetToSeq(requires[Head(ids)]) \in Seq(SkillIds)
        /\ Append(visited, Head(ids)) \in Seq(SkillIds) /\ Tail(ids) \in Seq(SkillIds)
        /\ Height(left - 1, SetToSeq(requires[Head(ids)])) < Height(left, ids)
        /\ Height(left, Tail(ids)) < Height(left, ids)
    BY <1>2, CallsAreLower DEF Levels
  <2> DEFINE l2 == left - 1
             i2 == SetToSeq(requires[Head(ids)])
             v2 == Append(visited, Head(ids))
             below == <<l2, i2, v2>>
  <2>2. below \in Walks /\ f[below] = g[below]
    <3>1. l2 \in Levels /\ i2 \in Seq(SkillIds) /\ v2 \in Seq(SkillIds)
          /\ Height(l2, i2) < Height(left, ids)
      BY <2>1
    <3> HIDE DEF l2, i2, v2
    <3>2. QED
      BY <3>1, WalkParts
  <2>3. Below(f, left, Head(ids), visited) = Below(g, left, Head(ids), visited)
    BY <2>2 DEF Below
  <2>4. Below(f, left, Head(ids), visited) \in Seq(SkillIds)
    BY <2>2 DEF Below, WalkFunctions
  <2>5. \A v \in Seq(SkillIds) : f[<<left, Tail(ids), v>>] = g[<<left, Tail(ids), v>>]
    BY <2>1
  <2>6. QED
    BY <1>2, <2>3, <2>4, <2>5 DEF OneCall
<1>3. QED
  BY <1>1, <1>2

RightUpTo(f, k) ==
    /\ f \in WalkFunctions
    /\ \A left \in Levels, ids, visited \in Seq(SkillIds) :
          Height(left, ids) <= k => f[<<left, ids, visited>>] = OneCall(f, left, ids, visited)

LEMMA RightOnesAgree ==
    ASSUME SkillsFinite, NEW k \in Nat, NEW f, NEW g, RightUpTo(f, k), RightUpTo(g, k)
    PROVE  \A left \in Levels, ids, visited \in Seq(SkillIds) :
              Height(left, ids) <= k => f[<<left, ids, visited>>] = g[<<left, ids, visited>>]
<1> DEFINE T == {n \in Nat : \A left \in Levels, ids, visited \in Seq(SkillIds) :
                    Height(left, ids) = n /\ n <= k =>
                        f[<<left, ids, visited>>] = g[<<left, ids, visited>>]}
<1>1. ASSUME NEW n \in Nat, \A m \in Nat : m < n => m \in T
      PROVE  n \in T
  <2>1. SUFFICES ASSUME NEW left \in Levels, NEW ids \in Seq(SkillIds), NEW visited \in Seq(SkillIds),
                        Height(left, ids) = n, n <= k
                 PROVE  f[<<left, ids, visited>>] = g[<<left, ids, visited>>]
    OBVIOUS
  <2>2. ASSUME NEW l \in Levels, NEW i \in Seq(SkillIds), NEW v \in Seq(SkillIds),
               Height(l, i) < Height(left, ids)
        PROVE  f[<<l, i, v>>] = g[<<l, i, v>>]
    <3>1. Height(l, i) \in Nat /\ Height(l, i) < n /\ Height(l, i) <= k
      BY <2>1, <2>2, HeightIsNat
    <3>2. QED
      BY <1>1, <3>1
  <2>3. OneCall(f, left, ids, visited) = OneCall(g, left, ids, visited)
    BY <2>2, SameCalls DEF RightUpTo
  <2>4. QED
    BY <2>1, <2>3 DEF RightUpTo
<1> HIDE DEF T
<1>2. Nat \subseteq T
  BY <1>1, NatOrderInduction
<1>3. QED
  BY <1>2, HeightIsNat DEF T

LEMMA RightOneExists ==
    ASSUME SkillsFinite, NEW k \in Nat
    PROVE  \E f : RightUpTo(f, k)
<1> DEFINE Better(f) == [walk \in Walks |-> OneCall(f, walk[1], walk[2], walk[3])]
           T == {n \in Nat : \E f : RightUpTo(f, n)}
<1>1. ASSUME NEW n \in Nat, NEW f \in WalkFunctions,
             \A l \in Levels, i, v \in Seq(SkillIds) :
                Height(l, i) < n => f[<<l, i, v>>] = OneCall(f, l, i, v)
      PROVE  RightUpTo(Better(f), n)
  <2>1. Better(f) \in WalkFunctions
    BY CallIsSeq, WalkParts DEF WalkFunctions
  <2>2. \A l \in Levels, i, v \in Seq(SkillIds) : Better(f)[<<l, i, v>>] = OneCall(f, l, i, v)
    BY WalkParts
  <2>3. ASSUME NEW left \in Levels, NEW ids \in Seq(SkillIds), NEW visited \in Seq(SkillIds),
               Height(left, ids) <= n
        PROVE  OneCall(f, left, ids, visited) = OneCall(Better(f), left, ids, visited)
    <3>1. \A l \in Levels, i, v \in Seq(SkillIds) :
             Height(l, i) < Height(left, ids) => f[<<l, i, v>>] = Better(f)[<<l, i, v>>]
      BY <1>1, <2>2, <2>3, HeightIsNat
    <3> HIDE DEF Better
    <3>2. QED
      BY <2>1, <3>1, SameCalls
  <2> HIDE DEF Better
  <2>4. QED
    BY <2>1, <2>2, <2>3 DEF RightUpTo
<1> HIDE DEF Better
<1>2. 0 \in T
  <2> DEFINE f == [walk \in Walks |-> <<>>]
  <2>1. f \in WalkFunctions
    BY DEF WalkFunctions
  <2>2. \A l \in Levels, i \in Seq(SkillIds) : ~ (Height(l, i) < 0)
    BY HeightIsNat
  <2>3. RightUpTo(Better(f), 0)
    BY <1>1, <2>1, <2>2
  <2>4. QED
    BY <2>3
<1>3. ASSUME NEW n \in Nat, n \in T
      PROVE  n + 1 \in T
  <2>1. PICK f : RightUpTo(f, n)
    BY <1>3
  <2>2. \A l \in Levels, i, v \in Seq(SkillIds) :
           Height(l, i) < n + 1 => f[<<l, i, v>>] = OneCall(f, l, i, v)
    BY <2>1, HeightIsNat DEF RightUpTo
  <2>3. n + 1 \in Nat /\ f \in WalkFunctions
    BY <2>1 DEF RightUpTo
  <2>4. RightUpTo(Better(f), n + 1)
    BY <1>1, <2>2, <2>3
  <2>5. QED
    BY <2>3, <2>4
<1> HIDE DEF T
<1>4. k \in T
  BY <1>2, <1>3, NatSetInduction
<1>5. QED
  BY <1>4 DEF T

LEMMA ResolveCalls ==
    ASSUME SkillsFinite
    PROVE  \A left \in Levels, ids, visited \in Seq(SkillIds) :
              ResolveFrom[<<left, ids, visited>>] = OneCall(ResolveFrom, left, ids, visited)
<1> DEFINE G == [walk \in Walks |-> (CHOOSE f : RightUpTo(f, Height(walk[1], walk[2])))[walk]]
<1>1. ASSUME NEW n \in Nat
      PROVE  RightUpTo(CHOOSE f : RightUpTo(f, n), n)
  BY RightOneExists
<1>2. ASSUME NEW n \in Nat, NEW left \in Levels, NEW ids \in Seq(SkillIds), NEW visited \in Seq(SkillIds),
             Height(left, ids) <= n
      PROVE  G[<<left, ids, visited>>] = (CHOOSE f : RightUpTo(f, n))[<<left, ids, visited>>]
  <2> DEFINE h == Height(left, ids)
             f == CHOOSE f : RightUpTo(f, h)
             g == CHOOSE g : RightUpTo(g, n)
  <2>1. G[<<left, ids, visited>>] = f[<<left, ids, visited>>]
    BY WalkParts
  <2>2. h \in Nat
    BY HeightIsNat
  <2>3. RightUpTo(f, h) /\ RightUpTo(g, n)
    BY <1>1, <2>2
  <2> HIDE DEF f, g, G
  <2>4. RightUpTo(g, h)
    BY <1>2, <2>2, <2>3, HeightIsNat DEF RightUpTo
  <2>5. f[<<left, ids, visited>>] = g[<<left, ids, visited>>]
    BY <2>2, <2>3, <2>4, RightOnesAgree
  <2>6. QED
    BY <2>1, <2>5 DEF g
<1>3. G \in WalkFunctions
  <2>1. ASSUME NEW walk \in Walks
        PROVE  G[walk] \in Seq(SkillIds)
    <3>1. Height(walk[1], walk[2]) \in Nat
      BY HeightIsNat, WalkParts
    <3>2. QED
      BY <1>1, <3>1 DEF RightUpTo, WalkFunctions
  <2>2. QED
    BY <2>1 DEF WalkFunctions
<1> HIDE DEF G
<1>4. ASSUME NEW left \in Levels, NEW ids \in Seq(SkillIds), NEW visited \in Seq(SkillIds)
      PROVE  G[<<left, ids, visited>>] = OneCall(G, left, ids, visited)
  <2> DEFINE h == Height(left, ids)
             f == CHOOSE f : RightUpTo(f, h)
  <2>1. h \in Nat /\ RightUpTo(f, h)
    BY <1>1, HeightIsNat
  <2>2. \A l \in Levels, i, v \in Seq(SkillIds) :
           Height(l, i) < h => f[<<l, i, v>>] = G[<<l, i, v>>]
    BY <1>2, <2>1, HeightIsNat
  <2>3. G[<<left, ids, visited>>] = f[<<left, ids, visited>>]
    BY <1>2, <2>1
  <2> HIDE DEF f
  <2>4. OneCall(f, left, ids, visited) = OneCall(G, left, ids, visited)
    BY <1>3, <2>1, <2>2, SameCalls DEF RightUpTo
  <2>5. f[<<left, ids, visited>>] = OneCall(f, left, ids, visited)
    BY <2>1 DEF RightUpTo
  <2>6. QED
    BY <2>3, <2>4, <2>5
<1>5. G = [walk \in Walks |-> OneCall(G, walk[1], walk[2], walk[3])]
  BY <1>3, <1>4, WalkParts DEF WalkFunctions
<1>6. ResolveFrom = [walk \in Walks |-> OneCall(ResolveFrom, walk[1], walk[2], walk[3])]
  BY <1>5, ResolveIsCalls
<1>7. QED
  BY <1>6, WalkParts

LEMMA ElementsOf ==
    ASSUME NEW S, NEW v \in Seq(S), NEW s \in S
    PROVE  /\ ToSet(v) \subseteq S
           /\ Append(v, s) \in Seq(S) /\ ToSet(Append(v, s)) = ToSet(v) \cup {s}
           /\ v # <<>> => Head(v) \in S /\ Tail(v) \in Seq(S) /\ ToSet(v) = {Head(v)} \cup ToSet(Tail(v))
           /\ IsInjective(v) /\ s \notin ToSet(v) => IsInjective(Append(v, s))
<1>1. ToSet(v) \subseteq S
  BY DEF ToSet
<1>2. Append(v, s) \in Seq(S) /\ Len(Append(v, s)) = Len(v) + 1 /\ Len(v) \in Nat
      /\ DOMAIN v = 1 .. Len(v)
      /\ DOMAIN Append(v, s) = 1 .. Len(v) + 1
      /\ \A i \in 1 .. Len(v) + 1 : Append(v, s)[i] = IF i = Len(v) + 1 THEN s ELSE v[i]
  OBVIOUS
<1>3. ToSet(Append(v, s)) = ToSet(v) \cup {s}
  <2> DEFINE w == Append(v, s)  n == Len(v)
  <2>1. n \in Nat /\ DOMAIN v = 1 .. n /\ DOMAIN w = 1 .. n + 1
        /\ \A i \in 1 .. n + 1 : w[i] = IF i = n + 1 THEN s ELSE v[i]
    BY <1>2
  <2> HIDE DEF w, n
  <2>2. \A x : x \in ToSet(w) => x \in ToSet(v) \cup {s}
    BY <2>1 DEF ToSet
  <2>3. s \in ToSet(w)
    <3>1. n + 1 \in DOMAIN w /\ w[n + 1] = s
      BY <2>1
    <3>2. QED
      BY <3>1 DEF ToSet
  <2>4. \A x : x \in ToSet(v) => x \in ToSet(w)
    BY <2>1 DEF ToSet
  <2>5. QED
    BY <2>2, <2>3, <2>4 DEF w
<1>4. ASSUME v # <<>>
      PROVE  Head(v) \in S /\ Tail(v) \in Seq(S) /\ ToSet(v) = {Head(v)} \cup ToSet(Tail(v))
  <2> DEFINE w == Tail(v)  n == Len(v)
  <2>1. n \in Nat \ {0} /\ DOMAIN v = 1 .. n /\ DOMAIN w = 1 .. n - 1 /\ Head(v) = v[1]
        /\ \A i \in 1 .. n - 1 : w[i] = v[i + 1]
    BY <1>4
  <2>2. w \in Seq(S) /\ v[1] \in S
    BY <1>4
  <2> HIDE DEF w, n
  <2>3. ASSUME NEW x \in ToSet(v)
        PROVE  x \in {v[1]} \cup ToSet(w)
    <3>1. PICK i \in 1 .. n : v[i] = x
      BY <2>1, <2>3 DEF ToSet
    <3>2. CASE i = 1
      BY <3>1, <3>2
    <3>3. CASE i # 1
      <4>1. i - 1 \in 1 .. n - 1 /\ (i - 1) + 1 = i
        BY <2>1, <3>1, <3>3
      <4>2. w[i - 1] = x
        BY <2>1, <3>1, <4>1
      <4>3. QED
        BY <2>1, <4>1, <4>2 DEF ToSet
    <3>4. QED
      BY <3>2, <3>3
  <2>4. ASSUME NEW x \in ToSet(w)
        PROVE  x \in ToSet(v)
    <3>1. PICK i \in 1 .. n - 1 : w[i] = x
      BY <2>1, <2>4 DEF ToSet
    <3>2. i + 1 \in 1 .. n /\ v[i + 1] = x
      BY <2>1, <3>1
    <3>3. QED
      BY <2>1, <3>2 DEF ToSet
  <2>5. v[1] \in ToSet(v)
    BY <2>1 DEF ToSet
  <2>6. QED
    BY <2>1, <2>2, <2>3, <2>4, <2>5 DEF w
<1>5. ASSUME IsInjective(v), s \notin ToSet(v)
      PROVE  IsInjective(Append(v, s))
  <2> DEFINE w == Append(v, s)  n == Len(v)
  <2>1. n \in Nat /\ DOMAIN v = 1 .. n /\ DOMAIN w = 1 .. n + 1
        /\ \A i \in 1 .. n + 1 : w[i] = IF i = n + 1 THEN s ELSE v[i]
    BY <1>2
  <2>2. \A i \in 1 .. n : v[i] # s
    BY <1>5, <2>1 DEF ToSet
  <2>3. \A i, j \in 1 .. n : v[i] = v[j] => i = j
    BY <1>5, <2>1 DEF IsInjective
  <2> HIDE DEF w, n
  <2>4. \A i, j \in 1 .. n + 1 : w[i] = w[j] => i = j
    BY <2>1, <2>2, <2>3
  <2>5. QED
    BY <2>1, <2>4 DEF IsInjective, w
<1>6. QED
  BY <1>1, <1>2, <1>3, <1>4, <1>5

LEMMA ElementsOfInjective ==
    ASSUME NEW S, IsFiniteSet(S), NEW v \in Seq(S), IsInjective(v)
    PROVE  /\ Len(v) = Cardinality(ToSet(v))
           /\ Cardinality(S) <= Len(v) => ToSet(v) = S
<1>1. Len(v) \in Nat /\ v \in [1 .. Len(v) -> S] /\ DOMAIN v = 1 .. Len(v)
  OBVIOUS
<1>2. IsFiniteSet(1 .. Len(v)) /\ Cardinality(1 .. Len(v)) = Len(v)
  BY <1>1, FS_Interval
<1>3. v \in Injection(1 .. Len(v), ToSet(v)) /\ v \in Surjection(1 .. Len(v), ToSet(v))
  BY <1>1 DEF Injection, Surjection, IsInjective, ToSet
<1>4. ToSet(v) \in SUBSET S
  BY <1>1 DEF ToSet
<1>5. Cardinality(ToSet(v)) = Len(v)
  BY <1>2, <1>3, FS_Surjection
<1>6. ASSUME Cardinality(S) <= Len(v)
      PROVE  ToSet(v) = S
  <2>1. Cardinality(ToSet(v)) <= Cardinality(S) /\ Cardinality(S) \in Nat
    BY <1>4, FS_Subset, FS_CardinalityType
  <2>2. Cardinality(S) = Cardinality(ToSet(v))
    BY <1>1, <1>5, <1>6, <2>1
  <2>3. QED
    BY <1>4, <2>2, FS_Subset
<1>7. QED
  BY <1>5, <1>6

ClosedDeps(T) == \A t \in T : requires[t] \subseteq T

Finds(r, ids, visited) ==
    /\ r \in Seq(SkillIds) /\ IsInjective(r) /\ Len(visited) <= Len(r)
    /\ ToSet(visited) \cup ToSet(ids) \subseteq ToSet(r)
    /\ \A s \in ToSet(r) \ ToSet(visited) : requires[s] \subseteq ToSet(r)
    /\ \A T \in SUBSET SkillIds :
          ClosedDeps(T) /\ ToSet(visited) \cup ToSet(ids) \subseteq T => ToSet(r) \subseteq T

LEMMA CallFinds ==
    ASSUME SkillsFinite,
           NEW left \in Levels, NEW ids \in Seq(SkillIds), NEW visited \in Seq(SkillIds),
           IsInjective(visited), Cardinality(SkillIds) <= left + Len(visited),
           \A l \in Levels, i, v \in Seq(SkillIds) :
              /\ Height(l, i) < Height(left, ids)
              /\ IsInjective(v) /\ Cardinality(SkillIds) <= l + Len(v)
              => Finds(ResolveFrom[<<l, i, v>>], i, v)
    PROVE  Finds(OneCall(ResolveFrom, left, ids, visited), ids, visited)
<1>0. Len(visited) \in Nat /\ left \in Nat /\ Cardinality(SkillIds) \in Nat
  BY FS_CardinalityType DEF Levels, SkillsFinite
<1>1. CASE left = 0
  <2>1. Cardinality(SkillIds) <= Len(visited)
    BY <1>0, <1>1
  <2>2. ToSet(visited) = SkillIds
    BY <2>1, ElementsOfInjective DEF SkillsFinite
  <2>3. ToSet(ids) \subseteq SkillIds
    BY DEF ToSet
  <2>4. QED
    BY <1>0, <1>1, <2>2, <2>3 DEF OneCall, Finds
<1>2. CASE ids = <<>>
  <2>1. ToSet(ids) = {}
    BY <1>2 DEF ToSet
  <2>2. QED
    BY <1>0, <1>2, <2>1 DEF OneCall, Finds
<1>3. CASE left # 0 /\ ids # <<>>
  <2> DEFINE s == Head(ids)
             i2 == SetToSeq(requires[s])
             v2 == Append(visited, s)
             b == Below(ResolveFrom, left, s, visited)
             r == ResolveFrom[<<left, Tail(ids), b>>]
  <2>1. /\ s \in SkillIds /\ left - 1 \in Levels
        /\ i2 \in Seq(SkillIds) /\ ToSet(i2) = requires[s]
        /\ v2 \in Seq(SkillIds) /\ Tail(ids) \in Seq(SkillIds)
        /\ Height(left - 1, i2) < Height(left, ids)
        /\ Height(left, Tail(ids)) < Height(left, ids)
    BY <1>3, CallsAreLower DEF Levels
  <2>2. ToSet(ids) = {s} \cup ToSet(Tail(ids))
    BY <1>3, <2>1, ElementsOf
  <2>3. /\ b \in Seq(SkillIds) /\ IsInjective(b) /\ Len(visited) <= Len(b)
        /\ ToSet(visited) \cup {s} \subseteq ToSet(b)
        /\ \A x \in ToSet(b) \ ToSet(visited) : requires[x] \subseteq ToSet(b)
        /\ \A T \in SUBSET SkillIds :
              ClosedDeps(T) /\ ToSet(visited) \cup {s} \subseteq T => ToSet(b) \subseteq T
    <3>1. CASE s \in ToSet(visited)
      <4>1. b = visited
        BY <3>1 DEF Below
      <4> HIDE DEF b
      <4>2. QED
        BY <1>0, <3>1, <4>1
    <3>2. CASE s \notin ToSet(visited)
      <4>1. b = ResolveFrom[<<left - 1, i2, v2>>]
        BY <3>2 DEF Below
      <4>2. IsInjective(v2) /\ ToSet(v2) = ToSet(visited) \cup {s} /\ Len(v2) = Len(visited) + 1
        BY <2>1, <3>2, ElementsOf
      <4>3. Cardinality(SkillIds) <= (left - 1) + Len(v2)
        BY <1>0, <4>2
      <4> HIDE DEF b, i2, v2, s
      <4>4. Finds(b, i2, v2)
        <5> DEFINE l2 == left - 1
        <5>1. l2 \in Levels /\ Height(l2, i2) < Height(left, ids) /\ b = ResolveFrom[<<l2, i2, v2>>]
              /\ Cardinality(SkillIds) <= l2 + Len(v2)
          BY <2>1, <4>1, <4>3
        <5> HIDE DEF l2
        <5>2. QED
          BY <2>1, <4>2, <5>1
      <4>5. b \in Seq(SkillIds) /\ IsInjective(b) /\ Len(v2) <= Len(b) /\ Len(b) \in Nat
            /\ ToSet(v2) \cup ToSet(i2) \subseteq ToSet(b)
        BY <4>4 DEF Finds
      <4>6. \A x \in ToSet(b) \ ToSet(visited) : requires[x] \subseteq ToSet(b)
        BY <2>1, <4>2, <4>4 DEF Finds
      <4>7. ASSUME NEW T \in SUBSET SkillIds, ClosedDeps(T), ToSet(visited) \cup {s} \subseteq T
            PROVE  ToSet(b) \subseteq T
        <5>1. requires[s] \subseteq T
          BY <4>7 DEF ClosedDeps
        <5>2. ToSet(v2) \cup ToSet(i2) \subseteq T
          BY <2>1, <4>2, <4>7, <5>1
        <5>3. QED
          BY <4>4, <4>7, <5>2 DEF Finds
      <4>8. QED
        BY <1>0, <4>2, <4>5, <4>6, <4>7
    <3>3. QED
      BY <3>1, <3>2
  <2>4. Cardinality(SkillIds) <= left + Len(b)
    BY <1>0, <2>3
  <2> HIDE DEF b, s
  <2>5. Finds(r, Tail(ids), b)
    BY <2>1, <2>3, <2>4
  <2> HIDE DEF r
  <2>6. /\ r \in Seq(SkillIds) /\ IsInjective(r) /\ Len(b) <= Len(r)
        /\ ToSet(b) \cup ToSet(Tail(ids)) \subseteq ToSet(r)
    BY <2>5 DEF Finds
  <2>7. Len(visited) <= Len(r)
    BY <1>0, <2>3, <2>6
  <2>8. ASSUME NEW x \in ToSet(r) \ ToSet(visited)
        PROVE  requires[x] \subseteq ToSet(r)
    <3>1. CASE x \in ToSet(b)
      BY <2>3, <2>6, <2>8, <3>1
    <3>2. CASE x \notin ToSet(b)
      BY <2>5, <2>8, <3>2 DEF Finds
    <3>3. QED
      BY <3>1, <3>2
  <2>9. ASSUME NEW T \in SUBSET SkillIds, ClosedDeps(T), ToSet(visited) \cup ToSet(ids) \subseteq T
        PROVE  ToSet(r) \subseteq T
    <3>1. ToSet(b) \subseteq T
      BY <2>2, <2>3, <2>9
    <3>2. ToSet(b) \cup ToSet(Tail(ids)) \subseteq T
      BY <2>2, <2>9, <3>1
    <3>3. QED
      BY <2>5, <2>9, <3>2 DEF Finds
  <2>10. Finds(r, ids, visited)
    BY <2>2, <2>3, <2>6, <2>7, <2>8, <2>9 DEF Finds
  <2>11. OneCall(ResolveFrom, left, ids, visited) = r
    BY <1>3 DEF OneCall, r, b, s
  <2>12. QED
    BY <2>10, <2>11
<1>4. QED
  BY <1>1, <1>2, <1>3

LEMMA WalkFinds ==
    ASSUME SkillsFinite,
           NEW left \in Levels, NEW ids \in Seq(SkillIds), NEW visited \in Seq(SkillIds),
           IsInjective(visited), Cardinality(SkillIds) <= left + Len(visited)
    PROVE  Finds(ResolveFrom[<<left, ids, visited>>], ids, visited)
<1> DEFINE T == {n \in Nat : \A l \in Levels, i, v \in Seq(SkillIds) :
                    /\ Height(l, i) = n
                    /\ IsInjective(v) /\ Cardinality(SkillIds) <= l + Len(v)
                    => Finds(ResolveFrom[<<l, i, v>>], i, v)}
<1>1. ASSUME NEW n \in Nat, \A m \in Nat : m < n => m \in T
      PROVE  n \in T
  <2>1. SUFFICES ASSUME NEW l \in Levels, NEW i \in Seq(SkillIds), NEW v \in Seq(SkillIds),
                        Height(l, i) = n, IsInjective(v), Cardinality(SkillIds) <= l + Len(v)
                 PROVE  Finds(ResolveFrom[<<l, i, v>>], i, v)
    OBVIOUS
  <2>2. ASSUME NEW l2 \in Levels, NEW i2 \in Seq(SkillIds), NEW v2 \in Seq(SkillIds),
               Height(l2, i2) < Height(l, i),
               IsInjective(v2), Cardinality(SkillIds) <= l2 + Len(v2)
        PROVE  Finds(ResolveFrom[<<l2, i2, v2>>], i2, v2)
    <3>1. Height(l2, i2) \in Nat /\ Height(l2, i2) < n
      BY <2>1, <2>2, HeightIsNat
    <3>2. QED
      BY <1>1, <2>2, <3>1
  <2>3. Finds(OneCall(ResolveFrom, l, i, v), i, v)
    BY <2>1, <2>2, CallFinds
  <2>4. QED
    BY <2>3, ResolveCalls
<1> HIDE DEF T
<1>2. Nat \subseteq T
  BY <1>1, NatOrderInduction
<1>3. Height(left, ids) \in T
  BY <1>2, HeightIsNat
<1>4. QED
  BY <1>3 DEF T

\* What is found for some skills is all they require, each once.
LEMMA ResolutionIsComplete ==
    ASSUME IsFiniteSet(SkillIds), MaxDepth \in Nat, Cardinality(SkillIds) <= MaxDepth + 1,
           requires \in [SkillIds -> SUBSET SkillIds]
    PROVE  ResolvesAll
<1>0. SkillsFinite
  BY DEF SkillsFinite
<1>1. SUFFICES ASSUME NEW S \in SUBSET SkillIds
               PROVE  /\ ToSet(ResolveDependencies(S)) = Required(S)
                      /\ Len(ResolveDependencies(S)) = Cardinality(ToSet(ResolveDependencies(S)))
  BY DEF ResolvesAll
<1> DEFINE ids == SetToSeq(S)  r == ResolveDependencies(S)  none == <<>>
<1>2. ids \in Seq(SkillIds) /\ ToSet(ids) = S
  <2>1. IsFiniteSet(S)
    BY FS_Subset
  <2>2. ids \in Seq(S) /\ ToSet(ids) = S
    BY <2>1, SeqOfSet
  <2>3. QED
    BY <2>2
<1>3. none \in Seq(SkillIds) /\ IsInjective(none) /\ Len(none) = 0 /\ ToSet(none) = {}
  BY DEF IsInjective, ToSet
<1>4. MaxDepth + 1 \in Levels
  BY DEF Levels
<1> HIDE DEF ids, none
<1>5. Finds(ResolveFrom[<<MaxDepth + 1, ids, none>>], ids, none)
  <2> DEFINE deep == MaxDepth + 1
  <2>1. deep \in Levels /\ Cardinality(SkillIds) <= deep + Len(none)
    BY <1>3, <1>4, FS_CardinalityType
  <2> HIDE DEF deep
  <2>2. Finds(ResolveFrom[<<deep, ids, none>>], ids, none)
    BY <1>0, <1>2, <1>3, <2>1, WalkFinds
  <2>3. QED
    BY <2>2 DEF deep
<1>6. Finds(r, ids, none)
  BY <1>5 DEF ResolveDependencies, ids, none
<1> HIDE DEF r
<1>7. r \in Seq(SkillIds) /\ IsInjective(r) /\ S \subseteq ToSet(r) /\ ToSet(r) \subseteq SkillIds
      /\ ClosedDeps(ToSet(r))
      /\ \A T \in SUBSET SkillIds : ClosedDeps(T) /\ S \subseteq T => ToSet(r) \subseteq T
  BY <1>2, <1>3, <1>6, ElementsOf DEF Finds, ClosedDeps, ToSet
<1>8. ToSet(r) = Required(S)
  <2>1. \A T \in SUBSET SkillIds : S \subseteq T /\ (\A t \in T : requires[t] \subseteq T)
                                    => ToSet(r) \subseteq T
    BY <1>7 DEF ClosedDeps
  <2>2. \A t \in ToSet(r) : requires[t] \subseteq ToSet(r)
    BY <1>7 DEF ClosedDeps
  <2>3. QED
    BY <1>7, <2>1, <2>2 DEF Required
<1>9. Len(r) = Cardinality(ToSet(r))
  BY <1>7, ElementsOfInjective
<1>10. QED
  BY <1>8, <1>9 DEF r

DepsKnown == requires \in [SkillIds -> SUBSET SkillIds]

(* What is found for an agent's skills is all that they require, through   *)
(* cycles too and each once, whatever the market publishes, when there are *)
(* no more skills than a walk may enter one in another                     *)
(* (agent_skills.py:90-131).                                               *)
THEOREM DependenciesResolve ==
    ASSUME IsFiniteSet(SkillIds), MaxDepth \in Nat, Cardinality(SkillIds) <= MaxDepth + 1,
           DepSets \subseteq SUBSET SkillIds
    PROVE  SkillsSpec => []ResolvesAll
<1>1. SkillsInit => DepsKnown
  BY DEF SkillsInit, DepsKnown
<1>2. ASSUME DepsKnown, [SkillsNext]_skillVars
      PROVE  DepsKnown'
  <2>1. CASE UNCHANGED skillVars
    BY <1>2, <2>1 DEF DepsKnown, skillVars
  <2>2. ASSUME NEW a \in Holders, HolderNext(a, SkillIds)
        PROVE  DepsKnown'
    <3>1. requires' = requires
      BY <2>2 DEF HolderNext, PrepareRun, SetAgentSkills, Undeploy, AgentWrites
    <3>2. QED
      BY <1>2, <3>1 DEF DepsKnown
  <2>3. ASSUME NEW s \in SkillIds, NEW deps \in DepSets, VersionNext(s, deps)
        PROVE  DepsKnown'
    <3>1. requires' = [requires EXCEPT ![s] = deps] /\ deps \in SUBSET SkillIds
      BY <2>3 DEF VersionNext, MarketChanges
    <3>2. QED
      BY <1>2, <3>1 DEF DepsKnown
  <2>4. QED
    BY <1>2, <2>1, <2>2, <2>3 DEF SkillsNext
<1>3. DepsKnown => ResolvesAll
  BY ResolutionIsComplete DEF DepsKnown
<1>4. QED
  BY <1>1, <1>2, <1>3, PTL DEF SkillsSpec

-----------------------------------------------------------------------------
(* Conversations are kept, for any number of runs, texts and events, any   *)
(* budgets and any limits.                                                 *)
(*                                                                         *)
(* What a client is shown, what a session of the SDK is told and whom a    *)
(* run answers depend on each other only through the rows of the runs, so  *)
(* the invariant TalkInv has a part for each.  A step of one run keeps it  *)
(* if it is a RunMoves, which all eight of them are shown to be; creation, *)
(* deletion and the stream come after that.  Where a line of runs begins   *)
(* is a recursive function of the rows; its laws (LineIs, BeginIs and what *)
(* follows them by induction) are those of any rows that name rows before  *)
(* them, so that the rows before and after a step can be compared.         *)

EventKinds == {"run.queued", "context.history", "text", "tool_result", "context.fallback",
               "run.error", "run.ended"}
Speakers == {"", "fresh", "resume", "summary"}

ChatEvent == [seq : Nat, kind : EventKinds, by : Speakers, text : Nat]

\* The events of a run are numbered as they come.
Numbered(evs) ==
    /\ evs \in Seq(ChatEvent)
    /\ \A i \in 1 .. Len(evs) : evs[i].seq = i

EntryOf(n, kind, by, text) == [seq |-> n, kind |-> kind, by |-> by, text |-> text]

\* A line of runs that each answer the one before them.
Answered(rows, line) ==
    \A i \in 2 .. Len(line) : rows[line[i]].prev = line[i - 1]

QueryKinds == {"none", "resume", "fresh", "over"}
ChatStatuses == {"queued", "running", "succeeded", "failed", "deleted"}

ChatRecord == [prev : Nat, at : Nat, size : Sizes, status : ChatStatuses,
               session : 0 .. MaxRuns, asked : Nat]

QueryRecord == [query : QueryKinds, buffer : Seq(Nat), said : SUBSET Nat, past : Seq(Nat),
                from : 0 .. MaxRuns, session : 0 .. MaxRuns, ok : BOOLEAN]

TalkTyped ==
    /\ chats \in Seq(ChatRecord) /\ Len(chats) <= MaxRuns
    /\ acting \in Seq(QueryRecord) /\ Len(acting) = Len(chats)
    /\ journal \in Seq(Seq(ChatEvent)) /\ Len(journal) = Len(chats)
    /\ \A r \in Numbers : chats[r].prev < r /\ chats[r].asked < r
    /\ minds \in [1 .. MaxRuns -> Seq(Nat)]
    /\ viewer = [run |-> viewer.run, phase |-> viewer.phase, last |-> viewer.last,
                 queue |-> viewer.queue, sent |-> viewer.sent]
    /\ viewer.run \in 0 .. Len(chats)
    /\ doomed \subseteq ChatRows

\* A run that waits has asked nothing, and what is resumed is a session.
QueryOK(c, a) ==
    /\ c.status = "queued" => a.query = "none"
    /\ a.query = "resume" => a.from # 0

OneVoice(evs) ==
    \A i, j \in TextsAt(evs) : /\ evs[i].by = evs[j].by
                               /\ evs[i].text = evs[j].text => i = j

\* What is emitted is emitted once, and shown at once unless a session is being resumed.
Answers(a, evs) ==
    /\ Numbered(evs)
    /\ a.query \in {"none", "resume"} => TextsAt(evs) = {}
    /\ a.query = "none" => a.said = {}
    /\ a.query # "resume" => a.buffer = <<>>
    /\ \A i \in 1 .. Len(a.buffer) : a.buffer[i] \in a.said
    /\ \A i, j \in 1 .. Len(a.buffer) : a.buffer[i] = a.buffer[j] => i = j
    /\ a.query = "fresh" => \A i \in TextsAt(evs) : evs[i].by = "fresh" /\ evs[i].text \in a.said
    /\ OneVoice(evs)

\* The history of a run is of ended runs, each answering the one before it.
PastOK(rows, past, r) ==
    /\ \A i \in 1 .. Len(past) : /\ past[i] \in 1 .. r - 1
                                 /\ rows[past[i]].status \notin {"queued", "running"}
    /\ \A i, j \in 1 .. Len(past) : i < j => past[i] < past[j]
    /\ past # <<>> => Answered(rows, Append(past, r))

\* No session has the round of a run that waits or is still resuming a session.
Unheard(c, a) == c.status \in {"queued", "running"} /\ a.query \in {"none", "resume"}

MindsOK ==
    \A s \in 1 .. MaxRuns :
        /\ \A i \in 1 .. Len(minds[s]) :
              /\ minds[s][i] \in Numbers
              /\ ~ Unheard(chats[minds[s][i]], acting[minds[s][i]])
        /\ \A i, j \in 1 .. Len(minds[s]) : minds[s][i] = minds[s][j] => i = j

\* What is listed comes next after what was sent.
IsShown(v, evs) ==
    /\ v.sent \in Seq(ChatEvent) /\ v.queue \in Seq(ChatEvent)
    /\ v.last = Len(v.sent)
    /\ Len(v.sent) + Len(v.queue) <= Len(evs)
    /\ \A i \in 1 .. Len(v.sent) : v.sent[i] = evs[i]
    /\ \A i \in 1 .. Len(v.queue) : v.queue[i] = evs[Len(v.sent) + i]

Viewing ==
    /\ viewer.run \in ChatRows => IsShown(viewer, journal[viewer.run])
    /\ viewer.run = 0 => viewer.sent = <<>> /\ viewer.queue = <<>> /\ viewer.last = 0

\* A deletion takes whole beginnings; a run it leaves whose beginning it takes was
\* created meanwhile, and asked by nobody for a conversation.
Continuing ==
    /\ Continues
    /\ \A r \in doomed : chats[r].prev \in ChatRows => chats[r].prev \in doomed
    /\ \A r \in ChatRows \ doomed : Beginning(ChatRows, r) \in doomed => chats[r].asked = 0

TalkInv ==
    /\ TalkTyped
    /\ \A r \in Numbers : /\ QueryOK(chats[r], acting[r])
                          /\ Answers(acting[r], journal[r])
                          /\ PastOK(chats, acting[r].past, r)
    /\ MindsOK /\ Viewing /\ Continuing

-----------------------------------------------------------------------------
(* Lines of runs, in any rows.                                             *)

\* Rows that name rows before them, and some of them.
InOrder(rows, n, listed) ==
    /\ n \in Nat /\ listed \subseteq 1 .. n
    /\ \A q \in 1 .. n : rows[q].prev \in 0 .. q - 1

LineOf(rows, listed, r) ==
    LET line[q \in 0 .. r] == IF q \in listed THEN Append(line[rows[q].prev], q) ELSE <<>>
    IN  line[r]

\* Line is LineOf among the rows there are.
LEMMA LineOfChats == \A listed, r : Line(listed, r) = LineOf(chats, listed, r)
BY DEF Line, LineOf

IsLine(f, rows, listed, r) ==
    f = [q \in 0 .. r |-> IF q \in listed THEN Append(f[rows[q].prev], q) ELSE <<>>]

LEMMA LineOfIsLine ==
    ASSUME NEW rows, NEW listed, NEW r
    PROVE  LineOf(rows, listed, r) = (CHOOSE f : IsLine(f, rows, listed, r))[r]
BY DEF LineOf, IsLine

\* There is such a function, up to any run.
LEMMA LineExists ==
    ASSUME NEW rows, NEW n, NEW listed, InOrder(rows, n, listed)
    PROVE  \A k \in 0 .. n : \E f : IsLine(f, rows, listed, k)
<1> DEFINE T == {k \in Nat : k <= n => \E f : IsLine(f, rows, listed, k)}
<1>1. 0 \in T
  <2> DEFINE f == [q \in 0 .. 0 |-> <<>>]
  <2>1. IsLine(f, rows, listed, 0)
    BY DEF IsLine, InOrder
  <2>2. QED
    BY <2>1
<1>2. ASSUME NEW k \in Nat, k \in T
      PROVE  k + 1 \in T
  <2>1. SUFFICES ASSUME k + 1 <= n
                 PROVE  \E f : IsLine(f, rows, listed, k + 1)
    OBVIOUS
  <2>2. PICK f : IsLine(f, rows, listed, k)
    BY <1>2, <2>1 DEF InOrder
  <2> DEFINE g == [q \in 0 .. k + 1 |->
                      IF q \in listed THEN Append(f[rows[q].prev], q) ELSE <<>>]
  <2>3. \A q \in 0 .. k : g[q] = f[q]
    <3>1. \A q \in 0 .. k : f[q] = IF q \in listed THEN Append(f[rows[q].prev], q) ELSE <<>>
      BY <2>2, Zenon DEF IsLine
    <3>2. \A q \in 0 .. k : q \in 0 .. k + 1
      OBVIOUS
    <3>3. \A q \in 0 .. k + 1 : g[q] = IF q \in listed THEN Append(f[rows[q].prev], q) ELSE <<>>
      OBVIOUS
    <3> HIDE DEF g
    <3>4. QED
      BY <3>1, <3>2, <3>3, Zenon
  <2>4. \A q \in 0 .. k + 1 : q \in listed => rows[q].prev \in 0 .. k
    BY <2>1 DEF InOrder
  <2>5. \A q \in 0 .. k + 1 : g[q] = IF q \in listed THEN Append(g[rows[q].prev], q) ELSE <<>>
    BY <2>3, <2>4
  <2>6. IsLine(g, rows, listed, k + 1)
    BY <2>5 DEF IsLine
  <2>7. QED
    BY <2>6
<1> HIDE DEF T
<1>3. Nat \subseteq T
  BY <1>1, <1>2, NatSetInduction
<1>4. QED
  BY <1>3 DEF T, InOrder

\* Two of them agree where both are defined.
LEMMA LinesAgree ==
    ASSUME NEW rows, NEW n, NEW listed, InOrder(rows, n, listed),
           NEW k \in 0 .. n, NEW l \in 0 .. k,
           NEW f, NEW g, IsLine(f, rows, listed, k), IsLine(g, rows, listed, l)
    PROVE  \A q \in 0 .. l : f[q] = g[q]
<1> DEFINE T == {q \in Nat : q <= l => f[q] = g[q]}
<1>1. ASSUME NEW q \in Nat, \A p \in Nat : p < q => p \in T
      PROVE  q \in T
  <2>1. SUFFICES ASSUME q <= l
                 PROVE  f[q] = g[q]
    OBVIOUS
  <2>2. q \in 0 .. l /\ q \in 0 .. k /\ n \in Nat
    BY <2>1 DEF InOrder
  <2>3. /\ f[q] = IF q \in listed THEN Append(f[rows[q].prev], q) ELSE <<>>
        /\ g[q] = IF q \in listed THEN Append(g[rows[q].prev], q) ELSE <<>>
    BY <2>2 DEF IsLine
  <2>4. CASE q \in listed
    <3>1. rows[q].prev \in Nat /\ rows[q].prev < q /\ rows[q].prev <= l
      BY <2>2, <2>4 DEF InOrder
    <3>2. f[rows[q].prev] = g[rows[q].prev]
      BY <1>1, <3>1
    <3>3. QED
      BY <2>3, <3>2
  <2>5. QED
    BY <2>3, <2>4
<1> HIDE DEF T
<1>2. Nat \subseteq T
  BY <1>1, NatOrderInduction
<1>3. QED
  BY <1>2 DEF T, InOrder

\* What LineOf computes.
LEMMA LineIs ==
    ASSUME NEW rows, NEW n, NEW listed, InOrder(rows, n, listed), NEW r \in 0 .. n
    PROVE  LineOf(rows, listed, r) =
              IF r \in listed THEN Append(LineOf(rows, listed, rows[r].prev), r) ELSE <<>>
<1> DEFINE F(k) == CHOOSE f : IsLine(f, rows, listed, k)
<1>1. \A k \in 0 .. n : IsLine(F(k), rows, listed, k)
  BY LineExists
<1>2. \A k \in 0 .. n : LineOf(rows, listed, k) = F(k)[k]
  BY LineOfIsLine
<1>3. LineOf(rows, listed, r) = IF r \in listed THEN Append(F(r)[rows[r].prev], r) ELSE <<>>
  <2>1. r \in 0 .. r
    BY DEF InOrder
  <2> HIDE DEF F
  <2>2. QED
    BY <1>1, <1>2, <2>1 DEF IsLine
<1>4. ASSUME r \in listed
      PROVE  F(r)[rows[r].prev] = LineOf(rows, listed, rows[r].prev)
  <2> DEFINE p == rows[r].prev
  <2>1. p \in 0 .. r /\ p \in 0 .. n /\ p \in 0 .. p
    BY <1>4 DEF InOrder
  <2>2. F(r)[p] = F(p)[p]
    <3>1. IsLine(F(r), rows, listed, r) /\ IsLine(F(p), rows, listed, p)
      BY <1>1, <2>1
    <3> HIDE DEF F, p
    <3>2. QED
      BY <2>1, <3>1, LinesAgree
  <2>3. QED
    BY <1>2, <2>1, <2>2
<1>5. QED
  BY <1>3, <1>4

\* What a line is, that runs up to r.
InLine(rows, listed, r, line) ==
    /\ line \in Seq(listed)
    /\ Answered(rows, line)
    /\ \A i \in 1 .. Len(line) : line[i] <= r
    /\ \A i, j \in 1 .. Len(line) : i < j => line[i] < line[j]
    /\ r \in listed => line # <<>> /\ line[Len(line)] = r

\* A line is in order, and ends with its run.
LEMMA LineIsInLine ==
    ASSUME NEW rows, NEW n, NEW listed, InOrder(rows, n, listed)
    PROVE  \A r \in 0 .. n : InLine(rows, listed, r, LineOf(rows, listed, r))
<1> DEFINE T == {r \in Nat : r <= n => InLine(rows, listed, r, LineOf(rows, listed, r))}
<1>1. ASSUME NEW r \in Nat, \A p \in Nat : p < r => p \in T, r <= n
      PROVE  InLine(rows, listed, r, LineOf(rows, listed, r))
  <2>1. r \in 0 .. n
    BY <1>1 DEF InOrder
  <2>2. CASE r \notin listed
    <3>1. LineOf(rows, listed, r) = <<>>
      BY <2>1, <2>2, LineIs
    <3>2. QED
      BY <2>2, <3>1 DEF InLine, Answered
  <2>3. CASE r \in listed
    <3> DEFINE p == rows[r].prev
               before == LineOf(rows, listed, p)
               line == Append(before, r)
    <3>1. p \in Nat /\ p < r /\ p <= n /\ p \in 0 .. n /\ listed \subseteq Nat
      BY <1>1, <2>3 DEF InOrder
    <3>2. InLine(rows, listed, p, before)
      BY <1>1, <3>1
    <3>3. LineOf(rows, listed, r) = line
      BY <2>1, <2>3, LineIs
    <3>4. p \notin listed => before = <<>>
      BY <3>1, LineIs
    <3>5. p = rows[r].prev
      OBVIOUS
    <3> HIDE DEF p, before
    <3>6. /\ before \in Seq(listed) /\ line \in Seq(listed)
          /\ Len(line) = Len(before) + 1 /\ line[Len(line)] = r /\ line # <<>>
          /\ \A i \in 1 .. Len(before) : line[i] = before[i] /\ before[i] \in listed
      BY <2>3, <3>2 DEF InLine
    <3>7. Answered(rows, line)
      <4>1. SUFFICES ASSUME NEW i \in 2 .. Len(line)
                     PROVE  rows[line[i]].prev = line[i - 1]
        BY DEF Answered
      <4>2. CASE i = Len(line)
        <5>1. before # <<>> /\ i - 1 = Len(before) /\ i - 1 \in 1 .. Len(before)
          BY <4>2, <3>6
        <5>2. before[Len(before)] = p
          BY <3>2, <3>4, <5>1 DEF InLine
        <5>3. QED
          BY <3>5, <3>6, <4>2, <5>1, <5>2
      <4>3. CASE i # Len(line)
        <5>1. i \in 2 .. Len(before) /\ i \in 1 .. Len(before) /\ i - 1 \in 1 .. Len(before)
          BY <4>3, <3>6
        <5>2. rows[before[i]].prev = before[i - 1]
          BY <3>2, <5>1 DEF InLine, Answered
        <5>3. QED
          BY <3>6, <5>1, <5>2
      <4>4. QED
        BY <4>2, <4>3
    <3>8. \A i \in 1 .. Len(before) : line[i] <= p /\ line[i] \in Nat
      BY <3>1, <3>2, <3>6 DEF InLine
    <3>9. \A i \in 1 .. Len(line) : line[i] <= r
      <4>1. SUFFICES ASSUME NEW i \in 1 .. Len(line)
                     PROVE  line[i] <= r
        OBVIOUS
      <4>2. CASE i = Len(line)
        BY <4>2, <3>6
      <4>3. CASE i # Len(line)
        <5>1. i \in 1 .. Len(before)
          BY <4>3, <3>6
        <5> HIDE DEF line
        <5>2. QED
          BY <3>1, <3>8, <5>1
      <4>4. QED
        BY <4>2, <4>3
    <3>10. \A i, j \in 1 .. Len(line) : i < j => line[i] < line[j]
      <4>1. SUFFICES ASSUME NEW i \in 1 .. Len(line), NEW j \in 1 .. Len(line), i < j
                     PROVE  line[i] < line[j]
        OBVIOUS
      <4>2. i \in 1 .. Len(before)
        BY <3>6, <4>1
      <4>3. CASE j = Len(line)
        <5> HIDE DEF line
        <5>1. QED
          BY <3>1, <3>6, <3>8, <4>2, <4>3
      <4>4. CASE j # Len(line)
        <5>1. j \in 1 .. Len(before)
          BY <3>6, <4>4
        <5>2. QED
          BY <3>2, <3>6, <4>1, <4>2, <5>1 DEF InLine
      <4>5. QED
        BY <4>3, <4>4
    <3> HIDE DEF line
    <3>11. QED
      BY <3>3, <3>6, <3>7, <3>9, <3>10 DEF InLine
  <2>4. QED
    BY <2>2, <2>3
<1>2. \A r \in Nat : (\A p \in Nat : p < r => p \in T) => r \in T
  BY <1>1
<1> HIDE DEF T
<1>3. Nat \subseteq T
  BY <1>2, NatOrderInduction
<1>4. QED
  BY <1>3 DEF T, InOrder

BeginOf(rows, listed, r) == LineOf(rows, listed, r)[1]

\* The beginning of a run's line, step by step.
LEMMA BeginIs ==
    ASSUME NEW rows, NEW n, NEW listed, InOrder(rows, n, listed), NEW r \in listed
    PROVE  /\ rows[r].prev \in listed =>
                 BeginOf(rows, listed, r) = BeginOf(rows, listed, rows[r].prev)
           /\ rows[r].prev \notin listed => BeginOf(rows, listed, r) = r
<1> DEFINE p == rows[r].prev
           before == LineOf(rows, listed, p)
<1>1. p \in 0 .. n /\ r \in 0 .. n
  <2>1. n \in Nat /\ r \in 1 .. n /\ rows[r].prev \in 0 .. r - 1
    BY DEF InOrder
  <2>2. QED
    BY <2>1
<1>2. LineOf(rows, listed, r) = Append(before, r)
  BY <1>1, LineIs
<1>3. p \notin listed => before = <<>>
  BY <1>1, LineIs
<1>4. before \in Seq(listed) /\ (p \in listed => before # <<>>)
  BY <1>1, LineIsInLine DEF InLine
<1> HIDE DEF p, before
<1>5. p \in listed => Append(before, r)[1] = before[1]
  BY <1>4
<1>6. p \notin listed => Append(before, r)[1] = r
  BY <1>3
<1>7. QED
  BY <1>2, <1>5, <1>6 DEF BeginOf, p, before

\* What a line begins with, what it begins with in its turn, and by induction
\* everything that is kept from each run to the next.
LEMMA BeginInduction ==
    ASSUME NEW rows, NEW n, NEW listed, InOrder(rows, n, listed), NEW T,
           \A r \in listed : rows[r].prev \notin listed \/ rows[r].prev \in T => r \in T
    PROVE  listed \subseteq T
<1> DEFINE U == {r \in Nat : r \in listed => r \in T}
<1>1. ASSUME NEW r \in Nat, \A p \in Nat : p < r => p \in U
      PROVE  r \in U
  <2>1. SUFFICES ASSUME r \in listed
                 PROVE  r \in T
    OBVIOUS
  <2>2. rows[r].prev \in Nat /\ rows[r].prev < r
    BY <2>1 DEF InOrder
  <2>3. QED
    BY <1>1, <2>1, <2>2
<1> HIDE DEF U
<1>2. Nat \subseteq U
  BY <1>1, NatOrderInduction
<1>3. QED
  BY <1>2 DEF U, InOrder

\* A beginning answers nothing that is listed, and begins itself.
LEMMA BeginBegins ==
    ASSUME NEW rows, NEW n, NEW listed, InOrder(rows, n, listed), NEW r \in listed
    PROVE  LET b == BeginOf(rows, listed, r)
           IN  b \in listed /\ rows[b].prev \notin listed /\ BeginOf(rows, listed, b) = b
<1> DEFINE b(q) == BeginOf(rows, listed, q)
           T == {q \in listed : b(q) \in listed /\ rows[b(q)].prev \notin listed /\ b(b(q)) = b(q)}
<1>1. \A q \in listed : /\ rows[q].prev \in listed => b(q) = b(rows[q].prev)
                        /\ rows[q].prev \notin listed => b(q) = q
  BY BeginIs
<1> HIDE DEF b
<1>2. \A q \in listed : rows[q].prev \notin listed \/ rows[q].prev \in T => q \in T
  BY <1>1
<1> HIDE DEF T
<1>3. listed \subseteq T
  BY <1>2, BeginInduction
<1>4. QED
  BY <1>3 DEF T, b

\* Among fewer runs a line begins further up; the beginning of that is the same.
LEMMA BeginFurther ==
    ASSUME NEW rows, NEW n, NEW listed, InOrder(rows, n, listed),
           NEW some \in SUBSET listed, NEW r \in some
    PROVE  BeginOf(rows, listed, r) = BeginOf(rows, listed, BeginOf(rows, some, r))
<1> DEFINE b(q) == BeginOf(rows, listed, q)
           s(q) == BeginOf(rows, some, q)
           T == {q \in some : b(q) = b(s(q))}
<1>1. InOrder(rows, n, some)
  BY DEF InOrder
<1>2. \A q \in some : /\ rows[q].prev \in some => b(q) = b(rows[q].prev) /\ s(q) = s(rows[q].prev)
                      /\ rows[q].prev \notin some => s(q) = q
  BY <1>1, BeginIs
<1> HIDE DEF b, s
<1>3. \A q \in some : rows[q].prev \notin some \/ rows[q].prev \in T => q \in T
  BY <1>2
<1> HIDE DEF T
<1>4. some \subseteq T
  BY <1>1, <1>3, BeginInduction
<1>5. QED
  BY <1>4 DEF T, b, s

\* A line is the same among other runs and in other rows, if these have the
\* same runs up to its own.
LEMMA SameBeginning ==
    ASSUME NEW rows, NEW n, NEW listed, InOrder(rows, n, listed),
           NEW others, NEW m, NEW new, InOrder(others, m, new),
           NEW part \in SUBSET (listed \cap new),
           \A r \in part : /\ others[r].prev = rows[r].prev
                           /\ rows[r].prev \in part \/ rows[r].prev \notin listed \cup new
    PROVE  \A r \in part : BeginOf(rows, listed, r) = BeginOf(others, new, r)
<1> DEFINE b(q) == BeginOf(rows, listed, q)
           s(q) == BeginOf(others, new, q)
           T == {q \in part : b(q) = s(q)}
<1>1. InOrder(rows, n, part)
  BY DEF InOrder
<1>2. \A q \in part : /\ rows[q].prev \in part => b(q) = b(rows[q].prev) /\ s(q) = s(rows[q].prev)
                      /\ rows[q].prev \notin part => b(q) = q /\ s(q) = q
  BY BeginIs
<1> HIDE DEF b, s
<1>3. \A q \in part : rows[q].prev \notin part \/ rows[q].prev \in T => q \in T
  BY <1>2
<1> HIDE DEF T
<1>4. part \subseteq T
  BY <1>1, <1>3, BeginInduction
<1>5. QED
  BY <1>4 DEF T, b, s

-----------------------------------------------------------------------------
(* Events, and what goes on from them.                                     *)

LEMMA AppendIs ==
    ASSUME NEW S, NEW f \in Seq(S), NEW e \in S
    PROVE  /\ Append(f, e) \in Seq(S) /\ Len(f) \in Nat /\ Len(Append(f, e)) = Len(f) + 1
           /\ Append(f, e)[Len(f) + 1] = e
           /\ \A i \in 1 .. Len(f) : Append(f, e)[i] = f[i]
BY AppendProperties

LEMMA EntryIs ==
    ASSUME NEW n \in Nat, NEW kind \in EventKinds, NEW by \in Speakers, NEW text \in Nat
    PROVE  LET entry == EntryOf(n, kind, by, text)
           IN  /\ entry \in ChatEvent
               /\ entry.seq = n /\ entry.kind = kind /\ entry.by = by /\ entry.text = text
BY DEF EntryOf, ChatEvent

\* The next event's number is the next place.
LEMMA NextSeqIs ==
    ASSUME NEW evs, Numbered(evs)
    PROVE  NextSeq(evs) = Len(evs) + 1
<1> DEFINE n == Len(evs)
           seqs == {0} \cup {evs[i].seq : i \in DOMAIN evs}
<1>1. n \in Nat /\ DOMAIN evs = 1 .. n
  BY DEF Numbered
<1>2. \A i \in DOMAIN evs : evs[i].seq = i
  BY <1>1 DEF Numbered
<1>3. n \in seqs /\ \A y \in seqs : y \in Int /\ n >= y
  <2>1. n # 0 => n \in DOMAIN evs
    BY <1>1
  <2>2. \A i \in DOMAIN evs : i \in Int /\ n >= i
    BY <1>1
  <2> HIDE DEF n
  <2>3. QED
    BY <1>1, <1>2, <2>1, <2>2
<1>4. NextSeq(evs) = 1 + Max(seqs)
  BY Zenon DEF NextSeq
<1> HIDE DEF n, seqs
<1>5. Max(seqs) = n
  <2>1. \A x \in seqs : (\A y \in seqs : x >= y) <=> x = n
    BY <1>1, <1>3
  <2>2. QED
    BY <1>3, <2>1, Zenon DEF Max
<1>6. QED
  BY <1>1, <1>4, <1>5 DEF n

\* What is entered comes last.
LEMMA EnteredIs ==
    ASSUME NEW evs, Numbered(evs), NEW kind \in EventKinds, NEW by \in Speakers, NEW text \in Nat
    PROVE  /\ Numbered(Entered(evs, kind, by, text))
           /\ Entered(evs, kind, by, text) = Append(evs, EntryOf(Len(evs) + 1, kind, by, text))
<1> DEFINE entry == EntryOf(Len(evs) + 1, kind, by, text)
<1>1. Entered(evs, kind, by, text) = Append(evs, entry)
  BY NextSeqIs DEF Entered, EntryOf
<1>2. evs \in Seq(ChatEvent) /\ Len(evs) \in Nat
  BY DEF Numbered
<1>3. entry \in ChatEvent /\ entry.seq = Len(evs) + 1
  BY <1>2, EntryIs
<1> HIDE DEF entry
<1>4. Numbered(Append(evs, entry))
  BY <1>2, <1>3 DEF Numbered
<1>5. QED
  BY <1>1, <1>4 DEF entry

LEMMA NotedIs ==
    ASSUME NEW evs, Numbered(evs), NEW kind \in EventKinds
    PROVE  /\ Numbered(Noted(evs, kind))
           /\ Noted(evs, kind) = Append(evs, EntryOf(Len(evs) + 1, kind, "", 0))
<1>1. "" \in Speakers /\ 0 \in Nat
  BY DEF Speakers
<1>2. QED
  BY <1>1, EnteredIs, Zenon DEF Noted

\* The places of an interval, in their order.
LEMMA OnlyInterval ==
    ASSUME NEW evs, NEW a \in Nat, NEW m \in Nat, a <= m
    PROVE  Only(evs, a + 1 .. m) = [n \in 1 .. m - a |-> evs[a + n]]
<1> DEFINE places == a + 1 .. m
<1>1. \A b \in Nat : a <= b => Cardinality(a + 1 .. b) = b - a
  <2>1. SUFFICES ASSUME NEW b \in Nat, a <= b
                 PROVE  Cardinality(a + 1 .. b) = b - a
    OBVIOUS
  <2>2. a + 1 \in Int /\ b \in Int
    OBVIOUS
  <2>3. Cardinality(a + 1 .. b) = IF a + 1 > b THEN 0 ELSE b - (a + 1) + 1
    BY <2>2, FS_Interval
  <2>4. QED
    BY <2>1, <2>3
<1>2. ASSUME NEW i \in places
      PROVE  Cardinality({j \in places : j <= i}) = i - a
  <2>1. {j \in places : j <= i} = a + 1 .. i
    OBVIOUS
  <2>2. i \in Nat /\ a <= i
    OBVIOUS
  <2>3. QED
    BY <1>1, <2>1, <2>2
<1>3. ASSUME NEW n \in 1 .. m - a
      PROVE  (CHOOSE i \in places : Cardinality({j \in places : j <= i}) = n) = a + n
  <2>1. a + n \in places
    OBVIOUS
  <2>2. \A i \in places : Cardinality({j \in places : j <= i}) = n <=> i = a + n
    BY <1>2
  <2> HIDE DEF places
  <2>3. QED
    BY <2>1, <2>2, Zenon
<1>4. Cardinality(places) = m - a
  BY <1>1
<1> HIDE DEF places
<1>5. Only(evs, places) = [n \in 1 .. m - a |-> evs[a + n]]
  <2> DEFINE nth(n) == CHOOSE i \in places : Cardinality({j \in places : j <= i}) = n
  <2>1. Only(evs, places) = [n \in 1 .. m - a |-> evs[nth(n)]]
    BY <1>4, Zenon DEF Only
  <2>2. \A n \in 1 .. m - a : nth(n) = a + n
    BY <1>3, Zenon
  <2> HIDE DEF nth
  <2>3. QED
    BY <2>1, <2>2
<1>6. QED
  BY <1>5 DEF places

\* Nothing is cleared of a log without texts.
LEMMA ClearedIs ==
    ASSUME NEW evs, Numbered(evs), TextsAt(evs) = {}
    PROVE  Cleared(evs) = evs
<1>1. Len(evs) \in Nat /\ DOMAIN evs = 1 .. Len(evs) /\ evs = [n \in 1 .. Len(evs) |-> evs[n]]
  BY DEF Numbered
<1>2. DOMAIN evs \ TextsAt(evs) = 0 + 1 .. Len(evs)
  BY <1>1
<1>3. Only(evs, 0 + 1 .. Len(evs)) = [n \in 1 .. Len(evs) - 0 |-> evs[0 + n]]
  <2>1. \A a \in Nat : a <= Len(evs) =>
           Only(evs, a + 1 .. Len(evs)) = [n \in 1 .. Len(evs) - a |-> evs[a + n]]
    BY <1>1, OnlyInterval
  <2>2. 0 \in Nat /\ 0 <= Len(evs)
    BY <1>1
  <2>3. QED
    BY <2>1, <2>2, Zenon
<1>4. [n \in 1 .. Len(evs) - 0 |-> evs[0 + n]] = [n \in 1 .. Len(evs) |-> evs[n]]
  BY <1>1
<1>5. QED
  BY <1>1, <1>2, <1>3, <1>4 DEF Cleared

\* What was held back comes after what there is, numbered on.
LEMMA FlushedIs ==
    ASSUME NEW evs, Numbered(evs), NEW buffer \in Seq(Nat)
    PROVE  /\ Numbered(Flushed(evs, buffer))
           /\ Len(Flushed(evs, buffer)) = Len(evs) + Len(buffer)
           /\ \A i \in 1 .. Len(evs) : Flushed(evs, buffer)[i] = evs[i]
           /\ \A i \in 1 .. Len(buffer) :
                 Flushed(evs, buffer)[Len(evs) + i] =
                    EntryOf(Len(evs) + i, "text", "resume", buffer[i])
<1> DEFINE n == Len(evs)
           rest == [i \in DOMAIN buffer |-> EntryOf(n + i, "text", "resume", buffer[i])]
<1>1. n \in Nat /\ Len(buffer) \in Nat /\ DOMAIN buffer = 1 .. Len(buffer)
  BY DEF Numbered
<1>2. Flushed(evs, buffer) = evs \o rest
  <2>1. NextSeq(evs) = n + 1
    BY NextSeqIs
  <2>2. \A i \in DOMAIN buffer : n + 1 + i - 1 = n + i
    BY <1>1
  <2> HIDE DEF n
  <2>3. QED
    BY <2>1, <2>2 DEF Flushed, EntryOf
<1>3. ASSUME NEW i \in 1 .. Len(buffer)
      PROVE  rest[i] = EntryOf(n + i, "text", "resume", buffer[i]) /\ rest[i] \in ChatEvent
             /\ rest[i].seq = n + i
  <2>1. rest[i] = EntryOf(n + i, "text", "resume", buffer[i])
    BY <1>1
  <2>2. n + i \in Nat /\ buffer[i] \in Nat /\ "text" \in EventKinds /\ "resume" \in Speakers
    BY <1>1, <1>3 DEF EventKinds, Speakers
  <2> HIDE DEF rest, n
  <2>3. QED
    BY <2>1, <2>2, EntryIs
<1>4. rest \in Seq(ChatEvent) /\ Len(rest) = Len(buffer)
  <2>1. rest \in [1 .. Len(buffer) -> ChatEvent]
    BY <1>1, <1>3
  <2> HIDE DEF rest
  <2>2. QED
    BY <1>1, <2>1
<1>5. evs \in Seq(ChatEvent) /\ \A i \in 1 .. n : evs[i].seq = i
  BY DEF Numbered
<1> HIDE DEF rest, n
<1>6. /\ evs \o rest \in Seq(ChatEvent) /\ Len(evs \o rest) = n + Len(buffer)
      /\ \A i \in 1 .. n + Len(buffer) :
            (evs \o rest)[i] = IF i <= n THEN evs[i] ELSE rest[i - n]
  <2>1. /\ evs \o rest \in Seq(ChatEvent) /\ Len(evs \o rest) = Len(evs) + Len(rest)
        /\ \A i \in 1 .. Len(evs) + Len(rest) :
              (evs \o rest)[i] = IF i <= Len(evs) THEN evs[i] ELSE rest[i - Len(evs)]
    BY <1>4, <1>5, ConcatProperties
  <2>2. QED
    BY <1>4, <2>1 DEF n
<1>7. /\ \A i \in 1 .. n : i \in 1 .. n + Len(buffer) /\ i <= n
      /\ \A i \in 1 .. Len(buffer) : /\ n + i \in 1 .. n + Len(buffer) /\ ~ (n + i <= n)
                                      /\ n + i - n = i
      /\ \A i \in 1 .. n + Len(buffer) : ~ (i <= n) => i - n \in 1 .. Len(buffer) /\ n + (i - n) = i
  BY <1>1
<1>8. \A i \in 1 .. n + Len(buffer) : (evs \o rest)[i].seq = i
  <2>1. SUFFICES ASSUME NEW i \in 1 .. n + Len(buffer)
                 PROVE  (evs \o rest)[i].seq = i
    OBVIOUS
  <2>2. CASE i <= n
    <3>1. i \in 1 .. n
      BY <1>1, <2>2
    <3>2. QED
      BY <1>5, <1>6, <2>2, <3>1
  <2>3. CASE ~ (i <= n)
    <3>1. i - n \in 1 .. Len(buffer) /\ n + (i - n) = i
      BY <1>7, <2>3
    <3>2. rest[i - n].seq = i
      BY <1>3, <3>1
    <3>3. QED
      BY <1>6, <2>3, <3>2
  <2>4. QED
    BY <2>2, <2>3
<1>9. /\ \A i \in 1 .. n : (evs \o rest)[i] = evs[i]
      /\ \A i \in 1 .. Len(buffer) :
            (evs \o rest)[n + i] = EntryOf(n + i, "text", "resume", buffer[i])
  <2>1. \A i \in 1 .. n : (evs \o rest)[i] = evs[i]
    BY <1>6, <1>7
  <2>2. ASSUME NEW i \in 1 .. Len(buffer)
        PROVE  (evs \o rest)[n + i] = EntryOf(n + i, "text", "resume", buffer[i])
    <3> DEFINE k == n + i
    <3>1. k \in 1 .. n + Len(buffer) /\ ~ (k <= n) /\ k - n = i
      BY <1>1
    <3>2. rest[i] = EntryOf(k, "text", "resume", buffer[i])
      BY <1>3
    <3> HIDE DEF k
    <3>3. (evs \o rest)[k] = rest[i]
      BY <1>6, <3>1
    <3>4. (evs \o rest)[k] = EntryOf(k, "text", "resume", buffer[i])
      BY <3>2, <3>3
    <3>5. QED
      BY <3>4 DEF k
  <2>3. QED
    BY <2>1, <2>2
<1>10. QED
  BY <1>2, <1>6, <1>8, <1>9 DEF Numbered, n

\* A log goes on.
Extends(evs, new) ==
    /\ Numbered(new) /\ Len(evs) <= Len(new)
    /\ \A i \in 1 .. Len(evs) : new[i] = evs[i]

LEMMA TextsArePlaces ==
    ASSUME NEW evs, Numbered(evs)
    PROVE  /\ Len(evs) \in Nat /\ DOMAIN evs = 1 .. Len(evs)
           /\ \A i : i \in TextsAt(evs) <=> i \in 1 .. Len(evs) /\ evs[i].kind = "text"
BY DEF Numbered, TextsAt

LEMMA EnteredGoesOn ==
    ASSUME NEW evs, Numbered(evs), NEW kind \in EventKinds, NEW by \in Speakers, NEW text \in Nat
    PROVE  LET new == Entered(evs, kind, by, text)
           IN  /\ Extends(evs, new)
               /\ Len(new) = Len(evs) + 1
               /\ new[Len(evs) + 1].kind = kind
               /\ new[Len(evs) + 1].by = by
               /\ new[Len(evs) + 1].text = text
<1> DEFINE new == Entered(evs, kind, by, text)
           entry == EntryOf(Len(evs) + 1, kind, by, text)
<1>1. Numbered(new) /\ new = Append(evs, entry)
  BY EnteredIs
<1>2. evs \in Seq(ChatEvent) /\ Len(evs) \in Nat
  BY DEF Numbered
<1>3. entry \in ChatEvent /\ entry.kind = kind /\ entry.by = by /\ entry.text = text
  BY <1>2, EntryIs
<1> HIDE DEF entry, new
<1>4. /\ Len(Append(evs, entry)) = Len(evs) + 1
      /\ \A i \in 1 .. Len(evs) : Append(evs, entry)[i] = evs[i]
      /\ Append(evs, entry)[Len(evs) + 1] = entry
  BY <1>2, <1>3, AppendProperties
<1>5. QED
  BY <1>1, <1>2, <1>3, <1>4 DEF Extends, new

LEMMA OtherTexts ==
    ASSUME NEW evs, Numbered(evs), NEW kind \in EventKinds, kind # "text",
           NEW by \in Speakers, NEW text \in Nat
    PROVE  LET new == Entered(evs, kind, by, text)
           IN  /\ Extends(evs, new) /\ TextsAt(new) = TextsAt(evs)
               /\ Len(new) = Len(evs) + 1
<1> DEFINE new == Entered(evs, kind, by, text)
<1>1. Numbered(new) /\ new = Append(evs, EntryOf(Len(evs) + 1, kind, by, text))
  BY EnteredIs
<1>2. Extends(evs, new) /\ Len(new) = Len(evs) + 1 /\ new[Len(evs) + 1].kind = kind
  BY EnteredGoesOn
<1> HIDE DEF new
<1>3. Len(evs) \in Nat /\ Len(evs) + 1 \in Nat
  BY DEF Numbered
<1>4. \A i : i \in TextsAt(new) <=> i \in TextsAt(evs)
  <2> DEFINE n == Len(evs)
  <2>1. \A i \in 1 .. n + 1 : i = n + 1 \/ i \in 1 .. n
    BY <1>3
  <2>2. \A i \in 1 .. n : i \in 1 .. n + 1
    BY <1>3
  <2>3. \A i : i \in TextsAt(new) <=> i \in 1 .. n + 1 /\ new[i].kind = "text"
    BY <1>1, <1>2, TextsArePlaces
  <2>4. \A i : i \in TextsAt(evs) <=> i \in 1 .. n /\ evs[i].kind = "text"
    BY TextsArePlaces
  <2>5. \A i \in 1 .. n : new[i] = evs[i]
    BY <1>2 DEF Extends
  <2> HIDE DEF n
  <2>6. QED
    BY <1>2, <2>1, <2>2, <2>3, <2>4, <2>5 DEF n
<1>5. QED
  BY <1>2, <1>4 DEF new

\* A note leaves the texts as they are.
LEMMA NotedTexts ==
    ASSUME NEW evs, Numbered(evs), NEW kind \in EventKinds, kind # "text"
    PROVE  LET new == Noted(evs, kind)
           IN  /\ Extends(evs, new) /\ TextsAt(new) = TextsAt(evs)
               /\ Len(new) = Len(evs) + 1
<1>1. "" \in Speakers /\ 0 \in Nat
  BY DEF Speakers
<1>2. QED
  BY <1>1, OtherTexts, Zenon DEF Noted

\* A text is one more.
LEMMA EnteredTexts ==
    ASSUME NEW evs, Numbered(evs), NEW by \in Speakers, NEW text \in Nat
    PROVE  LET new == Entered(evs, "text", by, text)
           IN  /\ Extends(evs, new)
               /\ TextsAt(new) = TextsAt(evs) \cup {Len(evs) + 1}
               /\ new[Len(evs) + 1].by = by /\ new[Len(evs) + 1].text = text
               /\ \A i \in TextsAt(evs) : i # Len(evs) + 1 /\ new[i] = evs[i]
<1> DEFINE new == Entered(evs, "text", by, text)
<1>1. "text" \in EventKinds /\ Len(evs) \in Nat /\ Len(evs) + 1 \in Nat
  BY DEF EventKinds, Numbered
<1>2. Numbered(new) /\ new = Append(evs, EntryOf(Len(evs) + 1, "text", by, text))
  BY <1>1, EnteredIs
<1>3. Extends(evs, new) /\ Len(new) = Len(evs) + 1
  BY <1>1, EnteredGoesOn
<1>4. /\ new[Len(evs) + 1].kind = "text"
      /\ new[Len(evs) + 1].by = by /\ new[Len(evs) + 1].text = text
  BY <1>1, EnteredGoesOn
<1> HIDE DEF new
<1> DEFINE n == Len(evs)
<1>5. \A i \in 1 .. n + 1 : i = n + 1 \/ i \in 1 .. n
  BY <1>1
<1>6. n + 1 \in 1 .. n + 1 /\ \A i \in 1 .. n : i \in 1 .. n + 1 /\ i # n + 1
  BY <1>1
<1>7. \A i : i \in TextsAt(new) <=> i \in 1 .. n + 1 /\ new[i].kind = "text"
  BY <1>2, <1>3, TextsArePlaces
<1>8. \A i : i \in TextsAt(evs) <=> i \in 1 .. n /\ evs[i].kind = "text"
  BY TextsArePlaces
<1>9. \A i \in 1 .. n : new[i] = evs[i]
  BY <1>3 DEF Extends
<1>10. new[n + 1].kind = "text"
  BY <1>4
<1> HIDE DEF n
<1>11. \A i : i \in TextsAt(new) <=> i \in TextsAt(evs) \/ i = n + 1
  BY <1>5, <1>6, <1>7, <1>8, <1>9, <1>10
<1>12. \A i \in TextsAt(evs) : i # n + 1 /\ new[i] = evs[i]
  BY <1>6, <1>8, <1>9
<1>13. TextsAt(new) = TextsAt(evs) \cup {n + 1}
  BY <1>11
<1>14. QED
  BY <1>3, <1>4, <1>12, <1>13 DEF new, n

\* What was held back comes after what there is.
LEMMA FlushedTexts ==
    ASSUME NEW evs, Numbered(evs), TextsAt(evs) = {}, NEW buffer \in Seq(Nat)
    PROVE  LET new == Flushed(evs, buffer)
           IN  /\ Extends(evs, new)
               /\ \A i \in TextsAt(new) :
                     \E k \in 1 .. Len(buffer) : /\ i = Len(evs) + k
                                                 /\ new[i].by = "resume"
                                                 /\ new[i].text = buffer[k]
<1> DEFINE new == Flushed(evs, buffer)
           n == Len(evs)
<1>1. n \in Nat /\ Len(buffer) \in Nat
  BY DEF Numbered
<1>2. /\ Numbered(new) /\ Len(new) = n + Len(buffer)
      /\ \A i \in 1 .. n : new[i] = evs[i]
      /\ \A k \in 1 .. Len(buffer) : new[n + k] = EntryOf(n + k, "text", "resume", buffer[k])
  BY FlushedIs
<1> HIDE DEF new
<1>3. Extends(evs, new)
  BY <1>1, <1>2 DEF Extends
<1>4. ASSUME NEW i \in TextsAt(new)
      PROVE  \E k \in 1 .. Len(buffer) : /\ i = n + k
                                         /\ new[i].by = "resume" /\ new[i].text = buffer[k]
  <2>1. i \in 1 .. n + Len(buffer) /\ new[i].kind = "text"
    BY <1>2, TextsArePlaces
  <2>2. i \notin 1 .. n
    <3>1. \A j \in 1 .. n : evs[j].kind # "text"
      BY TextsArePlaces
    <3>2. QED
      BY <1>2, <2>1, <3>1
  <2> DEFINE k == i - n
  <2>3. k \in 1 .. Len(buffer) /\ i = n + k /\ i \in Nat
    BY <1>1, <2>1, <2>2
  <2>4. buffer[k] \in Nat /\ "text" \in EventKinds /\ "resume" \in Speakers
    BY <2>3 DEF EventKinds, Speakers
  <2> HIDE DEF k, n
  <2>5. new[i] = EntryOf(i, "text", "resume", buffer[k])
    BY <1>2, <2>3
  <2>6. QED
    BY <2>3, <2>4, <2>5, EntryIs
<1>5. QED
  BY <1>3, <1>4 DEF new, n

LEMMA ExtendsSelf ==
    ASSUME NEW evs, Numbered(evs)
    PROVE  Extends(evs, evs)
BY DEF Extends, Numbered

LEMMA ExtendsTwice ==
    ASSUME NEW l1, NEW l2, NEW l3, Numbered(l1), Extends(l1, l2), Extends(l2, l3)
    PROVE  Extends(l1, l3)
<1>1. Len(l1) \in Nat /\ Len(l2) \in Nat /\ Len(l3) \in Nat
  BY DEF Extends, Numbered
<1>2. \A i \in 1 .. Len(l1) : i \in 1 .. Len(l2)
  BY <1>1 DEF Extends
<1>3. QED
  BY <1>1, <1>2 DEF Extends

-----------------------------------------------------------------------------
(* What a run answers, operation by operation.                             *)

\* A note says nothing.
LEMMA NoteKeepsAnswers ==
    ASSUME NEW a, NEW evs, Answers(a, evs), NEW kind \in EventKinds, kind # "text"
    PROVE  Answers(a, Noted(evs, kind)) /\ Extends(evs, Noted(evs, kind))
<1> DEFINE new == Noted(evs, kind)
<1>1. Numbered(evs)
  BY DEF Answers
<1>2. Extends(evs, new) /\ TextsAt(new) = TextsAt(evs)
  BY <1>1, NotedTexts
<1> HIDE DEF new
<1>3. \A i \in TextsAt(evs) : new[i] = evs[i]
  BY <1>1, <1>2, TextsArePlaces DEF Extends
<1>4. OneVoice(new)
  BY <1>2, <1>3 DEF Answers, OneVoice
<1>5. Numbered(new)
  BY <1>2 DEF Extends
<1>6. a.query = "fresh" => \A i \in TextsAt(new) : new[i].by = "fresh" /\ new[i].text \in a.said
  BY <1>2, <1>3 DEF Answers
<1>7. Answers(a, new)
  BY <1>2, <1>4, <1>5, <1>6 DEF Answers
<1>8. QED
  BY <1>2, <1>7 DEF new

\* A query that starts has said nothing.
LEMMA StartAnswers ==
    ASSUME NEW a, NEW evs, Answers(a, evs), a.query = "none",
           NEW b, b.query \in {"resume", "fresh"}, b.buffer = a.buffer, b.said = a.said
    PROVE  Answers(b, evs)
<1>1. a.buffer = <<>> /\ TextsAt(evs) = {}
  BY DEF Answers
<1>2. QED
  BY <1>1 DEF Answers

\* A text that is held back.
LEMMA HoldAnswers ==
    ASSUME NEW a, NEW evs, Answers(a, evs), a.query = "resume", a.buffer \in Seq(Nat),
           NEW text \in Nat, text \notin a.said,
           NEW b, b.query = a.query, b.buffer = Append(a.buffer, text), b.said = a.said \cup {text}
    PROVE  Answers(b, evs)
<1>1. /\ Len(a.buffer) \in Nat /\ Len(b.buffer) = Len(a.buffer) + 1
      /\ \A i \in 1 .. Len(a.buffer) : b.buffer[i] = a.buffer[i]
      /\ b.buffer[Len(a.buffer) + 1] = text
  OBVIOUS
<1>2. \A i \in 1 .. Len(b.buffer) : i = Len(a.buffer) + 1 \/ i \in 1 .. Len(a.buffer)
  BY <1>1
<1>3. \A i \in 1 .. Len(a.buffer) : a.buffer[i] \in a.said
  BY DEF Answers
<1>4. \A i \in 1 .. Len(b.buffer) : b.buffer[i] \in b.said
  BY <1>1, <1>2, <1>3
<1>5. \A i, j \in 1 .. Len(b.buffer) : b.buffer[i] = b.buffer[j] => i = j
  <2>1. \A i, j \in 1 .. Len(a.buffer) : a.buffer[i] = a.buffer[j] => i = j
    BY DEF Answers
  <2>2. QED
    BY <1>1, <1>2, <1>3, <2>1
<1>6. QED
  BY <1>4, <1>5 DEF Answers

\* A text that is shown at once.
LEMMA SayAnswers ==
    ASSUME NEW a, NEW evs, Answers(a, evs), a.query = "fresh",
           NEW text \in Nat, text \notin a.said,
           NEW b, b.query = a.query, b.buffer = a.buffer, b.said = a.said \cup {text}
    PROVE  Answers(b, Entered(evs, "text", "fresh", text))
           /\ Extends(evs, Entered(evs, "text", "fresh", text))
<1> DEFINE new == Entered(evs, "text", "fresh", text)
           n == Len(evs) + 1
<1>1. Numbered(evs) /\ "fresh" \in Speakers
  BY DEF Answers, Speakers
<1>2. /\ Extends(evs, new) /\ TextsAt(new) = TextsAt(evs) \cup {n}
      /\ new[n].by = "fresh" /\ new[n].text = text
      /\ \A i \in TextsAt(evs) : i # n /\ new[i] = evs[i]
  BY <1>1, EnteredTexts
<1> HIDE DEF new, n
<1>3. \A i \in TextsAt(evs) : evs[i].by = "fresh" /\ evs[i].text \in a.said
  BY DEF Answers
<1>4. \A i \in TextsAt(new) : new[i].by = "fresh" /\ new[i].text \in b.said
  BY <1>2, <1>3
<1>5. OneVoice(new)
  <2>1. \A i, j \in TextsAt(evs) : evs[i].text = evs[j].text => i = j
    BY DEF Answers, OneVoice
  <2>2. QED
    BY <1>2, <1>3, <1>4, <2>1 DEF OneVoice
<1>6. a.buffer = <<>> /\ Numbered(new)
  BY <1>2 DEF Answers, Extends
<1>7. Answers(b, new)
  BY <1>4, <1>5, <1>6 DEF Answers
<1>8. QED
  BY <1>2, <1>7 DEF new

\* A resumption that fails leaves nothing of what it said.
LEMMA FallbackAnswers ==
    ASSUME NEW a, NEW evs, Answers(a, evs), a.query = "resume",
           NEW b, b.query = "fresh", b.buffer = <<>>, b.said = {}
    PROVE  LET new == Cleared(Noted(evs, "context.fallback"))
           IN  Answers(b, new) /\ Extends(evs, new)
<1> DEFINE new == Noted(evs, "context.fallback")
<1>1. "context.fallback" \in EventKinds
  BY DEF EventKinds
<1>2. Answers(a, new) /\ Extends(evs, new)
  BY <1>1, NoteKeepsAnswers
<1> HIDE DEF new
<1>3. TextsAt(new) = {} /\ Numbered(new) /\ OneVoice(new)
  BY <1>2 DEF Answers
<1>4. Cleared(new) = new
  BY <1>3, ClearedIs
<1>5. Answers(b, new)
  BY <1>3 DEF Answers
<1>6. QED
  BY <1>2, <1>4, <1>5 DEF new

\* A query that ends shows what it held back.
LEMMA EndAnswers ==
    ASSUME NEW a, NEW evs, Answers(a, evs), a.query \in {"resume", "fresh"}, a.buffer \in Seq(Nat),
           NEW b, b.query = "over", b.buffer = <<>>
    PROVE  LET new == Flushed(evs, a.buffer)
           IN  Answers(b, new) /\ Extends(evs, new)
<1> DEFINE new == Flushed(evs, a.buffer)
<1>1. Numbered(evs)
  BY DEF Answers
<1>2. CASE a.query = "fresh"
  <2>1. a.buffer = <<>>
    BY <1>2 DEF Answers
  <2>2. /\ Numbered(new) /\ Len(new) = Len(evs)
        /\ \A i \in 1 .. Len(evs) : new[i] = evs[i]
    <3>1. Len(evs) \in Nat /\ Len(a.buffer) = 0
      BY <1>1, <2>1 DEF Numbered
    <3>2. /\ Numbered(new) /\ Len(new) = Len(evs) + Len(a.buffer)
          /\ \A i \in 1 .. Len(evs) : new[i] = evs[i]
      BY <1>1, FlushedIs
    <3> HIDE DEF new
    <3>3. QED
      BY <3>1, <3>2
  <2> HIDE DEF new
  <2>3. Extends(evs, new)
    BY <1>1, <2>2 DEF Extends, Numbered
  <2>4. \A i : i \in TextsAt(new) <=> i \in TextsAt(evs)
    BY <1>1, <2>2, TextsArePlaces
  <2>5. \A i \in TextsAt(evs) : new[i] = evs[i]
    BY <1>1, <2>2, TextsArePlaces
  <2>6. OneVoice(new)
    BY <2>4, <2>5 DEF Answers, OneVoice
  <2>7. Answers(b, new)
    BY <2>2, <2>6 DEF Answers
  <2>8. QED
    BY <2>3, <2>7 DEF new
<1>3. CASE a.query = "resume"
  <2>1. TextsAt(evs) = {}
    BY <1>3 DEF Answers
  <2>2. /\ Extends(evs, new)
        /\ \A i \in TextsAt(new) :
              \E k \in 1 .. Len(a.buffer) : /\ i = Len(evs) + k
                                            /\ new[i].by = "resume"
                                            /\ new[i].text = a.buffer[k]
    BY <1>1, <2>1, FlushedTexts
  <2> HIDE DEF new
  <2>3. \A k, l \in 1 .. Len(a.buffer) : a.buffer[k] = a.buffer[l] => k = l
    BY DEF Answers
  <2>4. OneVoice(new)
    BY <2>2, <2>3 DEF OneVoice
  <2>5. Answers(b, new)
    BY <2>2, <2>4 DEF Answers, Extends
  <2>6. QED
    BY <2>2, <2>5 DEF new
<1>4. QED
  BY <1>2, <1>3

\* A query that says nothing.
LEMMA OverAnswers ==
    ASSUME NEW a, NEW evs, Answers(a, evs), a.query \in {"resume", "fresh"},
           a.query = "resume" => a.buffer = <<>>,
           NEW b, b.query = "over", b.buffer = a.buffer, b.said = a.said
    PROVE  Answers(b, evs)
<1>1. a.buffer = <<>>
  BY DEF Answers
<1>2. QED
  BY <1>1 DEF Answers

\* A summary, where nothing was said.
LEMMA SummaryAnswers ==
    ASSUME NEW a, NEW evs, Answers(a, evs), a.query = "over", TextsAt(evs) = {}
    PROVE  LET new == Entered(evs, "text", "summary", 0)
           IN  Answers(a, new) /\ Extends(evs, new)
<1> DEFINE new == Entered(evs, "text", "summary", 0)
<1>1. Numbered(evs) /\ "summary" \in Speakers /\ 0 \in Nat
  BY DEF Answers, Speakers
<1>2. /\ Extends(evs, new) /\ TextsAt(new) = TextsAt(evs) \cup {Len(evs) + 1}
  BY <1>1, EnteredTexts
<1> HIDE DEF new
<1>3. OneVoice(new)
  BY <1>2 DEF OneVoice
<1>4. Answers(a, new)
  BY <1>2, <1>3 DEF Answers, Extends
<1>5. QED
  BY <1>2, <1>4 DEF new

-----------------------------------------------------------------------------
(* What a run is told of the runs before it.                               *)

\* The newest rounds are a part of the rounds, at the end.
LEMMA RecentIs ==
    ASSUME NEW rounds \in Seq(Nat), NEW n \in 0 .. Len(rounds)
    PROVE  /\ Recent(rounds, n) \in Seq(Nat) /\ Len(Recent(rounds, n)) = n
           /\ \A i \in 1 .. n : /\ Recent(rounds, n)[i] = rounds[Len(rounds) - n + i]
                                /\ Len(rounds) - n + i \in 1 .. Len(rounds)
<1> DEFINE len == Len(rounds)
           from == len - n + 1
<1>1. len \in Nat /\ n \in Nat /\ from \in Int /\ len \in Int
  OBVIOUS
<1>2. \A i \in from .. len : rounds[i] \in Nat
  BY <1>1
<1>3. /\ SubSeq(rounds, from, len) \in Seq(Nat)
      /\ Len(SubSeq(rounds, from, len)) = IF from <= len THEN len - from + 1 ELSE 0
      /\ \A i \in 1 .. len - from + 1 : SubSeq(rounds, from, len)[i] = rounds[from + i - 1]
  BY <1>1, <1>2, SubSeqProperties
<1>4. /\ (IF from <= len THEN len - from + 1 ELSE 0) = n
      /\ len - from + 1 = n
      /\ \A i \in 1 .. n : from + i - 1 = len - n + i /\ len - n + i \in 1 .. len
  BY <1>1
<1>5. Recent(rounds, n) = SubSeq(rounds, from, len)
  BY DEF Recent
<1> HIDE DEF from, len
<1>6. QED
  BY <1>3, <1>4, <1>5 DEF len

LEMMA MaxIsOneOf ==
    ASSUME NEW n \in Nat, NEW T \in SUBSET (0 .. n), T # {}
    PROVE  Max(T) \in T
<1> DEFINE U == {n - x : x \in T}
<1>1. U \subseteq Nat /\ U # {}
  <2>1. \A x \in T : x \in 0 .. n
    OBVIOUS
  <2>2. \A x \in 0 .. n : n - x \in Nat
    OBVIOUS
  <2>3. \A x \in T : n - x \in Nat
    BY <2>1, <2>2
  <2>4. QED
    BY <2>3
<1>2. PICK u \in U : \A m \in U : u <= m
  BY <1>1, LeastNat
<1>3. PICK x \in T : u = n - x
  OBVIOUS
<1>4. \A y \in T : x >= y
  <2>1. SUFFICES ASSUME NEW y \in T
                 PROVE  x >= y
    OBVIOUS
  <2>2. n - y \in U
    OBVIOUS
  <2>3. n - x <= n - y
    BY <1>2, <1>3, <2>2
  <2>4. x \in Int /\ y \in Int
    OBVIOUS
  <2> HIDE DEF U
  <2>5. QED
    BY <2>3, <2>4
<1>5. QED
  BY <1>4 DEF Max

\* What fits is a number of the newest rounds.
LEMMA BoundedIsRecent ==
    ASSUME NEW rounds \in Seq(Nat)
    PROVE  \E n \in 0 .. Len(rounds) : Bounded(rounds) = Recent(rounds, n)
<1> DEFINE costs(n) == FoldLeft(LAMBDA sum, q : sum + chats[q].size, 0, Recent(rounds, n))
           fit == {0} \cup {n \in 1 .. Len(rounds) : costs(n) <= Budget}
           most == Max(fit)
           n == IF most = 0 /\ rounds # <<>> THEN 1 ELSE most
<1>1. Bounded(rounds) = Recent(rounds, n)
  BY DEF Bounded
<1> HIDE DEF costs
<1>2. Len(rounds) \in Nat /\ (rounds # <<>> => Len(rounds) # 0)
  OBVIOUS
<1>3. fit \in SUBSET (0 .. Len(rounds)) /\ fit # {}
  BY <1>2
<1> HIDE DEF fit
<1>4. most \in 0 .. Len(rounds)
  BY <1>2, <1>3, MaxIsOneOf
<1> HIDE DEF most
<1>5. n \in 0 .. Len(rounds)
  BY <1>2, <1>4
<1>6. QED
  BY <1>1, <1>5

\* The newest part of a history is a history.
LEMMA RecentIsOK ==
    ASSUME NEW rows, NEW r \in Nat, NEW rounds \in Seq(Nat), PastOK(rows, rounds, r),
           NEW n \in 0 .. Len(rounds)
    PROVE  PastOK(rows, Recent(rounds, n), r)
<1> DEFINE past == Recent(rounds, n)
           at(i) == Len(rounds) - n + i
<1>1. /\ past \in Seq(Nat) /\ Len(past) = n
      /\ \A i \in 1 .. n : past[i] = rounds[at(i)] /\ at(i) \in 1 .. Len(rounds)
  BY RecentIs
<1>2. Len(rounds) \in Nat /\ n \in Nat
  OBVIOUS
<1>3. \A i, j \in 1 .. n : i < j => at(i) < at(j)
  BY <1>2
<1>4. at(n) = Len(rounds) /\ \A i \in 2 .. n : at(i - 1) = at(i) - 1 /\ at(i) \in 2 .. Len(rounds)
  BY <1>2
<1> HIDE DEF past, at
<1>5. \A i \in 1 .. Len(past) : /\ past[i] \in 1 .. r - 1
                                /\ rows[past[i]].status \notin {"queued", "running"}
  BY <1>1 DEF PastOK
<1>6. \A i, j \in 1 .. Len(past) : i < j => past[i] < past[j]
  BY <1>1, <1>3 DEF PastOK
<1>7. ASSUME past # <<>>
      PROVE  Answered(rows, Append(past, r))
  <2>1. n # 0 /\ rounds # <<>>
    BY <1>1, <1>2, <1>7
  <2>2. Answered(rows, Append(rounds, r))
    BY <2>1 DEF PastOK
  <2>4. Len(Append(past, r)) = n + 1 /\ Len(Append(rounds, r)) = Len(rounds) + 1
    BY <1>1, AppendProperties
  <2>3. SUFFICES ASSUME NEW i \in 2 .. Len(Append(past, r))
                 PROVE  rows[Append(past, r)[i]].prev = Append(past, r)[i - 1]
    BY DEF Answered
  <2>5. CASE i = n + 1
    <3>1. i - 1 = n /\ n \in 1 .. n /\ Len(rounds) + 1 \in 2 .. Len(rounds) + 1
          /\ Len(rounds) + 1 - 1 = Len(rounds) /\ Len(rounds) \in 1 .. Len(rounds)
      BY <1>2, <2>1, <2>5
    <3>2. Append(past, r)[i] = r /\ Append(past, r)[i - 1] = past[n]
      BY <1>1, <2>5, <3>1
    <3>3. /\ Append(rounds, r)[Len(rounds) + 1] = r
          /\ Append(rounds, r)[Len(rounds)] = rounds[Len(rounds)]
      BY <3>1
    <3>4. rows[r].prev = rounds[Len(rounds)]
      BY <2>2, <2>4, <3>1, <3>3 DEF Answered
    <3>5. past[n] = rounds[Len(rounds)]
      BY <1>1, <1>4, <3>1
    <3>6. QED
      BY <3>2, <3>4, <3>5
  <2>6. CASE i # n + 1
    <3>1. i \in 2 .. n /\ i \in 1 .. n /\ i - 1 \in 1 .. n
      BY <1>2, <2>4, <2>6
    <3>2. Append(past, r)[i] = past[i] /\ Append(past, r)[i - 1] = past[i - 1]
      BY <1>1, <3>1
    <3>3. past[i] = rounds[at(i)] /\ past[i - 1] = rounds[at(i) - 1]
          /\ at(i) \in 2 .. Len(rounds)
      BY <1>1, <1>4, <3>1
    <3> DEFINE k == at(i)
    <3>4. k \in 2 .. Len(rounds) /\ k \in 2 .. Len(rounds) + 1 /\ k \in 1 .. Len(rounds)
          /\ k - 1 \in 1 .. Len(rounds)
      BY <1>2, <3>3
    <3> HIDE DEF k
    <3>5. Append(rounds, r)[k] = rounds[k] /\ Append(rounds, r)[k - 1] = rounds[k - 1]
      BY <3>4
    <3>6. rows[rounds[k]].prev = rounds[k - 1]
      BY <2>2, <2>4, <3>4, <3>5 DEF Answered
    <3>7. QED
      BY <3>2, <3>3, <3>6 DEF k
  <2>7. QED
    BY <2>5, <2>6
<1>8. PastOK(rows, past, r)
  BY <1>5, <1>6, <1>7 DEF PastOK
<1>9. QED
  BY <1>8 DEF past

\* The history of a run is fine among other rows too that answer the same runs.
LEMMA PastStays ==
    ASSUME NEW rows, NEW others, NEW q \in Nat, NEW past \in Seq(Nat), PastOK(rows, past, q), q # 0,
           \A i \in 1 .. q : others[i].prev = rows[i].prev,
           \A i \in 1 .. q - 1 : rows[i].status \notin {"queued", "running"} =>
                                    others[i].status \notin {"queued", "running"}
    PROVE  PastOK(others, past, q)
<1>1. \A i \in 1 .. Len(past) : /\ past[i] \in 1 .. q - 1 /\ past[i] \in 1 .. q
                                /\ others[past[i]].status \notin {"queued", "running"}
  BY DEF PastOK
<1>2. ASSUME past # <<>>
      PROVE  Answered(others, Append(past, q))
  <2>1. Answered(rows, Append(past, q))
    BY <1>2 DEF PastOK
  <2>2. /\ Len(Append(past, q)) = Len(past) + 1 /\ Append(past, q)[Len(past) + 1] = q
        /\ \A i \in 1 .. Len(past) : Append(past, q)[i] = past[i]
        /\ Len(past) \in Nat
    BY AppendIs
  <2>3. \A i \in 2 .. Len(past) + 1 : i = Len(past) + 1 \/ i \in 1 .. Len(past)
    BY <2>2
  <2>4. \A i \in 2 .. Len(past) + 1 : Append(past, q)[i] \in 1 .. q
    BY <1>1, <2>2, <2>3
  <2>5. QED
    BY <2>1, <2>2, <2>4 DEF Answered
<1>3. QED
  BY <1>1, <1>2 DEF PastOK

\* A run answers one before it.
LEMMA RowsInOrder ==
    ASSUME TalkTyped
    PROVE  /\ InOrder(chats, Len(chats), Numbers) /\ InOrder(chats, Len(chats), ChatRows)
           /\ \A S \in SUBSET Numbers : InOrder(chats, Len(chats), S)
<1>1. Len(chats) \in Nat /\ \A q \in 1 .. Len(chats) : chats[q].prev \in Nat
  <2>1. chats \in Seq(ChatRecord)
    BY DEF TalkTyped
  <2>2. \A q \in 1 .. Len(chats) : chats[q] \in ChatRecord
    BY <2>1
  <2>3. \A c \in ChatRecord : c.prev \in Nat
    BY DEF ChatRecord
  <2>4. QED
    BY <2>1, <2>2, <2>3
<1>2. \A q \in 1 .. Len(chats) : chats[q].prev \in 0 .. q - 1
  BY <1>1 DEF TalkTyped, Numbers
<1>3. \A S \in SUBSET Numbers : InOrder(chats, Len(chats), S)
  BY <1>1, <1>2 DEF InOrder, Numbers
<1>4. ChatRows \in SUBSET Numbers /\ Numbers \in SUBSET Numbers
  BY DEF ChatRows
<1>5. QED
  BY <1>3, <1>4

\* The history of a run is what PastOK asks.
LEMMA HistoryIsOK ==
    ASSUME TalkTyped, NEW r \in Numbers
    PROVE  Bounded(Past(r)) \in Seq(Nat) /\ PastOK(chats, Bounded(Past(r)), r)
<1> DEFINE done == {q \in ChatRows : chats[q].status = "succeeded"}
           p == chats[r].prev
           all == LineOf(chats, done, p)
           few == Min({HistoryRounds, Len(all)})
<1>1. /\ Len(chats) \in Nat /\ r \in 1 .. Len(chats) /\ r \in Nat
      /\ p \in 0 .. r - 1 /\ p \in 0 .. Len(chats)
  BY RowsInOrder DEF InOrder, Numbers
<1>2. done \in SUBSET Numbers /\ InOrder(chats, Len(chats), done)
  BY RowsInOrder DEF ChatRows
<1>3. InLine(chats, done, p, all) /\ (p \notin done => all = <<>>)
  BY <1>1, <1>2, LineIsInLine, LineIs
<1>4. Past(r) = Recent(all, few)
  BY LineOfChats DEF Past
<1>5. \A q \in done : q \in Nat /\ q # 0 /\ chats[q].status \notin {"queued", "running"}
  BY DEF ChatRows, Numbers
<1>6. p = chats[r].prev
  OBVIOUS
<1> HIDE DEF done, p, all
<1>7. all \in Seq(done) /\ all \in Seq(Nat) /\ \A i \in 1 .. Len(all) : all[i] \in done
  <2>1. all \in Seq(done)
    BY <1>3 DEF InLine
  <2>2. done \subseteq Nat
    BY <1>5
  <2>3. QED
    BY <2>1, <2>2, SeqMonotonic, ElementOfSeq
<1>8. few \in 0 .. Len(all)
  <2>1. Len(all) \in Nat /\ HistoryRounds \in Nat
    BY <1>7, ConversationsAssumption
  <2>2. \E x \in {HistoryRounds, Len(all)} : \A y \in {HistoryRounds, Len(all)} : x <= y
    BY <2>1
  <2>3. few \in {HistoryRounds, Len(all)} /\ \A y \in {HistoryRounds, Len(all)} : few <= y
    BY <2>2, Zenon DEF Min
  <2> HIDE DEF few
  <2>4. QED
    BY <2>1, <2>3
<1>9. PastOK(chats, all, r)
  <2>1. \A i \in 1 .. Len(all) : all[i] \in 1 .. r - 1 /\ chats[all[i]].status \notin {"queued", "running"}
    <3>1. SUFFICES ASSUME NEW i \in 1 .. Len(all)
                   PROVE  all[i] \in 1 .. r - 1 /\ chats[all[i]].status \notin {"queued", "running"}
      OBVIOUS
    <3>2. all[i] \in done /\ all[i] <= p
      BY <1>3, <1>7 DEF InLine
    <3>3. QED
      BY <1>1, <1>5, <3>2
  <2>2. \A i, j \in 1 .. Len(all) : i < j => all[i] < all[j]
    BY <1>3 DEF InLine
  <2>3. ASSUME all # <<>>
        PROVE  Answered(chats, Append(all, r))
    <3>1. all[Len(all)] = p
      BY <1>3, <2>3 DEF InLine
    <3>2. Len(all) \in Nat /\ Len(all) # 0
      BY <1>7, <2>3
    <3>3. /\ Len(Append(all, r)) = Len(all) + 1 /\ Append(all, r)[Len(all) + 1] = r
          /\ \A i \in 1 .. Len(all) : Append(all, r)[i] = all[i]
      BY <1>1, <1>7, AppendProperties
    <3>4. SUFFICES ASSUME NEW i \in 2 .. Len(all) + 1
                   PROVE  chats[Append(all, r)[i]].prev = Append(all, r)[i - 1]
      BY <3>3 DEF Answered
    <3>5. CASE i = Len(all) + 1
      <4>1. i - 1 = Len(all) /\ Len(all) \in 1 .. Len(all)
        BY <3>2, <3>5
      <4>2. QED
        BY <1>6, <3>1, <3>3, <3>5, <4>1
    <3>6. CASE i # Len(all) + 1
      <4>1. i \in 2 .. Len(all) /\ i \in 1 .. Len(all) /\ i - 1 \in 1 .. Len(all)
        BY <3>2, <3>6
      <4>2. QED
        BY <1>3, <3>3, <4>1 DEF InLine, Answered
    <3>7. QED
      BY <3>5, <3>6
  <2>4. QED
    BY <2>1, <2>2, <2>3 DEF PastOK
<1> HIDE DEF few
<1>10. Past(r) \in Seq(Nat) /\ PastOK(chats, Past(r), r)
  BY <1>1, <1>4, <1>7, <1>8, <1>9, RecentIs, RecentIsOK
<1>11. PICK n \in 0 .. Len(Past(r)) : Bounded(Past(r)) = Recent(Past(r), n)
  BY <1>10, BoundedIsRecent
<1>12. QED
  BY <1>1, <1>10, <1>11, RecentIs, RecentIsOK

-----------------------------------------------------------------------------
(* Conversations and their deletion, of any rows.                          *)

ContinuingOf(rows, listed, taken) ==
    /\ \A r \in listed :
          rows[r].asked \in listed =>
              BeginOf(rows, listed, r) = BeginOf(rows, listed, rows[r].asked)
    /\ \A r \in taken : rows[r].prev \in listed => rows[r].prev \in taken
    /\ \A r \in listed \ taken : BeginOf(rows, listed, r) \in taken => rows[r].asked = 0

LEMMA ContinuingIs == Continuing <=> ContinuingOf(chats, ChatRows, doomed)
BY LineOfChats DEF Continuing, ContinuingOf, Continues, Beginning, BeginOf

LEMMA ContinuingIsNext == Continuing' <=> ContinuingOf(chats', ChatRows', doomed')
<1>1. (Continuing <=> ContinuingOf(chats, ChatRows, doomed))'
  BY ContinuingIs, PTL
<1>2. ContinuingOf(chats, ChatRows, doomed)' <=> ContinuingOf(chats', ChatRows', doomed')
  BY DEF ContinuingOf, BeginOf, LineOf
<1>3. QED
  BY <1>1, <1>2

\* What a step that creates and deletes nothing keeps.
LEMMA SameRowsContinue ==
    ASSUME NEW rows, NEW n, NEW listed, InOrder(rows, n, listed), NEW taken,
           taken \subseteq listed, ContinuingOf(rows, listed, taken),
           NEW others, InOrder(others, n, listed),
           \A r \in listed : others[r].prev = rows[r].prev /\ others[r].asked = rows[r].asked
    PROVE  ContinuingOf(others, listed, taken)
<1>1. \A r \in listed : BeginOf(rows, listed, r) = BeginOf(others, listed, r)
  BY SameBeginning
<1>2. QED
  BY <1>1 DEF ContinuingOf

\* A new run answers one before it, and is asked for a conversation only if none
\* is being deleted.
LEMMA NewRunContinues ==
    ASSUME NEW rows, NEW n, NEW listed, InOrder(rows, n, listed), NEW taken,
           taken \subseteq listed, ContinuingOf(rows, listed, taken),
           NEW others, InOrder(others, n + 1, listed \cup {n + 1}),
           \A r \in listed : /\ others[r].prev = rows[r].prev
                             /\ others[r].asked = rows[r].asked /\ rows[r].asked < r,
           others[n + 1].asked # 0 =>
              /\ taken = {} /\ others[n + 1].prev \in listed /\ others[n + 1].asked \in listed
              /\ BeginOf(rows, listed, others[n + 1].prev) = BeginOf(rows, listed, others[n + 1].asked)
    PROVE  ContinuingOf(others, listed \cup {n + 1}, taken)
<1> DEFINE new == n + 1
           all == listed \cup {new}
<1>1. n \in Nat /\ new \in Nat /\ \A r \in listed : r \in 1 .. n /\ r # new /\ r # 0
  BY DEF InOrder
<1>2. \A r \in listed : rows[r].prev \in 0 .. r - 1
  BY DEF InOrder
<1>3. \A r \in listed : rows[r].prev \in listed \/ rows[r].prev \notin listed \cup all
  BY <1>1, <1>2
<1>4. InOrder(others, new, all) /\ listed \subseteq listed \cap all
  OBVIOUS
<1> HIDE DEF new, all
<1>5. \A r \in listed : BeginOf(rows, listed, r) = BeginOf(others, all, r)
  BY <1>3, <1>4, SameBeginning
<1>6. all = listed \cup {new} /\ new = n + 1
  BY DEF all, new
<1>7. others[new].prev \in listed => BeginOf(others, all, new) = BeginOf(others, all, others[new].prev)
  BY <1>4, <1>6, BeginIs
<1>8. \A r \in all : others[r].asked \in all =>
         BeginOf(others, all, r) = BeginOf(others, all, others[r].asked)
  <2>1. SUFFICES ASSUME NEW r \in all, others[r].asked \in all
                 PROVE  BeginOf(others, all, r) = BeginOf(others, all, others[r].asked)
    OBVIOUS
  <2>2. CASE r = new
    <3>1. others[new].asked # 0
      BY <1>1, <1>6, <2>1, <2>2
    <3>2. QED
      BY <1>5, <1>6, <1>7, <2>2, <3>1
  <2>3. CASE r # new
    <3>1. r \in listed /\ r < new
      BY <1>1, <1>6, <2>3
    <3>2. rows[r].asked \in listed
      BY <1>1, <1>6, <2>1, <3>1
    <3>3. QED
      BY <1>5, <3>1, <3>2 DEF ContinuingOf
  <2>4. QED
    BY <2>2, <2>3
<1>9. \A r \in taken : others[r].prev \in all => others[r].prev \in taken
  BY <1>1, <1>3, <1>6 DEF ContinuingOf
<1>10. \A r \in all \ taken : BeginOf(others, all, r) \in taken => others[r].asked = 0
  BY <1>5, <1>6 DEF ContinuingOf
<1>11. QED
  BY <1>6, <1>8, <1>9, <1>10 DEF ContinuingOf

\* A deletion takes the runs of one beginning.
LEMMA StartDeleteContinues ==
    ASSUME NEW rows, NEW n, NEW listed, InOrder(rows, n, listed),
           ContinuingOf(rows, listed, {}), NEW s \in listed
    PROVE  LET b(r) == BeginOf(rows, listed, r)
           IN  ContinuingOf(rows, listed, {r \in listed : b(r) = b(s)})
<1> DEFINE b(r) == BeginOf(rows, listed, r)
           taken == {r \in listed : b(r) = b(s)}
<1>1. \A r \in listed : b(r) \in listed /\ b(b(r)) = b(r)
  BY BeginBegins
<1>2. \A r \in listed : rows[r].prev \in listed => b(rows[r].prev) = b(r)
  BY BeginIs
<1>3. \A r \in taken : rows[r].prev \in listed => rows[r].prev \in taken
  BY <1>2
<1>4. \A r \in listed \ taken : ~ (b(r) \in taken)
  BY <1>1
<1>5. QED
  BY <1>3, <1>4 DEF ContinuingOf

\* What it leaves has its line still.
LEMMA FinishDeleteContinues ==
    ASSUME NEW rows, NEW n, NEW listed, InOrder(rows, n, listed), NEW taken,
           taken \subseteq listed, ContinuingOf(rows, listed, taken),
           NEW others, InOrder(others, n, listed \ taken),
           \A r \in listed \ taken : others[r].prev = rows[r].prev /\ others[r].asked = rows[r].asked
    PROVE  ContinuingOf(others, listed \ taken, {})
<1> DEFINE b(r) == BeginOf(rows, listed, r)
           left == listed \ taken
           part == {r \in left : b(r) \notin taken}
<1>1. \A r \in listed : /\ rows[r].prev \in listed => b(r) = b(rows[r].prev)
                        /\ rows[r].prev \notin listed => b(r) = r
  BY BeginIs
<1>2. \A r \in taken : b(r) \in taken
  <2> DEFINE T == {r \in listed : r \in taken => b(r) \in taken}
  <2> HIDE DEF b
  <2>1. \A r \in listed : rows[r].prev \notin listed \/ rows[r].prev \in T => r \in T
    BY <1>1 DEF ContinuingOf
  <2> HIDE DEF T
  <2>2. listed \subseteq T
    BY <2>1, BeginInduction
  <2>3. QED
    BY <2>2 DEF T
<1>3. \A r \in part : rows[r].prev \in part \/ rows[r].prev \notin listed \cup left
  <2> HIDE DEF b
  <2>1. QED
    BY <1>1, <1>2
<1>4. \A r \in part : b(r) = BeginOf(others, left, r)
  <2>1. part \in SUBSET (listed \cap left)
    OBVIOUS
  <2>2. \A r \in part : others[r].prev = rows[r].prev
    OBVIOUS
  <2>3. InOrder(others, n, left)
    OBVIOUS
  <2> HIDE DEF part, left
  <2>4. QED
    BY <1>3, <2>1, <2>2, <2>3, SameBeginning
<1>5. \A r \in left : rows[r].asked \in left => r \in part /\ rows[r].asked \in part
                                               /\ b(r) = b(rows[r].asked)
  <2>1. SUFFICES ASSUME NEW r \in left, rows[r].asked \in left
                 PROVE  r \in part /\ rows[r].asked \in part /\ b(r) = b(rows[r].asked)
    OBVIOUS
  <2>2. rows[r].asked # 0
    BY <2>1 DEF InOrder
  <2>3. b(r) \notin taken /\ b(r) = b(rows[r].asked)
    BY <2>1, <2>2 DEF ContinuingOf
  <2> HIDE DEF b
  <2>4. QED
    BY <2>1, <2>3
<1> HIDE DEF b
<1>6. \A r \in left : others[r].asked \in left =>
         BeginOf(others, left, r) = BeginOf(others, left, others[r].asked)
  BY <1>4, <1>5
<1>7. QED
  BY <1>6 DEF ContinuingOf

-----------------------------------------------------------------------------
(* A step of one run: what it may change, and that it keeps the invariant. *)

\* A session hears of a run what is not yet known to any, and of ended ones.
Hears(r, c, a) ==
    /\ ~ Unheard(c, a)
    /\ \E s \in 1 .. MaxRuns, told \in Seq(Numbers) :
          /\ minds' = [minds EXCEPT ![s] = told]
          /\ \A i \in 1 .. Len(told) :
                told[i] = r \/ ~ Unheard(chats[told[i]], acting[told[i]])
          /\ \A i, j \in 1 .. Len(told) : told[i] = told[j] => i = j

RunMoves(r, c, a, evs) ==
    /\ r \in Numbers /\ chats[r].status \in {"queued", "running"}
    /\ c \in ChatRecord /\ c.prev = chats[r].prev /\ c.asked = chats[r].asked
    /\ c.status # "deleted"
    /\ a \in QueryRecord
    /\ QueryOK(c, a) /\ Answers(a, evs) /\ PastOK(chats, a.past, r)
    /\ Extends(journal[r], evs)
    /\ Unheard(c, a) => Unheard(chats[r], acting[r])
    /\ chats' = [chats EXCEPT ![r] = c]
    /\ acting' = [acting EXCEPT ![r] = a]
    /\ journal' = [journal EXCEPT ![r] = evs]
    /\ minds' = minds \/ Hears(r, c, a)
    /\ viewer' = viewer /\ doomed' = doomed

\* What such a step changes.
LEMMA RunFrame ==
    ASSUME TalkTyped, NEW r, NEW c, NEW a, NEW evs, RunMoves(r, c, a, evs)
    PROVE  /\ chats' \in Seq(ChatRecord) /\ Len(chats') = Len(chats)
           /\ acting' \in Seq(QueryRecord) /\ Len(acting') = Len(acting)
           /\ journal' \in Seq(Seq(ChatEvent)) /\ Len(journal') = Len(journal)
           /\ \A q \in Numbers : /\ chats'[q] = IF q = r THEN c ELSE chats[q]
                                 /\ acting'[q] = IF q = r THEN a ELSE acting[q]
                                 /\ journal'[q] = IF q = r THEN evs ELSE journal[q]
           /\ Numbers' = Numbers /\ ChatRows' = ChatRows
<1>1. /\ r \in 1 .. Len(chats) /\ r \in 1 .. Len(acting) /\ r \in 1 .. Len(journal)
      /\ c \in ChatRecord /\ a \in QueryRecord /\ evs \in Seq(ChatEvent)
  BY DEF RunMoves, TalkTyped, Numbers, Extends, Numbered
<1>2. /\ chats \in Seq(ChatRecord) /\ acting \in Seq(QueryRecord) /\ journal \in Seq(Seq(ChatEvent))
      /\ Len(acting) = Len(chats) /\ Len(journal) = Len(chats)
  BY DEF TalkTyped
<1>3. /\ chats' \in Seq(ChatRecord) /\ Len(chats') = Len(chats)
      /\ \A q \in 1 .. Len(chats) : chats'[q] = IF q = r THEN c ELSE chats[q]
  BY <1>1, <1>2, ExceptSeq DEF RunMoves
<1>4. /\ acting' \in Seq(QueryRecord) /\ Len(acting') = Len(acting)
      /\ \A q \in 1 .. Len(acting) : acting'[q] = IF q = r THEN a ELSE acting[q]
  BY <1>1, <1>2, ExceptSeq DEF RunMoves
<1>5. /\ journal' \in Seq(Seq(ChatEvent)) /\ Len(journal') = Len(journal)
      /\ \A q \in 1 .. Len(journal) : journal'[q] = IF q = r THEN evs ELSE journal[q]
  BY <1>1, <1>2, ExceptSeq DEF RunMoves
<1>6. Numbers' = Numbers
  BY <1>3 DEF Numbers
<1>7. ChatRows' = ChatRows
  BY <1>3, <1>6 DEF ChatRows, RunMoves, Numbers
<1>8. QED
  BY <1>2, <1>3, <1>4, <1>5, <1>6, <1>7 DEF Numbers

\* It keeps the rows, queries and logs as they should be,
LEMMA RunKeepsRows ==
    ASSUME TalkInv, NEW r, NEW c, NEW a, NEW evs, RunMoves(r, c, a, evs)
    PROVE  /\ TalkTyped'
           /\ (\A q \in Numbers : /\ QueryOK(chats[q], acting[q])
                                  /\ Answers(acting[q], journal[q])
                                  /\ PastOK(chats, acting[q].past, q))'
<1>1. TalkTyped
  BY DEF TalkInv
<1>2. /\ chats' \in Seq(ChatRecord) /\ Len(chats') = Len(chats)
      /\ acting' \in Seq(QueryRecord) /\ Len(acting') = Len(acting)
      /\ journal' \in Seq(Seq(ChatEvent)) /\ Len(journal') = Len(journal)
  BY <1>1, RunFrame
<1>3. \A q \in Numbers : /\ chats'[q] = IF q = r THEN c ELSE chats[q]
                         /\ acting'[q] = IF q = r THEN a ELSE acting[q]
                         /\ journal'[q] = IF q = r THEN evs ELSE journal[q]
  BY <1>1, RunFrame
<1>4. Numbers' = Numbers /\ ChatRows' = ChatRows
  BY <1>1, RunFrame
<1>5. minds' \in [1 .. MaxRuns -> Seq(Nat)]
  <2>1. minds \in [1 .. MaxRuns -> Seq(Nat)]
    BY <1>1 DEF TalkTyped
  <2>2. CASE Hears(r, c, a)
    <3>1. PICK s \in 1 .. MaxRuns, told \in Seq(Numbers) : minds' = [minds EXCEPT ![s] = told]
      BY <2>2 DEF Hears
    <3>2. Numbers \subseteq Nat
      BY DEF Numbers
    <3>3. told \in Seq(Nat)
      BY <3>2, SeqMonotonic
    <3>4. QED
      BY <2>1, <3>1, <3>3
  <2>3. QED
    BY <2>1, <2>2 DEF RunMoves
<1>6. \A q \in Numbers : chats'[q].prev = chats[q].prev /\ chats'[q].asked = chats[q].asked
  BY <1>3 DEF RunMoves
<1>7. TalkTyped'
  BY <1>1, <1>2, <1>4, <1>5, <1>6 DEF TalkTyped, RunMoves
<1>8. \A q \in Numbers : QueryOK(chats'[q], acting'[q]) /\ Answers(acting'[q], journal'[q])
  BY <1>3 DEF RunMoves, TalkInv
<1>9. \A q \in Numbers : PastOK(chats', acting'[q].past, q)
  <2>1. SUFFICES ASSUME NEW q \in Numbers
                 PROVE  PastOK(chats', acting'[q].past, q)
    OBVIOUS
  <2> DEFINE past == acting'[q].past
  <2>2. PastOK(chats, past, q) /\ past \in Seq(Nat)
    <3>1. acting[q] \in QueryRecord /\ a \in QueryRecord
      BY <1>1 DEF TalkTyped, Numbers, RunMoves
    <3>2. PastOK(chats, acting[q].past, q) /\ PastOK(chats, a.past, r)
      BY DEF TalkInv, RunMoves
    <3>3. acting[q].past \in Seq(Nat) /\ a.past \in Seq(Nat)
      BY <3>1 DEF QueryRecord
    <3>4. QED
      BY <1>3, <3>2, <3>3
  <2> HIDE DEF past
  <2>3. q \in Nat /\ q # 0 /\ \A i \in 1 .. q : i \in Numbers
    <3>1. Len(chats) \in Nat
      BY <1>1 DEF TalkTyped
    <3>2. QED
      BY <3>1 DEF Numbers
  <2>4. \A i \in 1 .. q - 1 : i \in 1 .. q
    BY <2>3
  <2>5. \A i \in 1 .. q : chats'[i].prev = chats[i].prev
    BY <1>6, <2>3
  <2>6. \A i \in 1 .. q - 1 : chats[i].status \notin {"queued", "running"} =>
                                 chats'[i].status \notin {"queued", "running"}
    BY <1>3, <2>3, <2>4 DEF RunMoves
  <2>7. PastOK(chats', past, q)
    BY <2>2, <2>3, <2>5, <2>6, PastStays
  <2>8. QED
    BY <2>7 DEF past
<1>10. QED
  BY <1>4, <1>7, <1>8, <1>9

\* what the sessions have heard,
LEMMA RunKeepsMinds ==
    ASSUME TalkInv, NEW r, NEW c, NEW a, NEW evs, RunMoves(r, c, a, evs)
    PROVE  MindsOK'
<1>1. TalkTyped /\ MindsOK
  BY DEF TalkInv
<1>2. /\ \A q \in Numbers : /\ chats'[q] = IF q = r THEN c ELSE chats[q]
                            /\ acting'[q] = IF q = r THEN a ELSE acting[q]
      /\ Numbers' = Numbers
  BY <1>1, RunFrame
<1>3. r \in Numbers /\ \A q \in Numbers : Unheard(chats'[q], acting'[q]) => Unheard(chats[q], acting[q])
  BY <1>2 DEF RunMoves
<1>4. CASE minds' = minds
  BY <1>1, <1>2, <1>3, <1>4 DEF MindsOK
<1>5. CASE Hears(r, c, a)
  <2>1. PICK s \in 1 .. MaxRuns, told \in Seq(Numbers) :
           /\ minds' = [minds EXCEPT ![s] = told]
           /\ \A i \in 1 .. Len(told) :
                 told[i] = r \/ ~ Unheard(chats[told[i]], acting[told[i]])
           /\ \A i, j \in 1 .. Len(told) : told[i] = told[j] => i = j
    BY <1>5 DEF Hears
  <2>2. \A i \in 1 .. Len(told) : told[i] \in Numbers
    BY ElementOfSeq
  <2>3. ~ Unheard(chats'[r], acting'[r])
    BY <1>2, <1>3, <1>5 DEF Hears
  <2>4. \A i \in 1 .. Len(told) : ~ Unheard(chats'[told[i]], acting'[told[i]])
    BY <1>3, <2>1, <2>2, <2>3
  <2>5. \A z \in 1 .. MaxRuns : minds'[z] = IF z = s THEN told ELSE minds[z]
    BY <1>1, <2>1 DEF TalkTyped
  <2>6. QED
    BY <1>1, <1>2, <1>3, <2>1, <2>2, <2>4, <2>5 DEF MindsOK
<1>6. QED
  BY <1>4, <1>5 DEF RunMoves

\* What was shown of a log was shown of one that goes on from it.
LEMMA ShownFurther ==
    ASSUME NEW v, NEW old, NEW evs, Numbered(old), IsShown(v, old), Extends(old, evs)
    PROVE  IsShown(v, evs)
<1> DEFINE m == Len(v.sent)
           k == Len(v.queue)
           n == Len(old)
<1>1. /\ v.sent \in Seq(ChatEvent) /\ v.queue \in Seq(ChatEvent) /\ v.last = m
      /\ m + k <= n
      /\ \A i \in 1 .. m : v.sent[i] = old[i]
      /\ \A i \in 1 .. k : v.queue[i] = old[m + i]
  BY DEF IsShown
<1>2. m \in Nat /\ k \in Nat /\ n \in Nat /\ Len(evs) \in Nat
  BY <1>1 DEF Numbered, Extends
<1>3. n <= Len(evs) /\ \A i \in 1 .. n : evs[i] = old[i]
  BY DEF Extends
<1> HIDE DEF m, k, n
<1>4. /\ \A i \in 1 .. m : i \in 1 .. n
      /\ \A i \in 1 .. k : m + i \in 1 .. n
      /\ m + k <= Len(evs)
  BY <1>1, <1>2, <1>3
<1>5. /\ \A i \in 1 .. m : v.sent[i] = evs[i]
      /\ \A i \in 1 .. k : v.queue[i] = evs[m + i]
  BY <1>1, <1>3, <1>4
<1>6. QED
  BY <1>1, <1>4, <1>5 DEF IsShown, m, k

\* what is shown,
LEMMA RunKeepsView ==
    ASSUME TalkInv, NEW r, NEW c, NEW a, NEW evs, RunMoves(r, c, a, evs)
    PROVE  Viewing'
<1>1. TalkTyped /\ Viewing /\ \A q \in Numbers : Numbered(journal[q])
  BY DEF TalkInv, Answers
<1>2. /\ \A q \in Numbers : journal'[q] = IF q = r THEN evs ELSE journal[q]
      /\ Numbers' = Numbers /\ ChatRows' = ChatRows
  BY <1>1, RunFrame
<1>3. \A q \in Numbers : Extends(journal[q], journal'[q])
  BY <1>1, <1>2, ExtendsSelf DEF RunMoves
<1>4. ASSUME viewer.run \in ChatRows
      PROVE  IsShown(viewer, journal'[viewer.run])
  <2>1. viewer.run \in Numbers /\ IsShown(viewer, journal[viewer.run])
    BY <1>1, <1>4 DEF Viewing, ChatRows
  <2>2. QED
    BY <1>1, <1>3, <2>1, ShownFurther
<1>5. viewer' = viewer
  BY DEF RunMoves
<1>6. QED
  BY <1>1, <1>2, <1>4, <1>5 DEF Viewing

\* and whom the runs answer.
LEMMA RunKeepsConversations ==
    ASSUME TalkInv, NEW r, NEW c, NEW a, NEW evs, RunMoves(r, c, a, evs)
    PROVE  Continuing'
<1>1. TalkTyped /\ Continuing /\ doomed \subseteq ChatRows
  BY DEF TalkInv, TalkTyped
<1>2. /\ \A q \in Numbers : chats'[q] = IF q = r THEN c ELSE chats[q]
      /\ Len(chats') = Len(chats) /\ ChatRows' = ChatRows
  BY <1>1, RunFrame
<1>3. InOrder(chats, Len(chats), ChatRows)
  BY <1>1, RowsInOrder
<1>4. \A q \in Numbers : chats'[q].prev = chats[q].prev /\ chats'[q].asked = chats[q].asked
  BY <1>2 DEF RunMoves
<1>5. InOrder(chats', Len(chats), ChatRows)
  BY <1>3, <1>4 DEF InOrder, Numbers
<1>6. ContinuingOf(chats, ChatRows, doomed)
  BY <1>1, ContinuingIs
<1>7. \A q \in ChatRows : chats'[q].prev = chats[q].prev /\ chats'[q].asked = chats[q].asked
  BY <1>4 DEF ChatRows
<1>8. ContinuingOf(chats', ChatRows, doomed)
  BY <1>1, <1>3, <1>5, <1>6, <1>7, SameRowsContinue
<1>9. QED
  BY <1>2, <1>8, ContinuingIsNext DEF RunMoves

LEMMA RunKeeps ==
    ASSUME TalkInv, NEW r, NEW c, NEW a, NEW evs, RunMoves(r, c, a, evs)
    PROVE  TalkInv'
BY RunKeepsRows, RunKeepsMinds, RunKeepsView, RunKeepsConversations DEF TalkInv

-----------------------------------------------------------------------------
(* The steps of a run, one by one.                                         *)

LEMMA SameExcept ==
    ASSUME NEW S, NEW f \in Seq(S), NEW r \in 1 .. Len(f)
    PROVE  f = [f EXCEPT ![r] = f[r]]
OBVIOUS

LEMMA SeqAmong ==
    ASSUME NEW S, NEW T, NEW f \in Seq(S), \A i \in 1 .. Len(f) : f[i] \in T
    PROVE  f \in Seq(T)
<1>1. Len(f) \in Nat /\ f \in [1 .. Len(f) -> T]
  OBVIOUS
<1>2. QED
  BY <1>1

\* One more round, at the end.
LEMMA RoundMore ==
    ASSUME NEW S, NEW f \in Seq(S), NEW r \in S
    PROVE  /\ f \o <<r>> = Append(f, r)
           /\ Append(f, r) \in Seq(S) /\ Len(f) \in Nat /\ Len(Append(f, r)) = Len(f) + 1
           /\ Append(f, r)[Len(f) + 1] = r
           /\ \A i \in 1 .. Len(f) : Append(f, r)[i] = f[i]
           /\ \A i \in 1 .. Len(f) + 1 : i = Len(f) + 1 \/ i \in 1 .. Len(f)
<1>1. f \o <<r>> = Append(f, r)
  OBVIOUS
<1>2. QED
  BY <1>1, AppendProperties

\* What the invariant says of one run.
LEMMA RunFacts ==
    ASSUME TalkInv, NEW r \in Numbers
    PROVE  /\ r \in Nat /\ r \in 1 .. MaxRuns /\ MaxRuns \in Nat
           /\ chats[r] \in ChatRecord /\ acting[r] \in QueryRecord
           /\ QueryOK(chats[r], acting[r]) /\ Answers(acting[r], journal[r])
           /\ Numbered(journal[r]) /\ PastOK(chats, acting[r].past, r)
           /\ r \in 1 .. Len(chats) /\ r \in 1 .. Len(acting) /\ r \in 1 .. Len(journal)
           /\ chats \in Seq(ChatRecord) /\ acting \in Seq(QueryRecord)
           /\ journal \in Seq(Seq(ChatEvent)) /\ minds \in [1 .. MaxRuns -> Seq(Nat)]
<1>1. TalkTyped /\ Len(chats) \in Nat
  BY DEF TalkInv, TalkTyped
<1>2. r \in 1 .. Len(chats) /\ Len(chats) <= MaxRuns /\ MaxRuns \in Nat
  BY <1>1, ConversationsAssumption DEF TalkTyped, Numbers
<1>3. r \in Nat /\ r \in 1 .. MaxRuns
  BY <1>1, <1>2
<1>4. Answers(acting[r], journal[r]) /\ QueryOK(chats[r], acting[r]) /\ PastOK(chats, acting[r].past, r)
  BY DEF TalkInv
<1>5. Numbered(journal[r])
  BY <1>4 DEF Answers
<1>6. QED
  BY <1>1, <1>2, <1>3, <1>4, <1>5 DEF TalkTyped

LEMMA RowChanges ==
    ASSUME NEW c \in ChatRecord, NEW status \in ChatStatuses
    PROVE  LET new == [c EXCEPT !.status = status]
           IN  /\ new \in ChatRecord /\ new.prev = c.prev /\ new.asked = c.asked
               /\ new.status = status
BY DEF ChatRecord

LEMMA StartMoves ==
    ASSUME TalkInv, NEW r \in Numbers, StartQuery(r)
    PROVE  \E c, a, evs : RunMoves(r, c, a, evs)
<1> DEFINE query == IF Resumed(r) # 0 THEN "resume" ELSE "fresh"
           c == [chats[r] EXCEPT !.status = "running"]
           a == [acting[r] EXCEPT !.query = query, !.from = Resumed(r), !.past = Bounded(Past(r))]
           evs == Noted(journal[r], "context.history")
<1>1. /\ chats[r] \in ChatRecord /\ acting[r] \in QueryRecord
      /\ QueryOK(chats[r], acting[r]) /\ Answers(acting[r], journal[r])
      /\ chats[r].status = "queued" /\ chats \in Seq(ChatRecord)
  BY RunFacts DEF StartQuery
<1>2. acting[r].query = "none"
  BY <1>1 DEF QueryOK
<1>3. Resumed(r) \in 0 .. MaxRuns
  <2>1. ASSUME NEW q \in ChatRows
        PROVE  chats[q].session \in 0 .. MaxRuns
    <3>1. q \in Numbers
      BY DEF ChatRows
    <3>2. chats[q] \in ChatRecord
      BY <3>1, RunFacts
    <3>3. QED
      BY <3>2 DEF ChatRecord
  <2>2. 0 \in 0 .. MaxRuns
    BY ConversationsAssumption
  <2>3. QED
    BY <2>1, <2>2 DEF Resumed
<1>4. Bounded(Past(r)) \in Seq(Nat) /\ PastOK(chats, Bounded(Past(r)), r)
  BY HistoryIsOK DEF TalkInv
<1>5. /\ c \in ChatRecord /\ c.prev = chats[r].prev /\ c.asked = chats[r].asked
      /\ c.status = "running"
  <2>1. "running" \in ChatStatuses
    BY DEF ChatStatuses
  <2>2. QED
    BY <1>1, <2>1, RowChanges, Zenon
<1>6. /\ chats' = [chats EXCEPT ![r] = c] /\ acting' = [acting EXCEPT ![r] = a]
      /\ journal' = [journal EXCEPT ![r] = evs]
      /\ minds' = minds /\ viewer' = viewer /\ doomed' = doomed
  BY DEF StartQuery
<1>7. /\ a \in QueryRecord /\ a.query = query /\ a.from = Resumed(r) /\ a.past = Bounded(Past(r))
      /\ a.buffer = acting[r].buffer /\ a.said = acting[r].said
  <2>1. query \in QueryKinds
    BY DEF QueryKinds
  <2>2. QED
    BY <1>1, <1>3, <1>4, <2>1 DEF QueryRecord
<1> HIDE DEF c, a
<1>8. Answers(a, journal[r])
  BY <1>1, <1>2, <1>7, StartAnswers
<1>9. Answers(a, evs) /\ Extends(journal[r], evs)
  <2>1. "context.history" \in EventKinds
    BY DEF EventKinds
  <2>2. \A l : Answers(a, l) => Answers(a, Noted(l, "context.history"))
    BY <2>1, NoteKeepsAnswers
  <2>3. Extends(journal[r], evs)
    BY <1>1, <2>1, NoteKeepsAnswers
  <2>4. QED
    BY <1>8, <2>2, <2>3
<1>10. QueryOK(c, a)
  BY <1>5, <1>7 DEF QueryOK
<1>11. Unheard(chats[r], acting[r])
  BY <1>1, <1>2 DEF Unheard
<1> HIDE DEF evs, query
<1>12. RunMoves(r, c, a, evs)
  BY <1>1, <1>4, <1>5, <1>6, <1>7, <1>9, <1>10, <1>11 DEF RunMoves
<1>13. QED
  BY <1>12

\* A session that is resumed has no round of the run that resumes it.
LEMMA ResumedHears ==
    ASSUME TalkInv, NEW r \in Numbers, Querying(r), acting[r].query = "resume",
           NEW s \in 1 .. MaxRuns, minds' = [minds EXCEPT ![s] = minds[acting[r].from] \o <<r>>],
           NEW c, NEW a, ~ Unheard(c, a)
    PROVE  Hears(r, c, a)
<1> DEFINE from == acting[r].from
           known == minds[from]
           told == Append(known, r)
<1>1. from \in 1 .. MaxRuns
  <2>1. from \in 0 .. MaxRuns /\ MaxRuns \in Nat
    BY RunFacts DEF QueryRecord
  <2>2. from # 0
    BY RunFacts DEF QueryOK
  <2> HIDE DEF from
  <2>3. QED
    BY <2>1, <2>2
<1>2. known \in Seq(Nat)
  BY <1>1, RunFacts
<1>3. /\ \A i \in 1 .. Len(known) : /\ known[i] \in Numbers
                                    /\ ~ Unheard(chats[known[i]], acting[known[i]])
      /\ \A i, j \in 1 .. Len(known) : known[i] = known[j] => i = j
  BY <1>1 DEF TalkInv, MindsOK
<1> HIDE DEF from, known
<1>4. known \in Seq(Numbers)
  BY <1>2, <1>3, SeqAmong
<1>5. /\ known \o <<r>> = told /\ told \in Seq(Numbers)
      /\ Len(known) \in Nat /\ Len(told) = Len(known) + 1 /\ told[Len(known) + 1] = r
      /\ \A i \in 1 .. Len(known) : told[i] = known[i]
      /\ \A i \in 1 .. Len(known) + 1 : i = Len(known) + 1 \/ i \in 1 .. Len(known)
  <2>1. /\ known \o <<r>> = Append(known, r)
        /\ Append(known, r) \in Seq(Numbers)
        /\ Len(known) \in Nat /\ Len(Append(known, r)) = Len(known) + 1
        /\ Append(known, r)[Len(known) + 1] = r
        /\ \A i \in 1 .. Len(known) : Append(known, r)[i] = known[i]
        /\ \A i \in 1 .. Len(known) + 1 : i = Len(known) + 1 \/ i \in 1 .. Len(known)
    BY <1>4, RoundMore, SMTT(60)
  <2>2. QED
    BY <2>1
<1>6. Unheard(chats[r], acting[r])
  BY DEF Querying, Unheard
<1>7. minds' = [minds EXCEPT ![s] = told]
  BY <1>5 DEF known, from
<1> HIDE DEF told
<1>8. \A i \in 1 .. Len(told) : told[i] = r \/ ~ Unheard(chats[told[i]], acting[told[i]])
  BY <1>3, <1>5
<1>9. \A i \in 1 .. Len(known) : known[i] # r
  BY <1>3, <1>6
<1>10. \A i, j \in 1 .. Len(told) : told[i] = told[j] => i = j
  BY <1>3, <1>5, <1>9
<1>11. QED
  BY <1>5, <1>7, <1>8, <1>10 DEF Hears

\* A query that breaks off is heard of or not.
LEMMA BrokenOffHears ==
    ASSUME TalkInv, NEW r \in Numbers, minds' \in Heard(r), NEW c, NEW a, ~ Unheard(c, a)
    PROVE  minds' = minds \/ Hears(r, c, a)
<1>1. SUFFICES ASSUME minds' # minds
               PROVE  Hears(r, c, a)
  OBVIOUS
<1> DEFINE from == acting[r].from
<1>2. /\ Querying(r) /\ acting[r].query = "resume"
      /\ minds' = [minds EXCEPT ![from] = minds[from] \o <<r>>]
  BY <1>1 DEF Heard, Told
<1>3. from \in 1 .. MaxRuns
  <2>1. from \in 0 .. MaxRuns /\ MaxRuns \in Nat
    BY RunFacts DEF QueryRecord
  <2>2. from # 0
    BY <1>2, RunFacts DEF QueryOK
  <2> HIDE DEF from
  <2>3. QED
    BY <2>1, <2>2
<1>4. QED
  BY <1>2, <1>3, ResumedHears

LEMMA QueryFallsBack ==
    ASSUME NEW a \in QueryRecord
    PROVE  LET new == [a EXCEPT !.query = "fresh", !.buffer = <<>>, !.said = {}]
           IN  /\ new \in QueryRecord
               /\ new.query = "fresh" /\ new.buffer = <<>> /\ new.said = {} /\ new.past = a.past
<1>1. "fresh" \in QueryKinds /\ <<>> \in Seq(Nat) /\ {} \in SUBSET Nat
  BY DEF QueryKinds
<1>2. QED
  BY <1>1 DEF QueryRecord

LEMMA ResumeFailsMoves ==
    ASSUME TalkInv, NEW r \in Numbers, ResumeFails(r)
    PROVE  \E c, a, evs : RunMoves(r, c, a, evs)
<1> DEFINE c == chats[r]
           a == [acting[r] EXCEPT !.query = "fresh", !.buffer = <<>>, !.said = {}]
           evs == Cleared(Noted(journal[r], "context.fallback"))
<1>1. /\ c \in ChatRecord /\ acting[r] \in QueryRecord /\ chats \in Seq(ChatRecord)
      /\ Answers(acting[r], journal[r]) /\ PastOK(chats, acting[r].past, r)
      /\ r \in 1 .. Len(chats) /\ c.status = "running" /\ acting[r].query = "resume"
      /\ Querying(r)
  BY RunFacts DEF ResumeFails, Querying
<1>2. chats' = [chats EXCEPT ![r] = c]
  BY <1>1, SameExcept DEF ResumeFails
<1>3. /\ acting' = [acting EXCEPT ![r] = a] /\ journal' = [journal EXCEPT ![r] = evs]
      /\ viewer' = viewer /\ doomed' = doomed /\ minds' \in Heard(r)
  BY DEF ResumeFails
<1>4. /\ a \in QueryRecord /\ a.query = "fresh" /\ a.buffer = <<>> /\ a.said = {}
      /\ a.past = acting[r].past
  BY <1>1, QueryFallsBack, Zenon
<1> HIDE DEF a
<1>5. Answers(a, evs) /\ Extends(journal[r], evs)
  BY <1>1, <1>4, FallbackAnswers
<1>6. QueryOK(c, a) /\ ~ Unheard(c, a)
  BY <1>1, <1>4 DEF QueryOK, Unheard
<1> HIDE DEF c, evs
<1>7. minds' = minds \/ Hears(r, c, a)
  BY <1>1, <1>3, <1>6, BrokenOffHears
<1>8. RunMoves(r, c, a, evs)
  BY <1>1, <1>2, <1>3, <1>4, <1>5, <1>6, <1>7 DEF RunMoves, c
<1>9. QED
  BY <1>8

\* A session that is new hears the history and the run.
LEMMA FreshHears ==
    ASSUME TalkInv, NEW r \in Numbers,
           NEW s \in 1 .. MaxRuns, minds' = [minds EXCEPT ![s] = Append(acting[r].past, r)],
           NEW c, NEW a, ~ Unheard(c, a)
    PROVE  Hears(r, c, a)
<1> DEFINE past == acting[r].past
           told == Append(past, r)
<1>1. /\ past \in Seq(Nat) /\ r \in Nat /\ r \in 1 .. Len(chats) /\ Len(chats) \in Nat
      /\ PastOK(chats, past, r)
  <2>1. /\ acting[r] \in QueryRecord /\ r \in Nat /\ r \in 1 .. Len(chats)
        /\ chats \in Seq(ChatRecord) /\ PastOK(chats, past, r)
    BY RunFacts
  <2>2. past \in Seq(Nat)
    BY <2>1 DEF QueryRecord
  <2>3. Len(chats) \in Nat
    BY <2>1
  <2>4. QED
    BY <2>1, <2>2, <2>3
<1> HIDE DEF past
<1>2. /\ \A i \in 1 .. Len(past) : /\ past[i] \in 1 .. r - 1
                                   /\ chats[past[i]].status \notin {"queued", "running"}
      /\ \A i, j \in 1 .. Len(past) : i < j => past[i] < past[j]
  BY <1>1 DEF PastOK
<1>3. \A i \in 1 .. Len(past) : past[i] \in Numbers /\ past[i] # r /\ past[i] \in Nat
  BY <1>1, <1>2 DEF Numbers
<1>4. past \in Seq(Numbers)
  BY <1>1, <1>3, SeqAmong
<1>5. /\ told \in Seq(Numbers)
      /\ Len(past) \in Nat /\ Len(told) = Len(past) + 1 /\ told[Len(past) + 1] = r
      /\ \A i \in 1 .. Len(past) : told[i] = past[i]
      /\ \A i \in 1 .. Len(past) + 1 : i = Len(past) + 1 \/ i \in 1 .. Len(past)
  <2>1. /\ Append(past, r) \in Seq(Numbers)
        /\ Len(past) \in Nat /\ Len(Append(past, r)) = Len(past) + 1
        /\ Append(past, r)[Len(past) + 1] = r
        /\ \A i \in 1 .. Len(past) : Append(past, r)[i] = past[i]
        /\ \A i \in 1 .. Len(past) + 1 : i = Len(past) + 1 \/ i \in 1 .. Len(past)
    BY <1>4, RoundMore
  <2>2. QED
    BY <2>1
<1>6. minds' = [minds EXCEPT ![s] = told]
  BY DEF past
<1> HIDE DEF told
<1>7. \A i \in 1 .. Len(told) : told[i] = r \/ ~ Unheard(chats[told[i]], acting[told[i]])
  BY <1>2, <1>5 DEF Unheard
<1>8. \A i, j \in 1 .. Len(past) : past[i] = past[j] => i = j
  <2>1. SUFFICES ASSUME NEW i \in 1 .. Len(past), NEW j \in 1 .. Len(past), past[i] = past[j]
                 PROVE  i = j
    OBVIOUS
  <2>2. ~ (past[i] < past[j]) /\ ~ (past[j] < past[i])
    BY <1>3, <2>1
  <2>3. ~ (i < j) /\ ~ (j < i)
    BY <1>2, <2>2
  <2>4. QED
    BY <1>5, <2>3
<1>9. \A i, j \in 1 .. Len(told) : told[i] = told[j] => i = j
  BY <1>3, <1>5, <1>8
<1>10. told \in Seq(Numbers)
  BY <1>5
<1>11. QED
  BY <1>6, <1>7, <1>9, <1>10, Zenon DEF Hears

LEMMA QueryEndsMoves ==
    ASSUME TalkInv, NEW r \in Numbers, NEW ok \in BOOLEAN, NEW session \in Numbers,
           QueryEnds(r, ok, session)
    PROVE  \E c, a, evs : RunMoves(r, c, a, evs)
<1>1. PICK named \in {session, 0} :
         acting' = [acting EXCEPT ![r].query = "over", ![r].ok = ok, ![r].buffer = <<>>,
                                  ![r].session = named]
  BY DEF QueryEnds
<1> DEFINE c == chats[r]
           old == acting[r]
           a == [old EXCEPT !.query = "over", !.ok = ok, !.buffer = <<>>, !.session = named]
           evs == Flushed(journal[r], old.buffer)
<1>2. /\ c \in ChatRecord /\ old \in QueryRecord /\ chats \in Seq(ChatRecord)
      /\ Answers(old, journal[r]) /\ PastOK(chats, old.past, r)
      /\ r \in 1 .. Len(chats) /\ c.status = "running" /\ old.query \in {"resume", "fresh"}
      /\ Querying(r) /\ old.buffer \in Seq(Nat)
  <2>1. Querying(r)
    BY DEF QueryEnds
  <2>2. old \in QueryRecord
    BY RunFacts
  <2>3. old.buffer \in Seq(Nat)
    BY <2>2 DEF QueryRecord
  <2>4. QED
    BY <2>1, <2>2, <2>3, RunFacts DEF Querying
<1>3. chats' = [chats EXCEPT ![r] = c]
  BY <1>2, SameExcept DEF QueryEnds
<1>4. /\ acting' = [acting EXCEPT ![r] = a] /\ journal' = [journal EXCEPT ![r] = evs]
      /\ viewer' = viewer /\ doomed' = doomed
  BY <1>1 DEF QueryEnds
<1>5. session \in 1 .. MaxRuns /\ named \in 0 .. MaxRuns
  <2>1. session \in 1 .. MaxRuns /\ MaxRuns \in Nat
    BY RunFacts
  <2>2. QED
    BY <2>1
<1>6. a \in QueryRecord /\ a.query = "over" /\ a.buffer = <<>> /\ a.past = old.past
  <2>1. old \in QueryRecord /\ "over" \in QueryKinds /\ <<>> \in Seq(Nat)
    BY <1>2 DEF QueryKinds
  <2> HIDE DEF old
  <2>2. QED
    BY <1>5, <2>1 DEF QueryRecord
<1>7. \/ old.query = "resume" /\ minds' = [minds EXCEPT ![session] = minds[old.from] \o <<r>>]
      \/ minds' = [minds EXCEPT ![session] = Append(old.past, r)]
  <2>1. minds' = [minds EXCEPT ![session] =
                     (IF old.query = "resume" THEN minds[old.from] ELSE <<>>) \o Told(r, old.query)]
    BY DEF QueryEnds
  <2>2. CASE old.query = "resume"
    BY <2>1, <2>2 DEF Told
  <2>3. CASE old.query # "resume"
    <3>1. old.past \in Seq(Nat) /\ r \in Nat
      BY <1>2, RunFacts DEF QueryRecord
    <3>2. Append(old.past, r) \in Seq(Nat)
      BY <3>1
    <3>3. <<>> \o Append(old.past, r) = Append(old.past, r)
      BY <3>2, ConcatEmptySeq
    <3>4. QED
      BY <2>1, <2>3, <3>3 DEF Told
  <2>4. QED
    BY <2>2, <2>3
<1> HIDE DEF a
<1>8. Answers(a, evs) /\ Extends(journal[r], evs)
  BY <1>2, <1>6, EndAnswers
<1>9. QueryOK(c, a) /\ ~ Unheard(c, a)
  BY <1>2, <1>6 DEF QueryOK, Unheard
<1>10. Hears(r, c, a)
  <2>1. CASE minds' = [minds EXCEPT ![session] = Append(old.past, r)]
    BY <1>5, <1>9, <2>1, FreshHears
  <2>2. CASE old.query = "resume" /\ minds' = [minds EXCEPT ![session] = minds[old.from] \o <<r>>]
    BY <1>2, <1>5, <1>9, <2>2, ResumedHears
  <2>3. QED
    BY <1>7, <2>1, <2>2
<1> HIDE DEF evs
<1>11. RunMoves(r, c, a, evs)
  <2> HIDE DEF c, old
  <2>1. c.prev = chats[r].prev /\ c.asked = chats[r].asked /\ chats[r].status = "running"
    BY <1>2 DEF c
  <2>2. QED
    BY <1>2, <1>3, <1>4, <1>6, <1>8, <1>9, <1>10, <2>1 DEF RunMoves
<1>12. QED
  BY <1>11

LEMMA DryRunMoves ==
    ASSUME TalkInv, NEW r \in Numbers, DryRun(r)
    PROVE  \E c, a, evs : RunMoves(r, c, a, evs)
<1> DEFINE c == chats[r]
           a == [acting[r] EXCEPT !.query = "over", !.ok = TRUE]
           evs == journal[r]
<1>1. /\ c \in ChatRecord /\ acting[r] \in QueryRecord /\ chats \in Seq(ChatRecord)
      /\ Answers(acting[r], journal[r]) /\ PastOK(chats, acting[r].past, r)
      /\ r \in 1 .. Len(chats) /\ c.status = "running" /\ acting[r].query = "fresh"
      /\ r \in 1 .. Len(journal) /\ journal \in Seq(Seq(ChatEvent)) /\ Numbered(evs)
  BY RunFacts DEF DryRun, Querying
<1>2. chats' = [chats EXCEPT ![r] = c] /\ journal' = [journal EXCEPT ![r] = evs]
  <2>1. chats = [chats EXCEPT ![r] = c]
    BY <1>1, SameExcept
  <2>2. journal = [journal EXCEPT ![r] = evs]
    BY <1>1, SameExcept
  <2>3. QED
    BY <2>1, <2>2 DEF DryRun
<1>3. /\ acting' = [acting EXCEPT ![r] = a]
      /\ viewer' = viewer /\ doomed' = doomed /\ minds' = minds
  BY DEF DryRun
<1>4. /\ a \in QueryRecord /\ a.query = "over" /\ a.buffer = acting[r].buffer
      /\ a.said = acting[r].said /\ a.past = acting[r].past
  BY <1>1 DEF QueryRecord, QueryKinds
<1> HIDE DEF a
<1>5. Answers(a, evs) /\ Extends(journal[r], evs)
  <2>1. Answers(a, evs)
    BY <1>1, <1>4, OverAnswers
  <2>2. Extends(evs, evs)
    BY <1>1, ExtendsSelf
  <2>3. QED
    BY <2>1, <2>2
<1>6. QueryOK(c, a) /\ ~ Unheard(c, a)
  BY <1>1, <1>4 DEF QueryOK, Unheard
<1> HIDE DEF c, evs
<1>7. RunMoves(r, c, a, evs)
  BY <1>1, <1>2, <1>3, <1>4, <1>5, <1>6 DEF RunMoves, c, evs
<1>8. QED
  BY <1>7

LEMMA CompleteRunMoves ==
    ASSUME TalkInv, NEW r \in Numbers, CompleteRun(r)
    PROVE  \E c, a, evs : RunMoves(r, c, a, evs)
<1> DEFINE a == acting[r]
           old == journal[r]
           c == [chats[r] EXCEPT !.status = Outcome(r), !.session = a.session]
           silent == TextsAt(old) = {} /\ a.session = 0
           last == IF Outcome(r) = "failed" THEN Noted(old, "run.error")
                   ELSE IF silent THEN Entered(old, "text", "summary", 0) ELSE old
           evs == Noted(last, "run.ended")
<1>1. /\ chats[r] \in ChatRecord /\ a \in QueryRecord /\ acting \in Seq(QueryRecord)
      /\ Answers(a, old) /\ Numbered(old) /\ PastOK(chats, a.past, r)
      /\ r \in 1 .. Len(acting) /\ chats[r].status = "running" /\ a.query = "over"
  BY RunFacts DEF CompleteRun
<1>2. acting' = [acting EXCEPT ![r] = a]
  BY <1>1, SameExcept DEF CompleteRun
<1>3. /\ journal' = [journal EXCEPT ![r] = evs] /\ chats' = [chats EXCEPT ![r] = c]
      /\ viewer' = viewer /\ doomed' = doomed /\ minds' = minds
  BY DEF CompleteRun
<1>4. /\ c \in ChatRecord /\ c.prev = chats[r].prev /\ c.asked = chats[r].asked
      /\ c.status \in Ended
  <2>1. Outcome(r) \in Ended /\ Outcome(r) \in ChatStatuses
    BY DEF Outcome, Ended, ChatStatuses
  <2>2. a.session \in 0 .. MaxRuns
    BY <1>1 DEF QueryRecord
  <2> HIDE DEF a
  <2>3. QED
    BY <1>1, <2>1, <2>2 DEF ChatRecord
<1>5. Answers(a, last) /\ Extends(old, last)
  <2>1. CASE Outcome(r) = "failed"
    <3>1. "run.error" \in EventKinds
      BY DEF EventKinds
    <3> HIDE DEF a, old
    <3>2. QED
      BY <1>1, <2>1, <3>1, NoteKeepsAnswers
  <2>2. CASE Outcome(r) # "failed" /\ silent
    <3>1. TextsAt(old) = {} /\ last = Entered(old, "text", "summary", 0)
      BY <2>2
    <3> HIDE DEF a, old, last
    <3>2. QED
      BY <1>1, <3>1, SummaryAnswers
  <2>3. CASE Outcome(r) # "failed" /\ ~ silent
    <3> HIDE DEF a, old, silent
    <3>1. QED
      BY <1>1, <2>3, ExtendsSelf
  <2>4. QED
    BY <2>1, <2>2, <2>3
<1> HIDE DEF last
<1>6. Answers(a, evs) /\ Extends(last, evs)
  <2>1. "run.ended" \in EventKinds
    BY DEF EventKinds
  <2> HIDE DEF a
  <2>2. QED
    BY <1>5, <2>1, NoteKeepsAnswers
<1> HIDE DEF evs, c
<1>7. Extends(old, evs)
  BY <1>1, <1>5, <1>6, ExtendsTwice
<1>8. QueryOK(c, a) /\ ~ Unheard(c, a) /\ c.status # "deleted"
  BY <1>1, <1>4 DEF QueryOK, Unheard, Ended
<1> HIDE DEF a, old
<1>9. RunMoves(r, c, a, evs)
  BY <1>1, <1>2, <1>3, <1>4, <1>6, <1>7, <1>8 DEF RunMoves, old
<1>10. QED
  BY <1>9

LEMMA FailMoves ==
    ASSUME TalkInv, NEW r \in Numbers, Fail(r)
    PROVE  \E c, a, evs : RunMoves(r, c, a, evs)
<1> DEFINE a == acting[r]
           old == journal[r]
           c == [chats[r] EXCEPT !.status = "failed"]
           last == Noted(old, "run.error")
           evs == Noted(last, "run.ended")
<1>1. /\ chats[r] \in ChatRecord /\ a \in QueryRecord /\ acting \in Seq(QueryRecord)
      /\ Answers(a, old) /\ Numbered(old) /\ PastOK(chats, a.past, r) /\ QueryOK(chats[r], a)
      /\ r \in 1 .. Len(acting) /\ chats[r].status \in {"queued", "running"}
  BY RunFacts DEF Fail, Ongoing
<1>2. acting' = [acting EXCEPT ![r] = a]
  BY <1>1, SameExcept DEF Fail
<1>3. /\ journal' = [journal EXCEPT ![r] = evs] /\ chats' = [chats EXCEPT ![r] = c]
      /\ viewer' = viewer /\ doomed' = doomed /\ minds' \in Heard(r)
  BY DEF Fail
<1>4. /\ c \in ChatRecord /\ c.prev = chats[r].prev /\ c.asked = chats[r].asked
      /\ c.status = "failed"
  <2>1. "failed" \in ChatStatuses
    BY DEF ChatStatuses
  <2>2. QED
    BY <1>1, <2>1, RowChanges, Zenon
<1> HIDE DEF a, old, c
<1>5. Answers(a, last) /\ Extends(old, last)
  <2>1. "run.error" \in EventKinds
    BY DEF EventKinds
  <2>2. QED
    BY <1>1, <2>1, NoteKeepsAnswers
<1> HIDE DEF last
<1>6. Answers(a, evs) /\ Extends(last, evs)
  <2>1. "run.ended" \in EventKinds
    BY DEF EventKinds
  <2>2. QED
    BY <1>5, <2>1, NoteKeepsAnswers
<1> HIDE DEF evs
<1>7. Extends(old, evs)
  BY <1>1, <1>5, <1>6, ExtendsTwice
<1>8. QueryOK(c, a) /\ ~ Unheard(c, a) /\ c.status # "deleted"
  BY <1>1, <1>4 DEF QueryOK, Unheard
<1>9. minds' = minds \/ Hears(r, c, a)
  BY <1>3, <1>8, BrokenOffHears
<1>10. RunMoves(r, c, a, evs)
  BY <1>1, <1>2, <1>3, <1>4, <1>6, <1>7, <1>8, <1>9 DEF RunMoves, old
<1>11. QED
  BY <1>10

LEMMA SayMoves ==
    ASSUME TalkInv, NEW r \in Numbers, NEW text \in Nat, Say(r, text)
    PROVE  \E c, a, evs : RunMoves(r, c, a, evs)
<1> DEFINE c == chats[r]
           old == acting[r]
           keeps == old.query = "resume"
           buffer == IF keeps THEN Append(old.buffer, text) ELSE old.buffer
           a == [old EXCEPT !.said = @ \cup {text}, !.buffer = buffer]
           evs == IF keeps THEN journal[r] ELSE Entered(journal[r], "text", "fresh", text)
<1>1. /\ c \in ChatRecord /\ old \in QueryRecord /\ chats \in Seq(ChatRecord)
      /\ Answers(old, journal[r]) /\ Numbered(journal[r]) /\ PastOK(chats, old.past, r)
      /\ QueryOK(c, old)
      /\ r \in 1 .. Len(chats) /\ r \in 1 .. Len(journal) /\ journal \in Seq(Seq(ChatEvent))
      /\ c.status = "running" /\ old.query \in {"resume", "fresh"} /\ text \notin old.said
  BY RunFacts DEF Say, Querying
<1>2. chats' = [chats EXCEPT ![r] = c] /\ journal' = [journal EXCEPT ![r] = evs]
  <2>1. chats = [chats EXCEPT ![r] = c]
    BY <1>1, SameExcept
  <2>2. journal = [journal EXCEPT ![r] = journal[r]]
    BY <1>1, SameExcept
  <2>3. chats' = chats /\ journal' = IF keeps THEN journal
                                     ELSE [journal EXCEPT ![r] = Entered(@, "text", "fresh", text)]
    BY DEF Say, Emitted
  <2>4. QED
    BY <2>1, <2>2, <2>3
<1>3. /\ acting' = [acting EXCEPT ![r] = a]
      /\ viewer' = viewer /\ doomed' = doomed /\ minds' = minds
  <2>1. acting' = [acting EXCEPT ![r].said = @ \cup {text}, ![r].buffer = IF keeps THEN Append(@, text) ELSE @]
    BY DEF Say, Emitted
  <2>2. old \in QueryRecord /\ acting \in Seq(QueryRecord) /\ r \in 1 .. Len(acting)
    BY RunFacts
  <2>3. QED
    BY <2>1, <2>2 DEF Say
<1>4. old.buffer \in Seq(Nat) /\ old.said \in SUBSET Nat
  BY <1>1 DEF QueryRecord
<1>5. /\ a \in QueryRecord /\ a.query = old.query /\ a.past = old.past /\ a.from = old.from
      /\ a.buffer = buffer /\ a.said = old.said \cup {text}
  <2>1. buffer \in Seq(Nat) /\ old.said \cup {text} \in SUBSET Nat
    BY <1>4
  <2> HIDE DEF buffer, old
  <2>2. QED
    BY <1>1, <2>1 DEF QueryRecord
<1> HIDE DEF a
<1>6. Answers(a, evs) /\ Extends(journal[r], evs)
  <2>1. CASE keeps
    <3>1. Answers(a, journal[r])
      BY <1>1, <1>4, <1>5, <2>1, HoldAnswers
    <3>2. QED
      BY <1>1, <2>1, <3>1, ExtendsSelf
  <2>2. CASE ~ keeps
    <3>1. Answers(a, Entered(journal[r], "text", "fresh", text))
          /\ Extends(journal[r], Entered(journal[r], "text", "fresh", text))
      <4>1. old.query = "fresh" /\ a.buffer = old.buffer
        BY <1>1, <1>5, <2>2
      <4> HIDE DEF old, buffer, keeps
      <4>2. QED
        BY <1>1, <1>5, <4>1, SayAnswers
    <3>2. QED
      BY <2>2, <3>1
  <2>3. QED
    BY <2>1, <2>2
<1> HIDE DEF evs
<1>7. QueryOK(c, a) /\ (Unheard(c, a) => Unheard(c, old))
  BY <1>1, <1>5 DEF QueryOK, Unheard
<1> HIDE DEF c, old
<1>8. RunMoves(r, c, a, evs)
  BY <1>1, <1>2, <1>3, <1>5, <1>6, <1>7 DEF RunMoves, c, old
<1>9. QED
  BY <1>8

LEMMA ToolFailsMoves ==
    ASSUME TalkInv, NEW r \in Numbers, ToolFails(r)
    PROVE  \E c, a, evs : RunMoves(r, c, a, evs)
<1> DEFINE c == chats[r]
           a == acting[r]
           evs == Noted(journal[r], "tool_result")
<1>1. /\ c \in ChatRecord /\ a \in QueryRecord /\ chats \in Seq(ChatRecord)
      /\ acting \in Seq(QueryRecord) /\ r \in 1 .. Len(acting)
      /\ Answers(a, journal[r]) /\ PastOK(chats, a.past, r) /\ QueryOK(c, a)
      /\ r \in 1 .. Len(chats) /\ c.status = "running"
  BY RunFacts DEF ToolFails, Querying
<1>2. chats' = [chats EXCEPT ![r] = c] /\ acting' = [acting EXCEPT ![r] = a]
  <2>1. chats = [chats EXCEPT ![r] = c]
    BY <1>1, SameExcept
  <2>2. acting = [acting EXCEPT ![r] = a]
    BY <1>1, SameExcept
  <2>3. QED
    BY <2>1, <2>2 DEF ToolFails
<1>3. /\ journal' = [journal EXCEPT ![r] = evs]
      /\ viewer' = viewer /\ doomed' = doomed /\ minds' = minds
  BY DEF ToolFails
<1>4. Answers(a, evs) /\ Extends(journal[r], evs)
  <2>1. "tool_result" \in EventKinds
    BY DEF EventKinds
  <2>2. QED
    BY <1>1, <2>1, NoteKeepsAnswers
<1> HIDE DEF evs, c, a
<1>5. RunMoves(r, c, a, evs)
  BY <1>1, <1>2, <1>3, <1>4 DEF RunMoves, c, a
<1>6. QED
  BY <1>5

-----------------------------------------------------------------------------
(* New runs.                                                               *)

\* The events of a new run.
LEMMA FirstNote == Answers(NoQuery, Noted(<<>>, "run.queued"))
<1>1. Numbered(<<>>) /\ TextsAt(<<>>) = {}
  BY DEF Numbered, TextsAt
<1>2. Answers(NoQuery, <<>>)
  BY <1>1 DEF Answers, NoQuery, OneVoice
<1>3. "run.queued" \in EventKinds /\ "run.queued" # "text"
  BY DEF EventKinds
<1>4. QED
  BY <1>2, <1>3, NoteKeepsAnswers

\* What a new run adds.
AddsRow(prev, asked, row) ==
    /\ row \in ChatRecord /\ row.prev = prev /\ row.asked = asked /\ row.status = "queued"
    /\ Len(chats) < MaxRuns
    /\ chats' = Append(chats, row)
    /\ journal' = Append(journal, Noted(<<>>, "run.queued"))
    /\ acting' = Append(acting, NoQuery)
    /\ minds' = minds /\ viewer' = viewer /\ doomed' = doomed

\* That is what creating a run adds.
LEMMA NewRunAdds ==
    ASSUME TalkInv, NEW prev \in Nat, NEW asked \in Nat, NewRun(prev, asked)
    PROVE  \E row : AddsRow(prev, asked, row)
<1>1. PICK second \in Seconds, size \in Sizes :
         LET at == IF chats = <<>> THEN 1 ELSE chats[Len(chats)].at + second
         IN  /\ Len(chats) < MaxRuns
             /\ chats' = Append(chats, [prev |-> prev, at |-> at, size |-> size,
                                        status |-> "queued", session |-> 0, asked |-> asked])
             /\ journal' = Append(journal, Noted(<<>>, "run.queued"))
             /\ acting' = Append(acting, NoQuery)
             /\ UNCHANGED <<minds, viewer, doomed>>
  BY Zenon DEF NewRun
<1> DEFINE at == IF chats = <<>> THEN 1 ELSE chats[Len(chats)].at + second
           row == [prev |-> prev, at |-> at, size |-> size,
                   status |-> "queued", session |-> 0, asked |-> asked]
<1>2. at \in Nat
  <2>1. CASE chats # <<>>
    <3>1. chats \in Seq(ChatRecord)
      BY DEF TalkInv, TalkTyped
    <3>2. chats[Len(chats)] \in ChatRecord
      BY <2>1, <3>1
    <3>3. chats[Len(chats)].at \in Nat /\ second \in Nat
      BY <3>2, ConversationsAssumption DEF ChatRecord
    <3>4. QED
      BY <2>1, <3>3
  <2>2. QED
    BY <2>1
<1>3. /\ Len(chats) < MaxRuns
      /\ chats' = Append(chats, row)
      /\ journal' = Append(journal, Noted(<<>>, "run.queued"))
      /\ acting' = Append(acting, NoQuery)
      /\ minds' = minds /\ viewer' = viewer /\ doomed' = doomed
  BY <1>1
<1> HIDE DEF at
<1>4. /\ row \in ChatRecord /\ row.prev = prev /\ row.asked = asked /\ row.status = "queued"
  <2>1. "queued" \in ChatStatuses /\ 0 \in 0 .. MaxRuns
    BY ConversationsAssumption DEF ChatStatuses
  <2>2. QED
    BY <1>2, <2>1 DEF ChatRecord
<1> HIDE DEF row
<1>5. AddsRow(prev, asked, row)
  BY <1>3, <1>4 DEF AddsRow
<1>6. QED
  BY <1>5

LEMMA NoQueryIs ==
    /\ NoQuery \in QueryRecord /\ NoQuery.buffer = <<>> /\ NoQuery.past = <<>>
    /\ NoQuery.query = "none" /\ NoQuery.said = {}
<1>1. <<>> \in Seq(Nat) /\ "none" \in QueryKinds /\ 0 \in 0 .. MaxRuns
  BY ConversationsAssumption DEF QueryKinds
<1>2. QED
  BY <1>1 DEF NoQuery, QueryRecord

\* What there is then.
LEMMA AddsFrame ==
    ASSUME TalkTyped, NEW prev \in 0 .. Len(chats), NEW asked \in 0 .. Len(chats),
           NEW row, AddsRow(prev, asked, row)
    PROVE  LET n == Len(chats)
           IN  /\ n \in Nat /\ Numbers = 1 .. n
               /\ chats' \in Seq(ChatRecord) /\ Len(chats') = n + 1
               /\ acting' \in Seq(QueryRecord) /\ Len(acting') = n + 1
               /\ journal' \in Seq(Seq(ChatEvent)) /\ Len(journal') = n + 1
               /\ chats'[n + 1] = row /\ acting'[n + 1] = NoQuery
               /\ journal'[n + 1] = Noted(<<>>, "run.queued")
               /\ \A q \in Numbers : /\ chats'[q] = chats[q] /\ acting'[q] = acting[q]
                                     /\ journal'[q] = journal[q]
               /\ Numbers' = Numbers \cup {n + 1} /\ ChatRows' = ChatRows \cup {n + 1}
               /\ n + 1 \notin Numbers
<1> DEFINE n == Len(chats)
<1>1. /\ chats \in Seq(ChatRecord) /\ acting \in Seq(QueryRecord) /\ journal \in Seq(Seq(ChatEvent))
      /\ Len(acting) = n /\ Len(journal) = n /\ n \in Nat
  BY DEF TalkTyped
<1>2. /\ row \in ChatRecord /\ NoQuery \in QueryRecord
      /\ Noted(<<>>, "run.queued") \in Seq(ChatEvent)
  <2>1. NoQuery \in QueryRecord
    BY NoQueryIs
  <2>2. Noted(<<>>, "run.queued") \in Seq(ChatEvent)
    BY FirstNote DEF Answers, Numbered
  <2>3. QED
    BY <2>1, <2>2 DEF AddsRow
<1>3. /\ chats' \in Seq(ChatRecord) /\ Len(chats') = n + 1 /\ chats'[n + 1] = row
      /\ \A q \in 1 .. n : chats'[q] = chats[q]
  BY <1>1, <1>2, AppendIs DEF AddsRow
<1>4. /\ acting' \in Seq(QueryRecord) /\ Len(acting') = n + 1 /\ acting'[n + 1] = NoQuery
      /\ \A q \in 1 .. n : acting'[q] = acting[q]
  BY <1>1, <1>2, AppendIs DEF AddsRow
<1>5. /\ journal' \in Seq(Seq(ChatEvent)) /\ Len(journal') = n + 1
      /\ journal'[n + 1] = Noted(<<>>, "run.queued")
      /\ \A q \in 1 .. n : journal'[q] = journal[q]
  BY <1>1, <1>2, AppendIs DEF AddsRow
<1>6. Numbers = 1 .. n
  BY DEF Numbers
<1>7. Numbers' = Numbers \cup {n + 1} /\ n + 1 \notin Numbers
  <2>1. Numbers' = 1 .. n + 1
    BY <1>3 DEF Numbers
  <2> HIDE DEF n
  <2>2. QED
    BY <1>1, <1>6, <2>1
<1> HIDE DEF n
<1>8. ChatRows' = ChatRows \cup {n + 1}
  <2>1. row.status # "deleted"
    BY DEF AddsRow
  <2>2. ChatRows' = {r \in Numbers' : chats'[r].status # "deleted"}
    BY DEF ChatRows
  <2>3. \A q \in Numbers : chats'[q] = chats[q]
    BY <1>3, <1>6
  <2>4. QED
    BY <1>3, <1>7, <2>1, <2>2, <2>3 DEF ChatRows
<1>9. QED
  BY <1>1, <1>3, <1>4, <1>5, <1>6, <1>7, <1>8 DEF n

\* It keeps the invariant, if a conversation was asked for that is there.
LEMMA AddsKeeps ==
    ASSUME TalkInv, NEW prev \in 0 .. Len(chats), NEW asked \in 0 .. Len(chats),
           NEW row, AddsRow(prev, asked, row),
           asked # 0 => /\ doomed = {} /\ prev \in ChatRows /\ asked \in ChatRows
                        /\ Beginning(ChatRows, prev) = Beginning(ChatRows, asked)
    PROVE  TalkInv'
<1> DEFINE n == Len(chats)
           new == n + 1
<1>1. TalkTyped
  BY DEF TalkInv
<1>2. /\ n \in Nat /\ Numbers = 1 .. n
      /\ chats' \in Seq(ChatRecord) /\ Len(chats') = new
      /\ acting' \in Seq(QueryRecord) /\ Len(acting') = new
      /\ journal' \in Seq(Seq(ChatEvent)) /\ Len(journal') = new
      /\ chats'[new] = row /\ acting'[new] = NoQuery
      /\ journal'[new] = Noted(<<>>, "run.queued")
      /\ \A q \in Numbers : /\ chats'[q] = chats[q] /\ acting'[q] = acting[q]
                            /\ journal'[q] = journal[q]
      /\ Numbers' = Numbers \cup {new} /\ ChatRows' = ChatRows \cup {new}
      /\ new \notin Numbers
  BY <1>1, AddsFrame
<1>3. /\ row.prev = prev /\ row.asked = asked /\ row.status = "queued" /\ n < MaxRuns
      /\ minds' = minds /\ viewer' = viewer /\ doomed' = doomed
  BY DEF AddsRow
<1>4. ChatRows \subseteq Numbers /\ MaxRuns \in Nat
  BY ConversationsAssumption DEF ChatRows
<1>5. new \in Nat /\ prev < new /\ asked < new /\ new <= MaxRuns
  BY <1>2, <1>3, <1>4
<1> HIDE DEF new
<1>6. TalkTyped'
  <2>1. \A r \in Numbers' : chats'[r].prev < r /\ chats'[r].asked < r
    BY <1>1, <1>2, <1>3, <1>5 DEF TalkTyped
  <2>2. viewer.run \in 0 .. Len(chats')
    <3>1. viewer.run \in 0 .. n
      BY <1>1 DEF TalkTyped
    <3> HIDE DEF n
    <3>2. QED
      BY <1>2, <3>1 DEF new
  <2>3. doomed \subseteq ChatRows'
    BY <1>1, <1>2 DEF TalkTyped
  <2>4. minds \in [1 .. MaxRuns -> Seq(Nat)]
    BY <1>1 DEF TalkTyped
  <2>5. viewer = [run |-> viewer.run, phase |-> viewer.phase, last |-> viewer.last,
                  queue |-> viewer.queue, sent |-> viewer.sent]
    BY <1>1 DEF TalkTyped
  <2>6. QED
    BY <1>2, <1>3, <1>5, <2>1, <2>2, <2>3, <2>4, <2>5 DEF TalkTyped
<1>7. \A q \in Numbers' : QueryOK(chats'[q], acting'[q]) /\ Answers(acting'[q], journal'[q])
  <2>1. QueryOK(row, NoQuery)
    BY DEF QueryOK, NoQuery
  <2>2. \A q \in Numbers : QueryOK(chats[q], acting[q]) /\ Answers(acting[q], journal[q])
    BY DEF TalkInv
  <2>3. QED
    BY <1>2, <2>1, <2>2, FirstNote
<1>8. \A q \in Numbers' : PastOK(chats', acting'[q].past, q)
  <2>1. PastOK(chats', NoQuery.past, new)
    BY DEF NoQuery, PastOK
  <2>2. ASSUME NEW q \in Numbers
        PROVE  PastOK(chats', acting[q].past, q)
    <3>1. /\ q \in Nat /\ q # 0 /\ acting[q].past \in Seq(Nat) /\ PastOK(chats, acting[q].past, q)
      <4>1. q \in Nat /\ acting[q] \in QueryRecord /\ PastOK(chats, acting[q].past, q)
        BY RunFacts
      <4>2. QED
        BY <1>2, <4>1 DEF QueryRecord
    <3>2. \A i \in 1 .. q : chats'[i] = chats[i] /\ \A j \in 1 .. q - 1 : chats'[j] = chats[j]
      <4>1. \A i \in 1 .. q : i \in Numbers /\ \A j \in 1 .. q - 1 : j \in Numbers
        <5> HIDE DEF n
        <5>1. QED
          BY <1>2
      <4>2. QED
        BY <1>2, <4>1
    <3>3. \A j \in 1 .. q - 1 : j \in 1 .. q
      BY <3>1
    <3>4. /\ \A i \in 1 .. q : chats'[i].prev = chats[i].prev
          /\ \A i \in 1 .. q - 1 : chats[i].status \notin {"queued", "running"} =>
                                      chats'[i].status \notin {"queued", "running"}
      BY <3>2, <3>3
    <3>5. QED
      BY <3>1, <3>4, PastStays
  <2>3. QED
    BY <1>2, <2>1, <2>2
<1>9. MindsOK'
  <2>1. MindsOK
    BY DEF TalkInv
  <2>2. QED
    BY <1>2, <1>3, <2>1 DEF MindsOK
<1>10. Viewing'
  <2>1. Viewing /\ viewer.run # new
    <3>1. viewer.run \in 0 .. n
      BY <1>1 DEF TalkTyped
    <3> HIDE DEF n
    <3>2. viewer.run # new
      BY <1>2, <3>1 DEF new
    <3>3. QED
      BY <3>2 DEF TalkInv
  <2>2. \A q \in ChatRows : journal'[q] = journal[q]
    BY <1>2, <1>4
  <2>3. QED
    BY <1>2, <1>3, <2>1, <2>2 DEF Viewing
<1>11. Continuing'
  <2>1. InOrder(chats, n, ChatRows) /\ doomed \subseteq ChatRows
    BY <1>1, RowsInOrder DEF TalkTyped
  <2>2. ContinuingOf(chats, ChatRows, doomed)
    BY ContinuingIs DEF TalkInv
  <2>3. InOrder(chats', new, ChatRows \cup {new})
    <3>1. \A q \in Numbers : chats'[q].prev \in 0 .. q - 1
      BY <1>2, <2>1 DEF InOrder
    <3>2. \A q \in 1 .. new : q \in Numbers \/ q = new
      <4> HIDE DEF n
      <4>1. QED
        BY <1>2 DEF new
    <3>3. row.prev \in 0 .. new - 1
      <4> HIDE DEF n
      <4>1. prev \in 0 .. n
        BY DEF n
      <4>2. QED
        BY <1>2, <1>3, <4>1 DEF new
    <3>4. ChatRows \cup {new} \subseteq 1 .. new
      <4> HIDE DEF n
      <4>1. Numbers \subseteq 1 .. new /\ new \in 1 .. new
        BY <1>2 DEF new
      <4>2. QED
        BY <1>4, <4>1
    <3>5. QED
      BY <1>2, <1>5, <3>1, <3>2, <3>3, <3>4 DEF InOrder
  <2>4. \A r \in ChatRows : /\ chats'[r].prev = chats[r].prev
                            /\ chats'[r].asked = chats[r].asked /\ chats[r].asked < r
    BY <1>1, <1>2, <1>4 DEF TalkTyped
  <2>5. chats'[new].asked # 0 =>
           /\ doomed = {} /\ chats'[new].prev \in ChatRows /\ chats'[new].asked \in ChatRows
           /\ BeginOf(chats, ChatRows, chats'[new].prev) = BeginOf(chats, ChatRows, chats'[new].asked)
    BY <1>2, <1>3, LineOfChats DEF Beginning, BeginOf
  <2>6. ContinuingOf(chats', ChatRows \cup {new}, doomed)
    <3> HIDE DEF n
    <3>1. QED
      BY <2>1, <2>2, <2>3, <2>4, <2>5, NewRunContinues DEF new
  <2>7. QED
    BY <1>2, <1>3, <2>6, ContinuingIsNext
<1>12. QED
  BY <1>6, <1>7, <1>8, <1>9, <1>10, <1>11 DEF TalkInv

LEMMA CreateKeeps ==
    ASSUME TalkInv, NEW prev \in 0 .. Len(chats), CreateAfter(prev)
    PROVE  TalkInv'
<1>1. Len(chats) \in Nat
  BY DEF TalkInv, TalkTyped
<1>2. prev \in Nat /\ 0 \in 0 .. Len(chats)
  BY <1>1
<1>3. PICK row : AddsRow(prev, 0, row)
  BY <1>2, NewRunAdds DEF CreateAfter
<1>4. QED
  BY <1>2, <1>3, AddsKeeps

\* The newest of a part of a conversation belongs to it.
LEMMA LatestIsOf ==
    ASSUME TalkTyped, NEW listed \in SUBSET ChatRows, NEW s, NEW prev \in Latest(listed, s)
    PROVE  /\ s \in ChatRows /\ prev \in ChatRows
           /\ Beginning(ChatRows, prev) = Beginning(ChatRows, s)
<1>1. prev \in Conversation(listed, s)
  BY DEF Latest
<1>2. s \in listed /\ prev \in listed /\ Beginning(listed, prev) = Beginning(listed, s)
  BY <1>1 DEF Conversation
<1>3. InOrder(chats, Len(chats), ChatRows)
  BY RowsInOrder
<1>4. \A q : Beginning(listed, q) = BeginOf(chats, listed, q)
             /\ Beginning(ChatRows, q) = BeginOf(chats, ChatRows, q)
  BY LineOfChats DEF Beginning, BeginOf
<1>5. \A r \in listed : BeginOf(chats, ChatRows, r) =
                           BeginOf(chats, ChatRows, BeginOf(chats, listed, r))
  BY <1>3, BeginFurther
<1>6. BeginOf(chats, ChatRows, prev) = BeginOf(chats, ChatRows, s)
  BY <1>2, <1>4, <1>5
<1>7. QED
  BY <1>2, <1>4, <1>6

LEMMA TriggerKeeps ==
    ASSUME TalkInv, NEW s \in Numbers, Trigger(s)
    PROVE  TalkInv'
<1>1. TalkTyped /\ Len(chats) \in Nat /\ Numbers = 1 .. Len(chats) /\ ChatRows \subseteq Numbers
  BY DEF TalkInv, TalkTyped, Numbers, ChatRows
<1>2. 0 \in 0 .. Len(chats) /\ Numbers \subseteq 0 .. Len(chats) /\ 0 .. Len(chats) \subseteq Nat
  BY <1>1
<1>3. PICK listed \in Newest(TriggerLimit) :
         \/ \E prev \in Latest(listed, s) : NewRun(prev, IF doomed = {} THEN s ELSE 0)
         \/ Latest(listed, s) = {} /\ NewRun(0, 0)
  BY DEF Trigger
<1>4. listed \in SUBSET ChatRows
  BY DEF Newest
<1>5. CASE \E prev \in Latest(listed, s) : NewRun(prev, IF doomed = {} THEN s ELSE 0)
  <2> DEFINE asked == IF doomed = {} THEN s ELSE 0
  <2>1. PICK prev \in Latest(listed, s) : NewRun(prev, asked)
    BY <1>5
  <2>2. /\ s \in ChatRows /\ prev \in ChatRows
        /\ Beginning(ChatRows, prev) = Beginning(ChatRows, s)
    BY <1>1, <1>4, LatestIsOf
  <2>3. prev \in 0 .. Len(chats) /\ asked \in 0 .. Len(chats) /\ prev \in Nat /\ asked \in Nat
    BY <1>1, <1>2, <2>2
  <2>4. asked # 0 => doomed = {} /\ asked = s
    OBVIOUS
  <2> HIDE DEF asked
  <2>5. PICK row : AddsRow(prev, asked, row)
    BY <2>1, <2>3, NewRunAdds
  <2>6. QED
    BY <2>2, <2>3, <2>4, <2>5, AddsKeeps
<1>6. CASE NewRun(0, 0)
  <2>1. PICK row : AddsRow(0, 0, row)
    BY <1>2, <1>6, NewRunAdds
  <2>2. QED
    BY <1>2, <2>1, AddsKeeps
<1>7. QED
  BY <1>3, <1>5, <1>6

-----------------------------------------------------------------------------
(* Deletion.                                                               *)

LEMMA StartDeleteKeeps ==
    ASSUME TalkInv, NEW s \in Numbers, StartDelete(s)
    PROVE  TalkInv'
<1>1. /\ TalkTyped /\ Continuing /\ doomed = {}
      /\ chats' = chats /\ journal' = journal /\ acting' = acting /\ minds' = minds
      /\ viewer' = viewer /\ doomed' = Conversation(ChatRows, s) /\ doomed' # {}
  BY DEF StartDelete, TalkInv
<1>2. Numbers' = Numbers /\ ChatRows' = ChatRows
  BY <1>1 DEF Numbers, ChatRows
<1>3. /\ s \in ChatRows
      /\ doomed' = {r \in ChatRows : BeginOf(chats, ChatRows, r) = BeginOf(chats, ChatRows, s)}
  <2>1. s \in ChatRows
    BY <1>1 DEF Conversation
  <2>2. \A q : Beginning(ChatRows, q) = BeginOf(chats, ChatRows, q)
    BY LineOfChats DEF Beginning, BeginOf
  <2>3. QED
    BY <1>1, <2>1, <2>2 DEF Conversation
<1>4. TalkTyped'
  <2>1. doomed' \subseteq ChatRows
    BY <1>3
  <2>2. QED
    BY <1>1, <1>2, <2>1 DEF TalkTyped
<1>5. Continuing'
  <2>1. InOrder(chats, Len(chats), ChatRows) /\ ContinuingOf(chats, ChatRows, {})
    BY <1>1, RowsInOrder, ContinuingIs
  <2>2. ContinuingOf(chats, ChatRows, doomed')
    BY <1>3, <2>1, StartDeleteContinues
  <2>3. QED
    BY <1>1, <1>2, <2>2, ContinuingIsNext
<1>6. /\ \A r \in Numbers' : /\ QueryOK(chats'[r], acting'[r]) /\ Answers(acting'[r], journal'[r])
                             /\ PastOK(chats', acting'[r].past, r)
      /\ MindsOK' /\ Viewing'
  BY <1>1, <1>2 DEF TalkInv, MindsOK, Viewing
<1>7. QED
  BY <1>4, <1>5, <1>6 DEF TalkInv

\* A log that is emptied.
LEMMA NothingAnswers ==
    ASSUME NEW a, NEW evs, Answers(a, evs)
    PROVE  Answers(a, <<>>)
<1>1. Numbered(<<>>) /\ TextsAt(<<>>) = {}
  BY DEF Numbered, TextsAt
<1>2. QED
  BY <1>1 DEF Answers, OneVoice

\* What a deletion leaves.
LEMMA FinishDeleteFrame ==
    ASSUME TalkTyped, FinishDelete
    PROVE  /\ chats' \in Seq(ChatRecord) /\ Len(chats') = Len(chats)
           /\ journal' \in Seq(Seq(ChatEvent)) /\ Len(journal') = Len(chats)
           /\ \A r \in Numbers :
                 /\ chats'[r].prev = chats[r].prev /\ chats'[r].asked = chats[r].asked
                 /\ chats'[r].status = IF r \in doomed THEN "deleted" ELSE chats[r].status
                 /\ journal'[r] = IF r \in doomed THEN <<>> ELSE journal[r]
           /\ Numbers' = Numbers /\ ChatRows' = ChatRows \ doomed
<1> DEFINE n == Len(chats)
<1>1. /\ chats \in Seq(ChatRecord) /\ journal \in Seq(Seq(ChatEvent)) /\ Len(journal) = n
      /\ n \in Nat /\ Numbers = 1 .. n
  BY DEF TalkTyped, Numbers
<1>2. \A r \in Numbers : chats[r] \in ChatRecord /\ journal[r] \in Seq(ChatEvent)
  BY <1>1
<1>3. chats' = [r \in Numbers |-> IF r \in doomed THEN [chats[r] EXCEPT !.status = "deleted"]
                                  ELSE chats[r]]
  BY DEF FinishDelete
<1>4. journal' = [r \in Numbers |-> IF r \in doomed THEN <<>> ELSE journal[r]]
  BY DEF FinishDelete
<1>5. "deleted" \in ChatStatuses /\ <<>> \in Seq(ChatEvent)
  BY DEF ChatStatuses
<1>6. \A r \in Numbers : LET row == [chats[r] EXCEPT !.status = "deleted"]
                         IN  /\ row \in ChatRecord /\ row.prev = chats[r].prev
                             /\ row.asked = chats[r].asked /\ row.status = "deleted"
  BY <1>2, <1>5, RowChanges
<1>7. \A r \in Numbers : /\ chats'[r] \in ChatRecord
                         /\ chats'[r].prev = chats[r].prev /\ chats'[r].asked = chats[r].asked
                         /\ chats'[r].status = IF r \in doomed THEN "deleted" ELSE chats[r].status
  BY <1>2, <1>3, <1>6
<1> HIDE DEF n
<1>8. chats' \in Seq(ChatRecord) /\ Len(chats') = n
  <2>1. chats' \in [1 .. n -> ChatRecord]
    BY <1>1, <1>3, <1>7
  <2>2. QED
    BY <1>1, <2>1
<1>9. journal' \in Seq(Seq(ChatEvent)) /\ Len(journal') = n
  <2>1. journal' \in [1 .. n -> Seq(ChatEvent)]
    BY <1>1, <1>2, <1>4, <1>5
  <2>2. QED
    BY <1>1, <2>1
<1>10. Numbers' = Numbers
  BY <1>1, <1>8 DEF Numbers, n
<1>11. ChatRows' = ChatRows \ doomed
  BY <1>7, <1>10 DEF ChatRows
<1>12. \A r \in Numbers : journal'[r] = IF r \in doomed THEN <<>> ELSE journal[r]
  BY <1>4
<1>13. QED
  BY <1>7, <1>8, <1>9, <1>10, <1>11, <1>12 DEF n

LEMMA FinishDeleteKeeps ==
    ASSUME TalkInv, FinishDelete
    PROVE  TalkInv'
<1>1. /\ TalkTyped /\ doomed \subseteq ChatRows /\ ChatRows \subseteq Numbers
      /\ acting' = acting /\ minds' = minds /\ viewer' = viewer /\ doomed' = {}
  BY DEF TalkInv, TalkTyped, FinishDelete, ChatRows
<1>2. /\ chats' \in Seq(ChatRecord) /\ Len(chats') = Len(chats)
      /\ journal' \in Seq(Seq(ChatEvent)) /\ Len(journal') = Len(chats)
      /\ \A r \in Numbers :
            /\ chats'[r].prev = chats[r].prev /\ chats'[r].asked = chats[r].asked
            /\ chats'[r].status = IF r \in doomed THEN "deleted" ELSE chats[r].status
            /\ journal'[r] = IF r \in doomed THEN <<>> ELSE journal[r]
      /\ Numbers' = Numbers /\ ChatRows' = ChatRows \ doomed
  BY <1>1, FinishDeleteFrame
<1>3. TalkTyped'
  BY <1>1, <1>2 DEF TalkTyped
<1>4. ASSUME NEW r \in Numbers
      PROVE  /\ QueryOK(chats'[r], acting[r]) /\ Answers(acting[r], journal'[r])
             /\ PastOK(chats', acting[r].past, r)
  <2>1. /\ r \in Nat /\ QueryOK(chats[r], acting[r]) /\ Answers(acting[r], journal[r])
        /\ PastOK(chats, acting[r].past, r) /\ acting[r] \in QueryRecord
    BY RunFacts
  <2>2. QueryOK(chats'[r], acting[r])
    BY <1>2, <2>1 DEF QueryOK
  <2>3. Answers(acting[r], journal'[r])
    BY <1>2, <2>1, NothingAnswers
  <2>4. \A i \in 1 .. r : i \in Numbers /\ \A j \in 1 .. r - 1 : j \in Numbers
    <3>1. Len(chats) \in Nat /\ r \in 1 .. Len(chats)
      BY <1>1 DEF TalkTyped, Numbers
    <3>2. QED
      BY <3>1 DEF Numbers
  <2>5. r \in 1 .. r /\ r # 0
    BY <2>1 DEF Numbers
  <2>6. acting[r].past \in Seq(Nat)
    BY <2>1 DEF QueryRecord
  <2>7. PastOK(chats', acting[r].past, r)
    <3>1. \A i \in 1 .. r : chats'[i].prev = chats[i].prev
      BY <1>2, <2>4
    <3>2. \A i \in 1 .. r - 1 : chats[i].status \notin {"queued", "running"} =>
                                   chats'[i].status \notin {"queued", "running"}
      BY <1>2, <2>4, <2>5
    <3>3. QED
      BY <2>1, <2>5, <2>6, <3>1, <3>2, PastStays
  <2>8. QED
    BY <2>2, <2>3, <2>7
<1>5. MindsOK'
  <2>1. MindsOK
    BY DEF TalkInv
  <2>2. \A q \in Numbers : Unheard(chats'[q], acting[q]) => Unheard(chats[q], acting[q])
    BY <1>2 DEF Unheard
  <2>3. QED
    BY <1>1, <1>2, <2>1, <2>2 DEF MindsOK
<1>6. Viewing'
  <2>1. Viewing
    BY DEF TalkInv
  <2>2. QED
    BY <1>1, <1>2, <2>1 DEF Viewing
<1>7. Continuing'
  <2>1. InOrder(chats, Len(chats), ChatRows) /\ ContinuingOf(chats, ChatRows, doomed)
    BY <1>1, RowsInOrder, ContinuingIs DEF TalkInv
  <2>2. InOrder(chats', Len(chats), ChatRows \ doomed)
    BY <1>2, <2>1 DEF InOrder, Numbers
  <2>3. \A r \in ChatRows \ doomed : /\ chats'[r].prev = chats[r].prev
                                     /\ chats'[r].asked = chats[r].asked
    BY <1>1, <1>2
  <2>4. ContinuingOf(chats', ChatRows \ doomed, {})
    BY <1>1, <2>1, <2>2, <2>3, FinishDeleteContinues
  <2>5. QED
    BY <1>1, <1>2, <2>4, ContinuingIsNext
<1>8. QED
  BY <1>1, <1>2, <1>3, <1>4, <1>5, <1>6, <1>7 DEF TalkInv

-----------------------------------------------------------------------------
(* A client's stream.                                                      *)

ViewOf(run, phase, last, queue, sent) ==
    [run |-> run, phase |-> phase, last |-> last, queue |-> queue, sent |-> sent]

\* A step of the stream keeps all the rest.
LEMMA ViewKeeps ==
    ASSUME TalkInv,
           chats' = chats, journal' = journal, acting' = acting, minds' = minds, doomed' = doomed,
           NEW run \in 0 .. Len(chats), NEW phase, NEW last, NEW queue, NEW sent,
           viewer' = ViewOf(run, phase, last, queue, sent),
           run \in ChatRows => IsShown(ViewOf(run, phase, last, queue, sent), journal[run]),
           run = 0 => sent = <<>> /\ queue = <<>> /\ last = 0
    PROVE  TalkInv'
<1>1. Numbers' = Numbers /\ ChatRows' = ChatRows
  BY DEF Numbers, ChatRows
<1>2. /\ viewer'.run = run /\ viewer'.sent = sent /\ viewer'.queue = queue /\ viewer'.last = last
      /\ viewer' = [run |-> viewer'.run, phase |-> viewer'.phase, last |-> viewer'.last,
                    queue |-> viewer'.queue, sent |-> viewer'.sent]
  BY DEF ViewOf
<1>3. TalkTyped'
  BY <1>1, <1>2 DEF TalkInv, TalkTyped
<1>4. Viewing'
  <2>1. viewer'.run \in ChatRows => IsShown(viewer', journal[viewer'.run])
    BY <1>2
  <2>2. QED
    BY <1>1, <1>2, <2>1 DEF Viewing
<1>5. Continuing'
  BY <1>1, ContinuingIs, ContinuingIsNext DEF TalkInv
<1>6. /\ \A r \in Numbers' : /\ QueryOK(chats'[r], acting'[r]) /\ Answers(acting'[r], journal'[r])
                             /\ PastOK(chats', acting'[r].past, r)
      /\ MindsOK'
  BY <1>1 DEF TalkInv, MindsOK
<1>7. QED
  BY <1>3, <1>4, <1>5, <1>6 DEF TalkInv

\* What the invariant says of the stream.
LEMMA ViewFacts ==
    ASSUME TalkInv
    PROVE  /\ viewer = ViewOf(viewer.run, viewer.phase, viewer.last, viewer.queue, viewer.sent)
           /\ viewer.run \in 0 .. Len(chats)
           /\ viewer.run \in ChatRows => /\ IsShown(viewer, journal[viewer.run])
                                         /\ Numbered(journal[viewer.run])
           /\ viewer.run = 0 => viewer.sent = <<>> /\ viewer.queue = <<>> /\ viewer.last = 0
<1>1. viewer.run \in ChatRows => Numbered(journal[viewer.run])
  BY RunFacts DEF ChatRows
<1>2. QED
  BY <1>1 DEF TalkInv, TalkTyped, Viewing, ViewOf

LEMMA WatchKeeps ==
    ASSUME TalkInv, NEW r \in Numbers, Watch(r)
    PROVE  TalkInv'
<1> DEFINE new == ViewOf(r, viewer.phase, viewer.last, viewer.queue, viewer.sent)
<1>1. /\ viewer.run = 0 /\ r \in 0 .. Len(chats) /\ r # 0
      /\ chats' = chats /\ journal' = journal /\ acting' = acting /\ minds' = minds
      /\ doomed' = doomed
  BY DEF Watch, Numbers
<1>2. viewer' = new
  BY ViewFacts DEF Watch, ViewOf
<1>3. viewer.sent = <<>> /\ viewer.queue = <<>> /\ viewer.last = 0
  BY <1>1, ViewFacts
<1>4. IsShown(new, journal[r])
  <2>1. Len(journal[r]) \in Nat
    BY RunFacts DEF Numbered
  <2>2. new.sent = <<>> /\ new.queue = <<>> /\ new.last = 0
    BY <1>3 DEF ViewOf
  <2> HIDE DEF new
  <2>3. QED
    BY <2>1, <2>2 DEF IsShown
<1>5. QED
  BY <1>1, <1>2, <1>4, ViewKeeps

\* What is listed of a log, the number of events it had sent being known.
LEMMA ListIs ==
    ASSUME NEW evs, Numbered(evs), NEW sent \in 0 .. Len(evs)
    PROVE  LET m == Min({EventLimit, Len(evs)})
               queue == Only(evs, {i \in 1 .. m : evs[i].seq > sent})
           IN  /\ queue \in Seq(ChatEvent) /\ sent + Len(queue) <= Len(evs)
               /\ \A i \in 1 .. Len(queue) : queue[i] = evs[sent + i]
<1> DEFINE n == Len(evs)
           m == Min({EventLimit, n})
           places == {i \in 1 .. m : evs[i].seq > sent}
           queue == Only(evs, places)
<1>1. /\ evs \in Seq(ChatEvent) /\ n \in Nat /\ sent \in Nat /\ sent <= n
      /\ \A i \in 1 .. n : evs[i].seq = i /\ evs[i] \in ChatEvent
  BY DEF Numbered
<1> HIDE DEF n
<1>2. m \in 0 .. n
  <2>1. EventLimit \in Nat
    BY ConversationsAssumption
  <2>2. \E x \in {EventLimit, n} : \A y \in {EventLimit, n} : x <= y
    BY <1>1, <2>1
  <2>3. m \in {EventLimit, n} /\ \A y \in {EventLimit, n} : m <= y
    BY <2>2, Zenon DEF Min
  <2> HIDE DEF m
  <2>4. QED
    BY <1>1, <2>1, <2>3
<1> HIDE DEF m
<1>3. places = {i \in 1 .. m : i > sent}
  <2>1. \A i \in 1 .. m : i \in 1 .. n
    BY <1>1, <1>2
  <2>2. QED
    BY <1>1, <2>1
<1>4. CASE sent <= m
  <2>1. places = sent + 1 .. m
    BY <1>1, <1>2, <1>3, <1>4
  <2>2. m \in Nat
    BY <1>1, <1>2
  <2>3. Only(evs, sent + 1 .. m) = [i \in 1 .. m - sent |-> evs[sent + i]]
    BY <1>1, <1>4, <2>2, OnlyInterval
  <2>4. m - sent \in Nat /\ \A i \in 1 .. m - sent : sent + i \in 1 .. n
    BY <1>1, <1>2, <1>4, <2>2
  <2> DEFINE k == m - sent
  <2>5. k \in Nat /\ (\A i \in 1 .. k : sent + i \in 1 .. n) /\ sent + k <= n
    BY <1>1, <1>2, <2>2, <2>4
  <2> HIDE DEF k, places
  <2>6. queue = [i \in 1 .. k |-> evs[sent + i]]
    BY <2>1, <2>3 DEF k
  <2>7. queue \in [1 .. k -> ChatEvent]
    BY <1>1, <2>5, <2>6
  <2>8. queue \in Seq(ChatEvent) /\ Len(queue) = k /\ \A i \in 1 .. k : queue[i] = evs[sent + i]
    <3>1. \A i \in 1 .. k : queue[i] = evs[sent + i]
      BY <2>6
    <3> HIDE DEF queue
    <3>2. QED
      BY <2>5, <2>7, <3>1
  <2> HIDE DEF queue
  <2>9. QED
    BY <2>5, <2>8 DEF queue, places, n, m
<1>5. CASE m < sent
  <2>1. places = 0 + 1 .. 0
    BY <1>1, <1>2, <1>3, <1>5
  <2>2. Only(evs, 0 + 1 .. 0) = [i \in 1 .. 0 - 0 |-> evs[0 + i]]
    <3>1. \A a, b \in Nat : a <= b => Only(evs, a + 1 .. b) = [i \in 1 .. b - a |-> evs[a + i]]
      BY OnlyInterval
    <3>2. 0 \in Nat /\ 0 <= 0
      OBVIOUS
    <3>3. QED
      BY <3>1, <3>2, Zenon
  <2>3. queue = <<>>
    <3>1. [i \in 1 .. 0 - 0 |-> evs[0 + i]] = <<>>
      OBVIOUS
    <3>2. QED
      BY <2>1, <2>2, <3>1
  <2> HIDE DEF queue, places
  <2>4. /\ queue \in Seq(ChatEvent) /\ sent + Len(queue) <= n
        /\ \A i \in 1 .. Len(queue) : queue[i] = evs[sent + i]
    BY <1>1, <2>3
  <2>5. QED
    BY <2>4 DEF queue, places, n, m
<1>6. sent <= m \/ m < sent
  BY <1>1, <1>2
<1>7. QED
  BY <1>4, <1>5, <1>6, Zenon

\* No more was sent than there is,
LEMMA ShownLength ==
    ASSUME NEW v, NEW evs, Numbered(evs), IsShown(v, evs)
    PROVE  Len(v.sent) \in 0 .. Len(evs)
<1> DEFINE m == Len(v.sent)
           k == Len(v.queue)
           n == Len(evs)
<1>1. v.sent \in Seq(ChatEvent) /\ v.queue \in Seq(ChatEvent) /\ m + k <= n
  BY DEF IsShown
<1>2. m \in Nat /\ k \in Nat /\ n \in Nat
  BY <1>1 DEF Numbered
<1> HIDE DEF m, k, n
<1>3. m \in 0 .. n
  BY <1>1, <1>2
<1>4. QED
  BY <1>3 DEF m, n

LEMMA ListKeeps ==
    ASSUME TalkInv, List
    PROVE  TalkInv'
<1> DEFINE evs == journal[viewer.run]
           m == Min({EventLimit, Len(evs)})
           queue == Only(evs, {i \in 1 .. m : evs[i].seq > viewer.last})
           new == ViewOf(viewer.run, "send", viewer.last, queue, viewer.sent)
<1>1. /\ viewer.run # 0 /\ viewer.run \in 0 .. Len(chats)
      /\ chats' = chats /\ journal' = journal /\ acting' = acting /\ minds' = minds
      /\ doomed' = doomed
  BY ViewFacts DEF List
<1>2. viewer' = new
  <2>1. viewer' = [viewer EXCEPT !.phase = "send", !.queue = queue]
    BY DEF List
  <2> HIDE DEF queue
  <2>2. QED
    BY <2>1, ViewFacts DEF ViewOf
<1>3. ASSUME viewer.run \in ChatRows
      PROVE  IsShown(new, evs)
  <2>1. IsShown(viewer, evs) /\ Numbered(evs)
    BY <1>3, ViewFacts
  <2> HIDE DEF evs
  <2>2. /\ viewer.sent \in Seq(ChatEvent) /\ viewer.last = Len(viewer.sent)
        /\ viewer.last \in 0 .. Len(evs)
        /\ \A i \in 1 .. Len(viewer.sent) : viewer.sent[i] = evs[i]
    <3>1. Len(viewer.sent) \in 0 .. Len(evs)
      BY <2>1, ShownLength
    <3>2. QED
      BY <2>1, <3>1 DEF IsShown
  <2>3. /\ queue \in Seq(ChatEvent) /\ viewer.last + Len(queue) <= Len(evs)
        /\ \A i \in 1 .. Len(queue) : queue[i] = evs[viewer.last + i]
    BY <2>1, <2>2, ListIs
  <2> HIDE DEF queue
  <2>4. new.sent = viewer.sent /\ new.queue = queue /\ new.last = viewer.last
    BY DEF ViewOf
  <2> HIDE DEF new
  <2>5. QED
    BY <2>2, <2>3, <2>4 DEF IsShown
<1> HIDE DEF queue, evs
<1>4. QED
  BY <1>1, <1>2, <1>3, ViewKeeps DEF evs

\* Sending moves the next event on.
LEMMA SentIs ==
    ASSUME NEW v, NEW evs, Numbered(evs), IsShown(v, evs), v.queue # <<>>,
           NEW w, w.queue = Tail(v.queue), w.last = Head(v.queue).seq,
           w.sent = Append(v.sent, Head(v.queue))
    PROVE  IsShown(w, evs)
<1> DEFINE m == Len(v.sent)
           k == Len(v.queue)
           n == Len(evs)
           e == Head(v.queue)
<1>1. /\ v.sent \in Seq(ChatEvent) /\ v.queue \in Seq(ChatEvent) /\ m + k <= n
      /\ \A i \in 1 .. m : v.sent[i] = evs[i]
      /\ \A i \in 1 .. k : v.queue[i] = evs[m + i]
  BY DEF IsShown
<1>2. m \in Nat /\ k \in Nat /\ k # 0 /\ n \in Nat
  BY <1>1 DEF Numbered
<1>3. e = v.queue[1] /\ e \in ChatEvent
  BY <1>1, <1>2
<1>4. /\ Tail(v.queue) \in Seq(ChatEvent) /\ Len(Tail(v.queue)) = k - 1
      /\ \A i \in 1 .. k - 1 : Tail(v.queue)[i] = v.queue[i + 1]
  BY <1>1, <1>2
<1>5. /\ Append(v.sent, e) \in Seq(ChatEvent) /\ Len(Append(v.sent, e)) = m + 1
      /\ Append(v.sent, e)[m + 1] = e
      /\ \A i \in 1 .. m : Append(v.sent, e)[i] = v.sent[i]
  BY <1>1, <1>3, AppendIs
<1>6. \A i \in 1 .. n : evs[i].seq = i
  BY DEF Numbered
<1>7. w.queue = Tail(v.queue) /\ w.last = e.seq /\ w.sent = Append(v.sent, e)
  OBVIOUS
<1> HIDE DEF m, k, n, e
<1>8. /\ 1 \in 1 .. k /\ m + 1 \in 1 .. n /\ m + 1 + (k - 1) <= n
      /\ \A i \in 1 .. k - 1 : i + 1 \in 1 .. k /\ m + (i + 1) = m + 1 + i
      /\ \A i \in 1 .. m + 1 : i = m + 1 \/ i \in 1 .. m
  <2>1. m + k <= n
    BY <1>1
  <2>2. QED
    BY <1>2, <2>1
<1>9. e = evs[m + 1] /\ e.seq = m + 1
  BY <1>1, <1>3, <1>6, <1>8
<1>10. \A i \in 1 .. m + 1 : w.sent[i] = evs[i]
  BY <1>1, <1>5, <1>7, <1>8, <1>9
<1>11. \A i \in 1 .. k - 1 : w.queue[i] = evs[m + 1 + i]
  <2>1. SUFFICES ASSUME NEW i \in 1 .. k - 1
                 PROVE  w.queue[i] = evs[m + 1 + i]
    OBVIOUS
  <2>2. w.queue[i] = v.queue[i + 1]
    BY <1>4, <1>7
  <2>3. v.queue[i + 1] = evs[m + (i + 1)] /\ m + (i + 1) = m + 1 + i
    BY <1>1, <1>8
  <2>4. QED
    BY <2>2, <2>3
<1>12. Len(w.queue) = k - 1 /\ Len(w.sent) = m + 1 /\ w.last = m + 1
  BY <1>4, <1>5, <1>7, <1>9
<1>13. QED
  BY <1>4, <1>5, <1>7, <1>8, <1>10, <1>11, <1>12 DEF IsShown, n

LEMMA SendEventKeeps ==
    ASSUME TalkInv, SendEvent
    PROVE  TalkInv'
<1> DEFINE queue == Tail(viewer.queue)
           last == Head(viewer.queue).seq
           sent == Append(viewer.sent, Head(viewer.queue))
           new == ViewOf(viewer.run, viewer.phase, last, queue, sent)
<1>1. /\ viewer.run \in 0 .. Len(chats) /\ viewer.queue # <<>> /\ viewer.run # 0
      /\ chats' = chats /\ journal' = journal /\ acting' = acting /\ minds' = minds
      /\ doomed' = doomed
  BY ViewFacts DEF SendEvent
<1>2. viewer' = new
  <2>1. viewer' = [viewer EXCEPT !.queue = queue, !.last = last, !.sent = sent]
    BY DEF SendEvent
  <2> HIDE DEF queue, last, sent
  <2>2. QED
    BY <2>1, ViewFacts DEF ViewOf
<1>3. new.queue = queue /\ new.last = last /\ new.sent = sent
  BY DEF ViewOf
<1>4. ASSUME viewer.run \in ChatRows
      PROVE  IsShown(new, journal[viewer.run])
  <2>1. IsShown(viewer, journal[viewer.run]) /\ Numbered(journal[viewer.run])
    BY <1>4, ViewFacts
  <2> HIDE DEF new
  <2>2. QED
    BY <1>1, <1>3, <2>1, SentIs
<1> HIDE DEF queue, last, sent
<1>5. QED
  BY <1>1, <1>2, <1>4, ViewKeeps

LEMMA LookKeeps ==
    ASSUME TalkInv, LookWhetherDone
    PROVE  TalkInv'
<1> DEFINE phase == IF chats[viewer.run].status \in Ended THEN "done" ELSE "list"
           new == ViewOf(viewer.run, phase, viewer.last, viewer.queue, viewer.sent)
<1>1. /\ viewer.run \in 0 .. Len(chats)
      /\ chats' = chats /\ journal' = journal /\ acting' = acting /\ minds' = minds
      /\ doomed' = doomed
  BY ViewFacts DEF LookWhetherDone
<1>2. viewer' = new
  <2>1. viewer' = [viewer EXCEPT !.phase = phase]
    BY DEF LookWhetherDone
  <2> HIDE DEF phase
  <2>2. QED
    BY <2>1, ViewFacts DEF ViewOf
<1>3. ASSUME viewer.run \in ChatRows
      PROVE  IsShown(new, journal[viewer.run])
  <2>1. IsShown(viewer, journal[viewer.run])
    BY <1>3, ViewFacts
  <2>2. /\ new.sent = viewer.sent /\ new.queue = viewer.queue /\ new.last = viewer.last
    BY DEF ViewOf
  <2> HIDE DEF new
  <2>3. QED
    BY <2>1, <2>2 DEF IsShown
<1>4. viewer.run = 0 => viewer.sent = <<>> /\ viewer.queue = <<>> /\ viewer.last = 0
  BY ViewFacts
<1> HIDE DEF phase
<1>5. QED
  BY <1>1, <1>2, <1>3, <1>4, ViewKeeps

-----------------------------------------------------------------------------
(* The theorem.                                                            *)

\* The invariant holds at first,
LEMMA TalkBegins == TalkInit => TalkInv
<1> SUFFICES ASSUME TalkInit
             PROVE  TalkInv
  OBVIOUS
<1>1. MaxRuns \in Nat /\ MaxRuns # 0 /\ 1 \in 1 .. MaxRuns /\ 0 \in 0 .. MaxRuns /\ 1 \in 0 .. MaxRuns
  BY ConversationsAssumption
<1>2. /\ minds = [s \in 1 .. MaxRuns |-> IF s <= Len(chats) THEN <<s>> ELSE <<>>]
      /\ viewer = [run |-> 0, phase |-> "list", last |-> 0, queue |-> <<>>, sent |-> <<>>]
      /\ doomed = {}
  BY DEF TalkInit
<1>3. viewer.run = 0 /\ viewer.sent = <<>> /\ viewer.queue = <<>> /\ viewer.last = 0
      /\ viewer = [run |-> viewer.run, phase |-> viewer.phase, last |-> viewer.last,
                   queue |-> viewer.queue, sent |-> viewer.sent]
  BY <1>2
<1>4. 0 \notin ChatRows /\ 0 \notin Numbers
  BY DEF ChatRows, Numbers
<1>5. Viewing
  BY <1>3, <1>4 DEF Viewing
<1>6. minds \in [1 .. MaxRuns -> Seq(Nat)] /\ \A s \in 1 .. MaxRuns : minds[s] = <<s>> \/ minds[s] = <<>>
  <2>1. \A s \in 1 .. MaxRuns : <<s>> \in Seq(Nat) /\ <<>> \in Seq(Nat)
    OBVIOUS
  <2>2. QED
    BY <1>2, <2>1
<1>7. CASE chats = <<>> /\ journal = <<>> /\ acting = <<>>
  <2>1. Len(chats) = 0 /\ Numbers = {} /\ ChatRows = {}
    BY <1>7 DEF Numbers, ChatRows
  <2>2. TalkTyped
    <3>1. /\ chats \in Seq(ChatRecord) /\ acting \in Seq(QueryRecord)
          /\ journal \in Seq(Seq(ChatEvent)) /\ Len(acting) = 0 /\ Len(journal) = 0
      BY <1>7
    <3>2. Len(chats) <= MaxRuns /\ viewer.run \in 0 .. Len(chats)
      BY <1>1, <1>3, <2>1
    <3>3. QED
      BY <1>2, <1>3, <1>6, <2>1, <3>1, <3>2 DEF TalkTyped
  <2>3. MindsOK
    <3>1. \A s \in 1 .. MaxRuns : minds[s] = <<>>
      BY <1>2, <2>1
    <3>2. QED
      BY <3>1 DEF MindsOK
  <2>4. Continuing
    BY <1>2, <2>1 DEF Continuing, Continues
  <2>5. QED
    BY <1>5, <2>1, <2>2, <2>3, <2>4 DEF TalkInv
<1>8. CASE /\ \E size \in Sizes :
                 chats = <<[prev |-> 0, at |-> 1, size |-> size, status |-> "succeeded",
                            session |-> 1, asked |-> 0]>>
           /\ journal = <<<<>>>>
           /\ acting = <<[NoQuery EXCEPT !.query = "over", !.ok = TRUE, !.session = 1]>>
  <2>1. PICK size \in Sizes :
           chats = <<[prev |-> 0, at |-> 1, size |-> size, status |-> "succeeded",
                      session |-> 1, asked |-> 0]>>
    BY <1>8
  <2>2. /\ chats \in Seq(ChatRecord) /\ Len(chats) = 1
        /\ chats[1].prev = 0 /\ chats[1].asked = 0 /\ chats[1].status = "succeeded"
    <3>1. "succeeded" \in ChatStatuses
      BY DEF ChatStatuses
    <3>2. [prev |-> 0, at |-> 1, size |-> size, status |-> "succeeded",
           session |-> 1, asked |-> 0] \in ChatRecord
      BY <1>1, <3>1 DEF ChatRecord
    <3>3. QED
      BY <2>1, <3>2
  <2> DEFINE a == [NoQuery EXCEPT !.query = "over", !.ok = TRUE, !.session = 1]
  <2>3. NoQuery \in QueryRecord /\ NoQuery.buffer = <<>> /\ NoQuery.past = <<>>
    BY NoQueryIs
  <2>4. a \in QueryRecord /\ a.query = "over" /\ a.buffer = <<>> /\ a.past = <<>>
    <3>1. "over" \in QueryKinds
      BY DEF QueryKinds
    <3>2. QED
      BY <1>1, <2>3, <3>1 DEF QueryRecord
  <2>5. acting = <<a>>
    BY <1>8
  <2> HIDE DEF a
  <2>6. acting \in Seq(QueryRecord) /\ Len(acting) = 1 /\ acting[1] = a
    BY <2>4, <2>5
  <2>7. journal \in Seq(Seq(ChatEvent)) /\ Len(journal) = 1 /\ journal[1] = <<>>
    BY <1>8
  <2>8. Numbers = {1} /\ ChatRows = {1}
    BY <2>2 DEF Numbers, ChatRows
  <2>9. TalkTyped
    <3>1. viewer.run \in 0 .. Len(chats) /\ Len(chats) <= MaxRuns
      BY <1>1, <1>3, <2>2
    <3>2. \A r \in Numbers : chats[r].prev < r /\ chats[r].asked < r
      BY <2>2, <2>8
    <3>3. QED
      BY <1>2, <1>3, <1>6, <2>2, <2>6, <2>7, <3>1, <3>2 DEF TalkTyped
  <2>10. QueryOK(chats[1], acting[1])
    BY <2>2, <2>4, <2>6 DEF QueryOK
  <2>11. Answers(acting[1], journal[1])
    <3>1. Numbered(<<>>) /\ TextsAt(<<>>) = {}
      BY DEF Numbered, TextsAt
    <3>2. QED
      BY <2>4, <2>6, <2>7, <3>1 DEF Answers, OneVoice
  <2>12. PastOK(chats, acting[1].past, 1)
    BY <2>4, <2>6 DEF PastOK
  <2>13. MindsOK
    <3>1. minds[1] = <<1>> /\ \A s \in 1 .. MaxRuns : s # 1 => minds[s] = <<>>
      BY <1>1, <1>2, <2>2
    <3>2. ~ Unheard(chats[1], acting[1])
      BY <2>2 DEF Unheard
    <3>3. QED
      BY <2>8, <3>1, <3>2 DEF MindsOK
  <2>14. Continuing
    <3>1. \A r \in ChatRows : chats[r].asked \notin ChatRows
      BY <2>2, <2>8
    <3>2. QED
      BY <1>2, <3>1 DEF Continuing, Continues
  <2>15. QED
    BY <1>5, <2>8, <2>9, <2>10, <2>11, <2>12, <2>13, <2>14 DEF TalkInv
<1>9. QED
  BY <1>7, <1>8 DEF TalkInit

LEMMA SameTalk ==
    ASSUME TalkInv, UNCHANGED talkVars
    PROVE  TalkInv'
<1>1. /\ chats' = chats /\ journal' = journal /\ acting' = acting /\ minds' = minds
      /\ viewer' = viewer /\ doomed' = doomed
  BY DEF talkVars
<1>2. viewer' = ViewOf(viewer.run, viewer.phase, viewer.last, viewer.queue, viewer.sent)
  BY <1>1, ViewFacts
<1>3. viewer.run \in ChatRows =>
         IsShown(ViewOf(viewer.run, viewer.phase, viewer.last, viewer.queue, viewer.sent),
                 journal[viewer.run])
  BY ViewFacts
<1>4. QED
  BY <1>1, <1>2, <1>3, ViewFacts, ViewKeeps

\* every step keeps it,
LEMMA TalkSteps ==
    ASSUME TalkInv, [TalkNext]_talkVars
    PROVE  TalkInv'
<1>1. CASE \E prev \in 0 .. Len(chats) : CreateAfter(prev)
  BY <1>1, CreateKeeps
<1>2. CASE \E s \in Numbers : Trigger(s) \/ StartDelete(s)
  BY <1>2, TriggerKeeps, StartDeleteKeeps
<1>3. CASE FinishDelete
  BY <1>3, FinishDeleteKeeps
<1>4. ASSUME NEW r \in Numbers,
             \/ StartQuery(r) \/ ResumeFails(r) \/ DryRun(r) \/ CompleteRun(r)
             \/ \E ok \in BOOLEAN, session \in Numbers : QueryEnds(r, ok, session)
             \/ Fail(r) \/ ToolFails(r) \/ \E text \in 1 .. MaxTexts : Say(r, text)
      PROVE  TalkInv'
  <2>1. \A text \in 1 .. MaxTexts : text \in Nat
    OBVIOUS
  <2>2. \E c, a, evs : RunMoves(r, c, a, evs)
    BY <1>4, <2>1, StartMoves, ResumeFailsMoves, DryRunMoves, CompleteRunMoves, QueryEndsMoves,
       FailMoves, ToolFailsMoves, SayMoves
  <2>3. QED
    BY <2>2, RunKeeps
<1>5. CASE \E r \in Numbers : Watch(r)
  BY <1>5, WatchKeeps
<1>6. CASE List \/ SendEvent \/ LookWhetherDone
  BY <1>6, ListKeeps, SendEventKeeps, LookKeeps
<1>7. CASE UNCHANGED talkVars
  BY <1>7, SameTalk
<1>8. QED
  BY <1>1, <1>2, <1>3, <1>4, <1>5, <1>6, <1>7 DEF TalkNext, Answering, GroupNext, WatchNext

\* and what was sent is the beginning of what there is.
LEMMA ShownIsPrefix ==
    ASSUME NEW v, NEW evs, Numbered(evs), IsShown(v, evs)
    PROVE  IsPrefix(v.sent, evs)
<1> DEFINE m == Len(v.sent)
           n == Len(evs)
<1>1. /\ evs \in Seq(ChatEvent) /\ v.sent \in Seq(ChatEvent) /\ m \in 0 .. n
      /\ m \in Nat /\ n \in Nat /\ \A i \in 1 .. m : v.sent[i] = evs[i]
  <2>1. evs \in Seq(ChatEvent) /\ v.sent \in Seq(ChatEvent)
    BY DEF Numbered, IsShown
  <2>2. m \in 0 .. n
    BY ShownLength
  <2>3. \A i \in 1 .. m : v.sent[i] = evs[i]
    BY DEF IsShown
  <2>4. m \in Nat /\ n \in Nat
    BY <2>1
  <2> HIDE DEF m, n
  <2>5. QED
    BY <2>1, <2>2, <2>3, <2>4
<1>2. /\ SubSeq(evs, 1, m) \in Seq(ChatEvent) /\ Len(SubSeq(evs, 1, m)) = m
      /\ \A i \in 1 .. m : SubSeq(evs, 1, m)[i] = evs[i]
  <2>1. \A i \in 1 .. m : evs[i] \in ChatEvent
    <3>1. \A i \in 1 .. n : evs[i] \in ChatEvent
      BY <1>1
    <3> HIDE DEF m, n
    <3>2. QED
      BY <1>1, <3>1
  <2>2. /\ SubSeq(evs, 1, m) \in Seq(ChatEvent)
        /\ Len(SubSeq(evs, 1, m)) = IF 1 <= m THEN m - 1 + 1 ELSE 0
        /\ \A i \in 1 .. m - 1 + 1 : SubSeq(evs, 1, m)[i] = evs[1 + i - 1]
    BY <1>1, <2>1, SubSeqProperties
  <2> HIDE DEF m, n
  <2>3. QED
    BY <1>1, <2>2
<1>3. v.sent = SubSeq(evs, 1, m)
  BY <1>1, <1>2
<1>4. QED
  BY <1>1, <1>3 DEF IsPrefix

\* and it is what the conversations promise.
LEMMA TalkIsRight == TalkInv => ConversationsHold
<1> SUFFICES ASSUME TalkInv
             PROVE  ConversationsHold
  OBVIOUS
<1>1. OneReply
  <2>1. \A r \in Numbers : OneVoice(journal[r])
    BY RunFacts DEF Answers
  <2>2. viewer.run \in ChatRows => IsPrefix(viewer.sent, journal[viewer.run])
    BY ViewFacts, ShownIsPrefix
  <2>3. QED
    BY <2>1, <2>2 DEF OneReply, OneVoice
<1>2. ToldOnce
  <2>1. \A s \in DOMAIN minds : IsInjective(minds[s])
    <3>1. minds \in [1 .. MaxRuns -> Seq(Nat)] /\ MindsOK
      BY DEF TalkInv, TalkTyped
    <3>2. \A s \in 1 .. MaxRuns : DOMAIN minds[s] = 1 .. Len(minds[s])
      BY <3>1
    <3>3. QED
      BY <3>1, <3>2 DEF MindsOK, IsInjective
  <2>2. \A r \in Numbers : acting[r].past # <<>> => Answered(chats, Append(acting[r].past, r))
    BY RunFacts DEF PastOK
  <2>3. QED
    BY <2>1, <2>2 DEF ToldOnce, Answered
<1>3. Continues
  BY DEF TalkInv, Continuing
<1>4. QED
  BY <1>1, <1>2, <1>3 DEF ConversationsHold

(* Whatever runs follow, fail and are deleted, a run's events hold the     *)
(* answer of one query, no session of the SDK is told a round twice, and a *)
(* run triggered for a conversation belongs to it.                         *)
THEOREM ConversationsAreKept == TalkSpec => []ConversationsHold
<1>1. TalkInit => TalkInv
  BY TalkBegins
<1>2. TalkInv /\ [TalkNext]_talkVars => TalkInv'
  BY TalkSteps
<1>3. TalkInv => ConversationsHold
  BY TalkIsRight
<1>4. QED
  BY <1>1, <1>2, <1>3, PTL DEF TalkSpec

=============================================================================
