--------------------------- MODULE HostedRunsProofs ---------------------------
(***************************************************************************)
(* Theorems about HostedRuns: what a run's task and its row say of each    *)
(* other, that outcomes stand, that no two cards share a run, and that no  *)
(* account has more active runs than its cap.                              *)
(***************************************************************************)
EXTENDS HostedRuns, FiniteSetTheorems, TLAPS

\* What the row of a run with a task may say.
TaskAndRow ==
    \A r \in RunIds :
        /\ coro[r] = "created" => runs[r].status = "queued" /\ ~runs[r].dispatched
        /\ coro[r] = "body" /\ ~runs[r].dispatched => runs[r].status = "running"
        /\ coro[r] = "ending" => /\ runs[r].status \in {"running", "failed", "deleted"}
                                 /\ ~runs[r].dispatched

\* The inductive invariant about rows and tasks.
RowInv == TypeOK /\ TaskAndRow

\* Cards refer to rows that were made.
CardsHaveRuns == \A c \in CardIds : cards[c].run # 0 => runs[cards[c].run].status # "absent"

-----------------------------------------------------------------------------
(* Lemmas about the operators.                                             *)

\* update_run_status changes the status of one row, unless it is deleted.
LEMMA UpdatedFacts ==
    ASSUME TypeOK, NEW r \in RunIds, NEW s \in RunStatus
    PROVE  /\ Updated(r, s) \in [RunIds -> Run]
           /\ \A x \in RunIds : /\ Updated(r, s)[x].dispatched = runs[x].dispatched
                                /\ x # r => Updated(r, s)[x] = runs[x]
           /\ runs[r].status = "deleted" => Updated(r, s)[r].status = "deleted"
           /\ runs[r].status # "deleted" => Updated(r, s)[r].status = s
<1> DEFINE new == IF runs[r].status = "deleted" THEN runs[r]
                  ELSE [runs[r] EXCEPT !.status = s, !.old = FALSE]
<1>1. runs[r] \in Run /\ runs \in [RunIds -> Run]
  BY DEF TypeOK
<1>2. /\ new \in Run
      /\ new.dispatched = runs[r].dispatched
      /\ runs[r].status = "deleted" => new.status = "deleted"
      /\ runs[r].status # "deleted" => new.status = s
  BY <1>1 DEF Run, RunStatus
<1>3. Updated(r, s) = [runs EXCEPT ![r] = new]
  BY <1>1 DEF Updated
<1> HIDE DEF new
<1> QED
  BY <1>1, <1>2, <1>3

\* A new row is well typed.
LEMMA NewRunFacts ==
    ASSUME NEW q \in Requests \cup {Nobody}, NEW a \in Accounts, NEW d \in BOOLEAN
    PROVE  /\ NewRun(q, a, d) \in Run
           /\ NewRun(q, a, d).status = "queued"
           /\ NewRun(q, a, d).dispatched = d
BY DEF NewRun, Run, RunStatus, Active

\* Free rows are free, and the accounts of requests are accounts.
LEMMA FreeFacts ==
    ASSUME TypeOK
    PROVE  /\ \A r \in FreeRuns : r \in RunIds /\ runs[r].status = "absent" /\ coro[r] = "none"
           /\ \A c \in FreeCards : c \in CardIds /\ cards[c].status = "absent"
           /\ \A q \in Requests : Owner[q] \in Accounts
BY DEF TypeOK, FreeRuns, FreeCards, Accounts

\* A cancel leaves a stopping or an ending task, the latter where the agent ran.
LEMMA AfterCancelFacts ==
    ASSUME NEW r, NEW n \in AfterCancel(r)
    PROVE  n \in {"stopping", "ending"} /\ (n = "ending" => coro[r] \in {"body", "ending"})
BY DEF AfterCancel

\* A row a refresh or a recovery numbers is one of those it was made for.
LEMMA BoardStatusFacts ==
    ASSUME NEW s \in Active \cup Terminal
    PROVE  BoardStatus(s) \in CardStatus \ {"absent"}
BY DEF CardStatus, BoardStatus, Active, Terminal

-----------------------------------------------------------------------------
(* Rows and tasks.                                                         *)

LEMMA RowInit == Init => RowInv
<1>1. NoRun \in Run
  BY DEF NoRun, Run, RunStatus, Accounts
<1>2. NoCard \in Card
  BY DEF NoCard, Card, CardStatus, Accounts
<1>3. NoRun.status = "absent"
  BY DEF NoRun
<1> SUFFICES ASSUME Init PROVE RowInv
  OBVIOUS
<1>4. runs \in [RunIds -> Run] /\ coro \in [RunIds -> TaskState]
  BY <1>1 DEF Init, TaskState
<1>5. cards \in [CardIds -> Card] /\ job \in [Dispatched -> JobStatus]
  BY <1>2 DEF Init, JobStatus
<1>6. restarts \in 0..MaxRestarts
  BY HostedBounds DEF Init
<1>7. \A r \in RunIds : runs[r].status = "absent" /\ coro[r] = "none"
  BY <1>3 DEF Init
<1>8. UNION {cancels, drops} = {} /\ worker = 0 /\ maintenance = FALSE /\ asked = {}
  BY DEF Init
<1> QED
  BY <1>4, <1>5, <1>6, <1>7, <1>8 DEF RowInv, TypeOK, TaskAndRow

LEMMA RowCreateRun ==
    ASSUME RowInv, NEW q \in Console, CreateRun(q) PROVE RowInv'
<1> DEFINE r == NextRun
           c == NextCard
<1>1. q \in Requests /\ Owner[q] \in Accounts
  BY FreeFacts DEF RowInv, Requests
<1>2. ASSUME c \in FreeCards,
             cards' = [cards EXCEPT ![c] = [status |-> "queued", req |-> q,
                                           acct |-> Owner[q], run |-> 0]],
             UNCHANGED <<runs, coro>>
      PROVE  RowInv'
  <2> HIDE DEF c
  <2>1. c \in CardIds
    BY <1>2, FreeFacts DEF RowInv
  <2>2. [status |-> "queued", req |-> q, acct |-> Owner[q], run |-> 0] \in Card
    BY <1>1 DEF Card, CardStatus
  <2>3. cards' \in [CardIds -> Card]
    BY <1>2, <2>1, <2>2 DEF RowInv, TypeOK
  <2> QED
    BY <1>2, <2>3 DEF RowInv, TypeOK, TaskAndRow, CreateRun
<1>3. ASSUME r \in FreeRuns,
             runs' = [runs EXCEPT ![r] = NewRun(q, Owner[q], FALSE)],
             coro' = [coro EXCEPT ![r] = "created"],
             UNCHANGED cards
      PROVE  RowInv'
  <2> HIDE DEF r
  <2>1. r \in RunIds
    BY <1>3, FreeFacts DEF RowInv
  <2>2. /\ NewRun(q, Owner[q], FALSE) \in Run
        /\ NewRun(q, Owner[q], FALSE).status = "queued"
        /\ NewRun(q, Owner[q], FALSE).dispatched = FALSE
    BY <1>1, NewRunFacts
  <2>3. TypeOK'
    <3>1. runs' \in [RunIds -> Run] /\ coro' \in [RunIds -> TaskState]
      BY <1>3, <2>1, <2>2 DEF RowInv, TypeOK, TaskState
    <3>2. \A x \in RunIds : runs'[x].status = "absent" => coro'[x] = "none"
      BY <1>3, <2>1, <2>2 DEF RowInv, TypeOK
    <3> QED
      BY <1>3, <3>1, <3>2 DEF RowInv, TypeOK, CreateRun
  <2>4. TaskAndRow'
    BY <1>3, <2>1, <2>2 DEF RowInv, TypeOK, TaskAndRow
  <2> QED
    BY <2>3, <2>4 DEF RowInv
<1> QED
  BY <1>2, <1>3 DEF CreateRun

\* A step that updates one row and leaves its task in state n.
LEMMA RowStep ==
    ASSUME RowInv, NEW r \in RunIds, NEW s \in RunStatus \ {"absent"},
           NEW n \in TaskState \ {"created"},
           runs' = Updated(r, s), coro' = [coro EXCEPT ![r] = n],
           n = "body" /\ ~runs[r].dispatched => s = "running" /\ runs[r].status # "deleted",
           n = "ending" => s \in {"running", "failed"} /\ ~runs[r].dispatched
    PROVE  /\ runs' \in [RunIds -> Run]
           /\ coro' \in [RunIds -> TaskState]
           /\ \A x \in RunIds : runs'[x].status = "absent" => coro'[x] = "none"
           /\ TaskAndRow'
<1>1. /\ runs' \in [RunIds -> Run]
      /\ \A x \in RunIds : /\ runs'[x].dispatched = runs[x].dispatched
                           /\ x # r => runs'[x] = runs[x]
      /\ runs[r].status = "deleted" => runs'[r].status = "deleted"
      /\ runs[r].status # "deleted" => runs'[r].status = s
  BY UpdatedFacts DEF RowInv
<1>2. /\ coro' \in [RunIds -> TaskState]
      /\ coro'[r] = n
      /\ \A x \in RunIds : x # r => coro'[x] = coro[x]
  BY DEF RowInv, TypeOK
<1>3. \A x \in RunIds : runs'[x].status = "absent" => coro'[x] = "none"
  BY <1>1, <1>2 DEF RowInv, TypeOK
<1>4. TaskAndRow'
  BY <1>1, <1>2 DEF RowInv, TaskAndRow
<1> QED
  BY <1>1, <1>2, <1>3, <1>4

\* A step that cancels a scheduled task and leaves the rows alone.
LEMMA TaskStep ==
    ASSUME RowInv, NEW r \in RunIds, NEW n \in {"none", "stopping", "ending"},
           runs' = runs, coro' = [coro EXCEPT ![r] = n], runs[r].status # "absent",
           n = "ending" => coro[r] \in {"body", "ending"} /\ ~runs[r].dispatched
    PROVE  /\ coro' \in [RunIds -> TaskState]
           /\ \A x \in RunIds : runs'[x].status = "absent" => coro'[x] = "none"
           /\ TaskAndRow'
<1>1. /\ coro' \in [RunIds -> TaskState]
      /\ coro'[r] = n
      /\ \A x \in RunIds : x # r => coro'[x] = coro[x]
  BY DEF RowInv, TypeOK, TaskState
<1> QED
  BY <1>1 DEF RowInv, TypeOK, TaskAndRow

LEMMA RowStartRun ==
    ASSUME RowInv, NEW r \in RunIds, StartRun(r) PROVE RowInv'
<1>1. coro[r] = "created" /\ runs[r].status = "queued"
  BY DEF StartRun, RowInv, TaskAndRow
<1>2. /\ runs' \in [RunIds -> Run]
      /\ coro' \in [RunIds -> TaskState]
      /\ \A x \in RunIds : runs'[x].status = "absent" => coro'[x] = "none"
      /\ TaskAndRow'
  <2>1. CASE runs' = Updated(r, "running") /\ coro' = [coro EXCEPT ![r] = "body"]
    BY <1>1, <2>1, RowStep DEF RunStatus, Active, TaskState
  <2>2. CASE runs' = Updated(r, "failed") /\ coro' = [coro EXCEPT ![r] = "none"]
    BY <1>1, <2>2, RowStep DEF RunStatus, Terminal, TaskState
  <2> QED
    BY <2>1, <2>2 DEF StartRun
<1> QED
  BY <1>2 DEF RowInv, TypeOK, StartRun

LEMMA RowEndRun ==
    ASSUME RowInv, NEW r \in RunIds, NEW outcome \in {"succeeded", "failed"},
           EndRun(r, outcome)
    PROVE  RowInv'
<1>1. outcome \in RunStatus \ {"absent"} /\ "none" \in TaskState \ {"created"}
  BY DEF RunStatus, Terminal, TaskState
<1>2. /\ runs' \in [RunIds -> Run]
      /\ coro' \in [RunIds -> TaskState]
      /\ \A x \in RunIds : runs'[x].status = "absent" => coro'[x] = "none"
      /\ TaskAndRow'
  BY <1>1, RowStep DEF EndRun
<1>3. worker' \in RunIds \cup {0} /\ job' \in [Dispatched -> JobStatus]
  BY DEF RowInv, TypeOK, EndRun, JobStatus
<1> QED
  BY <1>2, <1>3 DEF RowInv, TypeOK, EndRun

LEMMA RowRaiseHosted ==
    ASSUME RowInv, RaiseHosted PROVE RowInv'
<1>1. worker \in RunIds
  BY DEF RowInv, TypeOK, RaiseHosted
<1>2. /\ coro' \in [RunIds -> TaskState]
      /\ \A x \in RunIds : coro'[x] = IF x = worker THEN "none" ELSE coro[x]
  BY <1>1 DEF RowInv, TypeOK, RaiseHosted, TaskState
<1>3. TaskAndRow' /\ (\A x \in RunIds : runs'[x].status = "absent" => coro'[x] = "none")
  BY <1>2 DEF RowInv, TypeOK, TaskAndRow, RaiseHosted
<1>4. job' \in [Dispatched -> JobStatus]
  BY DEF RowInv, TypeOK, RaiseHosted, JobStatus
<1> QED
  BY <1>2, <1>3, <1>4 DEF RowInv, TypeOK, RaiseHosted

LEMMA RowCancelRun ==
    ASSUME RowInv, NEW r \in RunIds, CancelRun(r) PROVE RowInv'
<1>1. runs[r].status \in Active /\ runs[r].status # "absent"
  BY DEF CancelRun, Active
<1>2. /\ runs' \in [RunIds -> Run]
      /\ coro' \in [RunIds -> TaskState]
      /\ \A x \in RunIds : runs'[x].status = "absent" => coro'[x] = "none"
      /\ TaskAndRow'
  <2>1. CASE Scheduled(r)
    <3>1. runs' = runs /\ ~runs[r].dispatched
      BY <2>1 DEF CancelRun, Scheduled
    <3>2. PICK n \in AfterCancel(r) : coro' = [coro EXCEPT ![r] = n]
      BY <2>1 DEF CancelRun
    <3>3. n \in {"stopping", "ending"} /\ (n = "ending" => coro[r] \in {"body", "ending"})
      BY AfterCancelFacts
    <3> QED
      BY <1>1, <3>1, <3>2, <3>3, TaskStep DEF RowInv, TypeOK
  <2>2. CASE ~Scheduled(r)
    <3>1. runs' = Updated(r, "cancelled") /\ coro' = [coro EXCEPT ![r] = coro[r]]
      BY <2>2 DEF CancelRun, RowInv, TypeOK
    <3>2. coro[r] \in TaskState \ {"created"}
      BY <2>2 DEF Scheduled, RowInv, TypeOK, TaskAndRow
    <3>3. coro[r] # "ending" /\ (coro[r] = "body" => runs[r].dispatched)
      BY <2>2 DEF Scheduled, RowInv, TypeOK, TaskAndRow
    <3> QED
      BY <3>1, <3>2, <3>3, RowStep DEF RunStatus, Terminal
  <2> QED
    BY <2>1, <2>2
<1> QED
  BY <1>2 DEF RowInv, TypeOK, CancelRun

LEMMA RowStopped ==
    ASSUME RowInv, NEW r \in RunIds, Stopped(r) PROVE RowInv'
<1>1. coro[r] = "stopping" /\ runs[r].status # "absent"
  BY DEF RowInv, TypeOK, Stopped
<1>2. /\ runs' \in [RunIds -> Run]
      /\ coro' \in [RunIds -> TaskState]
      /\ \A x \in RunIds : runs'[x].status = "absent" => coro'[x] = "none"
      /\ TaskAndRow'
  <2>1. CASE runs' = runs
    BY <1>1, <2>1, TaskStep DEF Stopped, RowInv, TypeOK
  <2>2. CASE runs' = Updated(r, "cancelled")
    BY <2>2, RowStep DEF Stopped, RunStatus, Terminal, TaskState
  <2> QED
    BY <2>1, <2>2 DEF Stopped
<1> QED
  BY <1>2 DEF RowInv, TypeOK, Stopped

LEMMA RowFinishCancel ==
    ASSUME RowInv, NEW r \in RunIds, FinishCancel(r) PROVE RowInv'
<1> DEFINE left == IF runs[r].status \in Active THEN Updated(r, "cancelled") ELSE runs
<1>1. coro[r] = "none"
  BY DEF FinishCancel
<1>2. left \in [RunIds -> Run] /\ (\A x \in RunIds : x # r => left[x] = runs[x])
      /\ left[r].dispatched = runs[r].dispatched
  <2>1. "cancelled" \in RunStatus
    BY DEF RunStatus, Terminal
  <2> QED
    BY <2>1, UpdatedFacts DEF RowInv, TypeOK
<1>3. runs' = IF r \in drops THEN [left EXCEPT ![r].status = "deleted"] ELSE left
  BY DEF FinishCancel
<1> HIDE DEF left
<1>4. runs' \in [RunIds -> Run] /\ (\A x \in RunIds : x # r => runs'[x] = runs[x])
  BY <1>2, <1>3 DEF Run, RunStatus
<1>5. /\ \A x \in RunIds : runs'[x].status = "absent" => coro'[x] = "none"
      /\ TaskAndRow'
  BY <1>1, <1>4 DEF FinishCancel, RowInv, TypeOK, TaskAndRow
<1> QED
  BY <1>4, <1>5 DEF RowInv, TypeOK, FinishCancel

LEMMA RowDeleteSession ==
    ASSUME RowInv, NEW r \in RunIds, DeleteSession(r) PROVE RowInv'
<1>1. runs[r].status \in Active \cup Terminal /\ runs[r].status # "absent"
  BY DEF DeleteSession, Active, Terminal
<1>2. /\ runs' \in [RunIds -> Run]
      /\ coro' \in [RunIds -> TaskState]
      /\ \A x \in RunIds : runs'[x].status = "absent" => coro'[x] = "none"
      /\ TaskAndRow'
  <2>1. CASE runs[r].status \in Active /\ Scheduled(r)
    <3>1. runs' = runs /\ ~runs[r].dispatched
      BY <2>1 DEF DeleteSession, Scheduled
    <3>2. PICK n \in AfterCancel(r) : coro' = [coro EXCEPT ![r] = n]
      BY <2>1 DEF DeleteSession
    <3>3. n \in {"stopping", "ending"} /\ (n = "ending" => coro[r] \in {"body", "ending"})
      BY AfterCancelFacts
    <3> QED
      BY <1>1, <3>1, <3>2, <3>3, TaskStep DEF RowInv, TypeOK
  <2>2. CASE ~(runs[r].status \in Active /\ Scheduled(r))
    <3>1. runs' = [runs EXCEPT ![r].status = "deleted"] /\ coro' = coro
      BY <2>2 DEF DeleteSession
    <3>2. runs' \in [RunIds -> Run]
      BY <3>1 DEF RowInv, TypeOK, Run, RunStatus
    <3>3. /\ runs'[r].status = "deleted" /\ runs'[r].dispatched = runs[r].dispatched
          /\ \A x \in RunIds : x # r => runs'[x] = runs[x]
      BY <3>1 DEF RowInv, TypeOK, Run
    <3>4. coro[r] # "created" /\ (coro[r] = "body" => runs[r].dispatched)
      BY <2>2 DEF Scheduled, RowInv, TaskAndRow, Active
    <3> QED
      BY <3>1, <3>2, <3>3, <3>4 DEF RowInv, TypeOK, TaskAndRow
  <2> QED
    BY <2>1, <2>2
<1> QED
  BY <1>2 DEF RowInv, TypeOK, DeleteSession

LEMMA RowRunTooLong ==
    ASSUME RowInv, NEW r \in RunIds, RunTooLong(r) PROVE RowInv'
<1>1. /\ runs' \in [RunIds -> Run]
      /\ \A x \in RunIds : /\ runs'[x].status = runs[x].status
                           /\ runs'[x].dispatched = runs[x].dispatched
  BY DEF RunTooLong, RowInv, TypeOK, Run
<1> QED
  BY <1>1 DEF RunTooLong, RowInv, TypeOK, TaskAndRow

LEMMA RowWatchdog ==
    ASSUME RowInv, NEW r \in RunIds, Watchdog(r) PROVE RowInv'
<1>1. "failed" \in RunStatus \ {"absent"}
  BY DEF RunStatus, Terminal
<1>2. /\ runs' \in [RunIds -> Run]
      /\ coro' \in [RunIds -> TaskState]
      /\ \A x \in RunIds : runs'[x].status = "absent" => coro'[x] = "none"
      /\ TaskAndRow'
  <2>1. CASE Scheduled(r)
    <3>1. PICK n \in AfterCancel(r) : coro' = [coro EXCEPT ![r] = n]
      BY <2>1 DEF Watchdog
    <3>2. n \in {"stopping", "ending"} /\ ~runs[r].dispatched
      BY <2>1, AfterCancelFacts DEF Scheduled
    <3>3. runs' = Updated(r, "failed")
      BY DEF Watchdog
    <3> QED
      BY <1>1, <3>1, <3>2, <3>3, RowStep DEF TaskState
  <2>2. CASE ~Scheduled(r)
    <3>1. runs' = Updated(r, "failed") /\ coro' = [coro EXCEPT ![r] = coro[r]]
      BY <2>2 DEF Watchdog, RowInv, TypeOK
    <3>2. coro[r] \in TaskState \ {"created"}
      BY <2>2 DEF Scheduled, RowInv, TypeOK, TaskAndRow
    <3>3. coro[r] # "ending" /\ (coro[r] = "body" => runs[r].dispatched)
      BY <2>2 DEF Scheduled, RowInv, TypeOK, TaskAndRow
    <3> QED
      BY <1>1, <3>1, <3>2, <3>3, RowStep
  <2> QED
    BY <2>1, <2>2
<1> QED
  BY <1>2 DEF RowInv, TypeOK, Watchdog

LEMMA RowDrain ==
    ASSUME RowInv, Drain PROVE RowInv'
<1>0. PICK taken \in Drained :
        LET RunOf(c) == NextRun + Cardinality({d \in taken : d < c})
            new == {RunOf(c) : c \in taken}
            CardOf(r) == CHOOSE c \in taken : RunOf(c) = r
        IN  /\ new \subseteq FreeRuns
            /\ runs' = [r \in RunIds |->
                          IF r \in new
                          THEN NewRun(cards[CardOf(r)].req, cards[CardOf(r)].acct, FALSE)
                          ELSE runs[r]]
            /\ coro' = [r \in RunIds |-> IF r \in new THEN "created" ELSE coro[r]]
            /\ cards' = [c \in CardIds |->
                           IF c \in taken
                           THEN [cards[c] EXCEPT !.status = "running", !.run = RunOf(c)]
                           ELSE cards[c]]
  BY DEF Drain
<1> DEFINE RunOf(c) == NextRun + Cardinality({d \in taken : d < c})
           new == {RunOf(c) : c \in taken}
           CardOf(r) == CHOOSE c \in taken : RunOf(c) = r
           Made(r) == NewRun(cards[CardOf(r)].req, cards[CardOf(r)].acct, FALSE)
           Started(c) == [cards[c] EXCEPT !.status = "running", !.run = RunOf(c)]
<1>1. /\ new \subseteq FreeRuns
      /\ runs' = [r \in RunIds |-> IF r \in new THEN Made(r) ELSE runs[r]]
      /\ coro' = [r \in RunIds |-> IF r \in new THEN "created" ELSE coro[r]]
      /\ cards' = [c \in CardIds |-> IF c \in taken THEN Started(c) ELSE cards[c]]
  BY <1>0
<1>2. taken \subseteq CardIds
  BY DEF Drained, Waiting
<1>3. \A r \in new : CardOf(r) \in taken
  OBVIOUS
<1>4. \A c \in taken : RunOf(c) \in new
  OBVIOUS
<1>5. \A r \in new : /\ Made(r) \in Run
                     /\ Made(r).status = "queued"
                     /\ Made(r).dispatched = FALSE
  <2> HIDE DEF CardOf
  <2>1. \A r \in new : cards[CardOf(r)] \in Card
    BY <1>2, <1>3 DEF RowInv, TypeOK
  <2> QED
    BY <2>1, NewRunFacts DEF Card
<1> HIDE DEF RunOf, new, CardOf, Made
<1>6. \A r \in new : r \in RunIds
  BY <1>1, FreeFacts DEF RowInv
<1>7. \A c \in taken : Started(c) \in Card
  BY <1>2, <1>4, <1>6 DEF RowInv, TypeOK, Card, CardStatus
<1> HIDE DEF Started
<1>8. /\ \A x \in RunIds : runs'[x] = IF x \in new THEN Made(x) ELSE runs[x]
      /\ \A x \in RunIds : coro'[x] = IF x \in new THEN "created" ELSE coro[x]
  BY <1>1
<1>9. runs' \in [RunIds -> Run] /\ coro' \in [RunIds -> TaskState] /\ cards' \in [CardIds -> Card]
  <2>1. runs' \in [RunIds -> Run]
    BY <1>1, <1>5 DEF RowInv, TypeOK
  <2>2. coro' \in [RunIds -> TaskState]
    BY <1>1 DEF RowInv, TypeOK, TaskState
  <2>3. cards' \in [CardIds -> Card]
    BY <1>1, <1>7 DEF RowInv, TypeOK
  <2> QED
    BY <2>1, <2>2, <2>3
<1>10. /\ \A x \in RunIds : runs'[x].status = "absent" => coro'[x] = "none"
       /\ TaskAndRow'
  BY <1>5, <1>8 DEF RowInv, TypeOK, TaskAndRow
<1> QED
  BY <1>9, <1>10 DEF RowInv, TypeOK, Drain

LEMMA RowRefreshBoard ==
    ASSUME RowInv, RefreshBoard PROVE RowInv'
<1> DEFINE bare == {r \in Shown : CardOfRun(r) = {}}
           NumberOf(r) == NextCard + Cardinality({i \in bare : i < r})
           new == {NumberOf(r) : r \in bare}
           RunOfCard(c) == CHOOSE r \in bare : NumberOf(r) = c
           Made(c) == [status |-> BoardStatus(runs[RunOfCard(c)].status),
                       req |-> runs[RunOfCard(c)].req, acct |-> Nobody,
                       run |-> RunOfCard(c)]
           Moved(c) == [cards[c] EXCEPT !.status = BoardStatus(runs[cards[c].run].status)]
<1>1. cards' = [c \in CardIds |->
                  IF c \in new THEN Made(c)
                  ELSE IF cards[c].run \in Shown THEN Moved(c) ELSE cards[c]]
  BY DEF RefreshBoard
<1>2. \A c \in new : RunOfCard(c) \in Shown
  OBVIOUS
<1>3. \A r \in Shown : r \in RunIds /\ runs[r] \in Run /\ BoardStatus(runs[r].status) \in CardStatus
  BY BoardStatusFacts DEF Shown, RowInv, TypeOK
<1> HIDE DEF bare, NumberOf, new, RunOfCard
<1>4. \A c \in new : Made(c) \in Card
  <2>1. Nobody \in Accounts
    BY DEF Accounts
  <2> QED
    BY <1>2, <1>3, <2>1 DEF Card, Run
<1>5. \A c \in CardIds : cards[c].run \in Shown => Moved(c) \in Card
  BY <1>3 DEF RowInv, TypeOK, Card
<1>6. cards' \in [CardIds -> Card]
  <2> HIDE DEF Made, Moved
  <2> QED
    BY <1>1, <1>4, <1>5 DEF RowInv, TypeOK
<1> QED
  BY <1>6 DEF RowInv, TypeOK, TaskAndRow, RefreshBoard

LEMMA RowClaimJob ==
    ASSUME RowInv, NEW q \in Dispatched, ClaimJob(q) PROVE RowInv'
<1> DEFINE r == NextRun
           made == [NewRun(q, Owner[q], TRUE) EXCEPT !.status = "running"]
<1>1. job' \in [Dispatched -> JobStatus]
  BY DEF RowInv, TypeOK, ClaimJob, JobStatus
<1>2. CASE UNCHANGED <<runs, coro, worker>>
  BY <1>1, <1>2 DEF RowInv, TypeOK, TaskAndRow, ClaimJob
<1>3. CASE /\ r \in FreeRuns
           /\ runs' = [runs EXCEPT ![r] = made]
           /\ coro' = [coro EXCEPT ![r] = "body"]
           /\ worker' = r
  <2>1. made \in Run /\ made.status = "running" /\ made.dispatched = TRUE
    <3>1. Owner[q] \in Accounts
      BY FreeFacts DEF RowInv, Requests
    <3> QED
      BY <3>1 DEF NewRun, Run, RunStatus, Active, Requests
  <2> HIDE DEF r, made
  <2>2. r \in RunIds
    BY <1>3, FreeFacts DEF RowInv
  <2>3. runs' \in [RunIds -> Run] /\ coro' \in [RunIds -> TaskState] /\ worker' \in RunIds \cup {0}
    BY <1>3, <2>1, <2>2 DEF RowInv, TypeOK, TaskState
  <2>4. /\ \A x \in RunIds : runs'[x].status = "absent" => coro'[x] = "none"
        /\ TaskAndRow'
    BY <1>3, <2>1, <2>2 DEF RowInv, TypeOK, TaskAndRow
  <2> QED
    BY <1>1, <2>3, <2>4 DEF RowInv, TypeOK, ClaimJob
<1> QED
  BY <1>2, <1>3 DEF ClaimJob

LEMMA RowOther ==
    ASSUME RowInv,
           StartMaintenance \/ (\E q \in Dispatched : SubmitJob(q) \/ RequeueJob(q))
    PROVE  RowInv'
<1>1. UNCHANGED <<runs, coro, cancels, drops, cards, worker, asked, restarts>>
  BY DEF StartMaintenance, SubmitJob, RequeueJob
<1>2. maintenance' \in BOOLEAN /\ job' \in [Dispatched -> JobStatus]
  BY DEF RowInv, TypeOK, StartMaintenance, SubmitJob, RequeueJob, JobStatus
<1> QED
  BY <1>1, <1>2 DEF RowInv, TypeOK, TaskAndRow

LEMMA RowRestart ==
    ASSUME RowInv, Restart PROVE RowInv'
<1> DEFINE zombies == {r \in RunIds : runs[r].status = "running"}
           carded == {c \in CardIds : cards[c].status = "running" /\ cards[c].run \in zombies}
           bare == {r \in zombies : CardOfRun(r) = {}}
           NumberOf(r) == NextCard + Cardinality({i \in bare : i < r})
           new == {NumberOf(r) : r \in bare}
           RunOfCard(c) == CHOOSE r \in bare : NumberOf(r) = c
           Made(c) == [status |-> "queued", req |-> runs[RunOfCard(c)].req,
                       acct |-> Nobody, run |-> 0]
           Freed(c) == [cards[c] EXCEPT !.status = "queued", !.run = 0]
<1>1. /\ runs' = [r \in RunIds |->
                    IF r \in bare \cup {cards[c].run : c \in carded}
                    THEN Updated(r, "failed")[r] ELSE runs[r]]
      /\ cards' = [c \in CardIds |->
                     IF c \in new THEN Made(c)
                     ELSE IF c \in carded THEN Freed(c) ELSE cards[c]]
      /\ coro' = [r \in RunIds |-> "none"]
      /\ cancels' = {} /\ drops' = {} /\ worker' = 0 /\ maintenance' = FALSE
      /\ restarts < MaxRestarts /\ restarts' = restarts + 1
      /\ UNCHANGED <<job, asked>>
  BY DEF Restart
<1>2. \A c \in new : RunOfCard(c) \in RunIds
  OBVIOUS
<1>3. \A c \in CardIds : Freed(c) \in Card
  BY DEF RowInv, TypeOK, Card, CardStatus
<1> HIDE DEF zombies, carded, bare, NumberOf, new, RunOfCard
<1>4. \A c \in new : Made(c) \in Card
  <2>1. Nobody \in Accounts
    BY DEF Accounts
  <2>2. \A c \in new : runs[RunOfCard(c)] \in Run
    BY <1>2 DEF RowInv, TypeOK
  <2> QED
    BY <2>1, <2>2 DEF Card, CardStatus, Run
<1>5. cards' \in [CardIds -> Card]
  <2> HIDE DEF Made, Freed
  <2> QED
    BY <1>1, <1>3, <1>4 DEF RowInv, TypeOK
<1>6. runs' \in [RunIds -> Run]
  <2>1. \A r \in RunIds : Updated(r, "failed")[r] \in Run /\ runs[r] \in Run
    BY UpdatedFacts DEF RowInv, TypeOK, RunStatus, Terminal
  <2> QED
    BY <1>1, <2>1
<1>7. coro' \in [RunIds -> TaskState] /\ (\A r \in RunIds : coro'[r] = "none")
  BY <1>1 DEF TaskState
<1>8. restarts' \in 0..MaxRestarts
  <2>1. restarts \in 0..MaxRestarts /\ restarts < MaxRestarts /\ restarts' = restarts + 1
    BY <1>1 DEF RowInv, TypeOK
  <2> QED
    BY <2>1, HostedBounds
<1> QED
  BY <1>1, <1>5, <1>6, <1>7, <1>8 DEF RowInv, TypeOK, TaskAndRow

LEMMA RowNext ==
    ASSUME RowInv, [Next]_vars PROVE RowInv'
<1>1. CASE UNCHANGED vars
  BY <1>1 DEF vars, RowInv, TypeOK, TaskAndRow
<1>2. CASE Next
  BY <1>2, RowCreateRun, RowStartRun, RowEndRun, RowRaiseHosted, RowCancelRun, RowStopped,
     RowFinishCancel, RowDeleteSession, RowRunTooLong, RowWatchdog, RowDrain,
     RowRefreshBoard, RowClaimJob, RowOther, RowRestart DEF Next
<1> QED
  BY <1>1, <1>2

LEMMA RowInvHolds == Spec => []RowInv
<1>1. Init => RowInv
  BY RowInit
<1>2. RowInv /\ [Next]_vars => RowInv'
  BY RowNext
<1> QED
  BY <1>1, <1>2, PTL DEF Spec

\* The tables of the hosted runs are well typed, for any requests, accounts, caps and
\* numbers of rows: no handler leaves a row or a card in a state no other reads.
THEOREM TypeCorrect == Spec => []TypeOK
BY RowInvHolds, PTL DEF RowInv

\* While schedule_run's task executes a run, its row says 'running'.
THEOREM ExecutingIsRunning == Spec => []BodyIsRunning
<1>1. RowInv => BodyIsRunning
  BY DEF RowInv, TaskAndRow, BodyIsRunning
<1> QED
  BY <1>1, RowInvHolds, PTL

-----------------------------------------------------------------------------
(* Outcomes.                                                               *)

\* What a step may make of a row that has ended.
RowStands(r) ==
    runs[r].status \in Terminal /\ ~runs[r].dispatched
        => \/ runs'[r].status \in {runs[r].status, "deleted"}
           \/ runs[r].status = "failed" /\ coro[r] = "ending"

LEMMA StandsUpdated ==
    ASSUME RowInv, NEW r \in RunIds, NEW s \in RunStatus, runs' = Updated(r, s),
           runs[r].status \in Terminal /\ ~runs[r].dispatched
               => runs[r].status = "failed" /\ coro[r] = "ending"
    PROVE  \A x \in RunIds : RowStands(x)
BY UpdatedFacts DEF RowInv, RowStands

LEMMA OutcomeNext ==
    ASSUME RowInv, [Next]_vars PROVE \A r \in RunIds : RowStands(r)
<1>1. \A s \in Terminal : s \notin Active /\ s # "absent"
  BY DEF Terminal, Active
<1>2. "running" \in RunStatus /\ Terminal \subseteq RunStatus
  BY DEF RunStatus, Active
<1>3. ASSUME runs' = runs PROVE \A r \in RunIds : RowStands(r)
  BY <1>3 DEF RowStands
<1>4. CASE UNCHANGED vars
  BY <1>3, <1>4 DEF vars
<1>5. ASSUME NEW q \in Console, CreateRun(q) PROVE \A r \in RunIds : RowStands(r)
  BY <1>1, <1>3, <1>5, FreeFacts DEF CreateRun, RowStands, RowInv, TypeOK
<1>6. ASSUME NEW r \in RunIds, StartRun(r) PROVE \A x \in RunIds : RowStands(x)
  BY <1>1, <1>2, <1>6, StandsUpdated DEF StartRun, RowInv, TaskAndRow, Active, Terminal
<1>7. ASSUME NEW r \in RunIds, NEW o \in {"succeeded", "failed"}, EndRun(r, o)
      PROVE  \A x \in RunIds : RowStands(x)
  <2>1. o \in RunStatus
    BY <1>2 DEF Terminal
  <2> QED
    BY <1>7, <2>1, StandsUpdated DEF EndRun, RowInv, TaskAndRow, Terminal
<1>8. ASSUME NEW r \in RunIds, CancelRun(r) \/ Watchdog(r)
      PROVE  \A x \in RunIds : RowStands(x)
  <2>1. runs[r].status \notin Terminal
    BY <1>1, <1>8 DEF CancelRun, Watchdog
  <2>2. runs' = runs \/ runs' = Updated(r, "cancelled") \/ runs' = Updated(r, "failed")
    BY <1>8 DEF CancelRun, Watchdog
  <2> QED
    BY <1>2, <1>3, <2>1, <2>2, StandsUpdated DEF Terminal
<1>9. ASSUME NEW r \in RunIds, Stopped(r) PROVE \A x \in RunIds : RowStands(x)
  BY <1>2, <1>3, <1>9, StandsUpdated DEF Stopped, Terminal
<1>10. ASSUME NEW r \in RunIds, FinishCancel(r) \/ DeleteSession(r) \/ RunTooLong(r)
       PROVE  \A x \in RunIds : RowStands(x)
  <2>1. \A x \in RunIds : x # r => runs'[x] = runs[x]
    BY <1>2, <1>10, UpdatedFacts
       DEF FinishCancel, DeleteSession, RunTooLong, RowInv, TypeOK, Terminal
  <2>2. RowStands(r)
    <3> SUFFICES ASSUME runs[r].status \in Terminal
                 PROVE  runs'[r].status \in {runs[r].status, "deleted"}
      BY DEF RowStands
    <3>1. runs' \in {runs, [runs EXCEPT ![r].status = "deleted"]}
      BY <1>1, <1>10 DEF FinishCancel, DeleteSession, RunTooLong
    <3> QED
      BY <3>1 DEF RowInv, TypeOK, Run
  <2> QED
    BY <2>1, <2>2 DEF RowStands
<1>11. ASSUME Drain PROVE \A r \in RunIds : RowStands(r)
  <2>1. \A r \in RunIds : r \notin FreeRuns => runs'[r] = runs[r]
    BY <1>11 DEF Drain
  <2>2. \A r \in RunIds : runs[r].status \in Terminal => r \notin FreeRuns
    BY <1>1 DEF FreeRuns
  <2> QED
    BY <2>1, <2>2 DEF RowStands
<1>12. ASSUME NEW q \in Dispatched, ClaimJob(q) PROVE \A r \in RunIds : RowStands(r)
  <2>1. \A r \in RunIds : r \notin FreeRuns => runs'[r] = runs[r]
    BY <1>12 DEF ClaimJob, RowInv, TypeOK
  <2>2. \A r \in RunIds : runs[r].status \in Terminal => r \notin FreeRuns
    BY <1>1 DEF FreeRuns
  <2> QED
    BY <2>1, <2>2 DEF RowStands
<1>13. ASSUME Restart PROVE \A r \in RunIds : RowStands(r)
  <2>1. \A r \in RunIds : runs[r].status # "running" => runs'[r] = runs[r]
    BY <1>13 DEF Restart
  <2> QED
    BY <1>1, <2>1 DEF RowStands, Active
<1>14. ASSUME RaiseHosted \/ RefreshBoard \/ StartMaintenance
              \/ (\E q \in Dispatched : SubmitJob(q) \/ RequeueJob(q))
       PROVE  \A r \in RunIds : RowStands(r)
  BY <1>3, <1>14 DEF RaiseHosted, RefreshBoard, StartMaintenance, SubmitJob, RequeueJob
<1> QED
  BY <1>4, <1>5, <1>6, <1>7, <1>8, <1>9, <1>10, <1>11, <1>12, <1>13, <1>14 DEF Next

\* The outcome of a scheduled run stands, whatever cancels, deletions, timeouts,
\* refreshes and restarts come between, up to the watchdog's race with wait_for.
THEOREM OutcomesStand == Spec => OutcomeStands
<1>1. RowInv /\ [Next]_vars => [\A r \in RunIds : RowStands(r)]_vars
  BY OutcomeNext
<1> QED
  BY <1>1, RowInvHolds, PTL DEF Spec, OutcomeStands, RowStands

-----------------------------------------------------------------------------
(* Cards.                                                                  *)

\* Numbers given out in order differ.
LEMMA RanksDiffer ==
    ASSUME NEW n \in Int, NEW m \in Nat, NEW S, S \subseteq 1..m,
           NEW c \in S, NEW d \in S, c < d
    PROVE  n + Cardinality({e \in S : e < c}) # n + Cardinality({e \in S : e < d})
<1> DEFINE below == {e \in S : e < c}
           upto == {e \in S : e < d}
<1>1. IsFiniteSet(1..m) /\ (\A e \in S : e \in Int)
  BY FS_Interval
<1>2. IsFiniteSet(below) /\ IsFiniteSet(upto)
  BY <1>1, FS_Subset
<1>3. c \notin below /\ below \cup {c} \subseteq upto
  <2>1. ~(c < c) /\ (\A e \in S : e < c => e < d)
    BY <1>1
  <2> QED
    BY <2>1
<1>4. Cardinality(below \cup {c}) = Cardinality(below) + 1
  BY <1>2, <1>3, FS_AddElement
<1>5. Cardinality(below \cup {c}) <= Cardinality(upto)
  BY <1>2, <1>3, FS_Subset
<1>6. Cardinality(below) \in Nat /\ Cardinality(upto) \in Nat
  BY <1>2, FS_CardinalityType
<1> HIDE DEF below, upto
<1>7. Cardinality(below) # Cardinality(upto)
  BY <1>4, <1>5, <1>6
<1> QED
  BY <1>6, <1>7 DEF below, upto

LEMMA NumbersAreInts == NextRun \in Int
<1>1. IsFiniteSet(FreeRuns)
  <2>1. IsFiniteSet(RunIds)
    BY FS_Interval, HostedBounds DEF RunIds
  <2> QED
    BY <2>1, FS_Subset DEF FreeRuns
<1> QED
  BY <1>1, FS_CardinalityType, HostedBounds DEF NextRun

LEMMA RowsStay ==
    ASSUME RowInv, [Next]_vars, NEW r \in RunIds, runs[r].status # "absent"
    PROVE  runs'[r].status # "absent"
<1>1. \A x \in RunIds : Updated(x, "running")[r].status # "absent"
                       /\ Updated(x, "cancelled")[r].status # "absent"
                       /\ Updated(x, "failed")[r].status # "absent"
                       /\ Updated(x, "succeeded")[r].status # "absent"
  <2>1. ASSUME NEW x \in RunIds, NEW s \in RunStatus \ {"absent"}
        PROVE  Updated(x, s)[r].status # "absent"
    BY UpdatedFacts DEF RowInv
  <2> QED
    BY <2>1 DEF RunStatus, Active, Terminal
<1>2. r \notin FreeRuns
  BY DEF FreeRuns
<1>3. CASE UNCHANGED vars
  BY <1>3 DEF vars
<1>4. ASSUME NEW q \in Console, CreateRun(q) PROVE runs'[r].status # "absent"
  BY <1>2, <1>4 DEF CreateRun, RowInv, TypeOK
<1>5. ASSUME NEW x \in RunIds,
             \/ StartRun(x) \/ CancelRun(x) \/ Stopped(x) \/ Watchdog(x)
             \/ \E o \in {"succeeded", "failed"} : EndRun(x, o)
      PROVE  runs'[r].status # "absent"
  BY <1>1, <1>5 DEF StartRun, EndRun, CancelRun, Stopped, Watchdog
<1>6. ASSUME NEW x \in RunIds, FinishCancel(x) \/ DeleteSession(x) \/ RunTooLong(x)
      PROVE  runs'[r].status # "absent"
  <2>1. PICK m \in {runs, Updated(x, "cancelled")} :
            runs' \in {m, [m EXCEPT ![x].status = "deleted"], [m EXCEPT ![x].old = TRUE]}
    BY <1>6 DEF FinishCancel, DeleteSession, RunTooLong
  <2>2. m \in [RunIds -> Run] /\ m[r].status # "absent"
    BY <1>1, UpdatedFacts DEF RowInv, TypeOK, RunStatus, Terminal
  <2> QED
    BY <2>1, <2>2 DEF Run
<1>7. ASSUME Drain PROVE runs'[r].status # "absent"
  BY <1>2, <1>7 DEF Drain
<1>8. ASSUME NEW q \in Dispatched, ClaimJob(q) PROVE runs'[r].status # "absent"
  BY <1>2, <1>8 DEF ClaimJob, RowInv, TypeOK
<1>9. ASSUME Restart PROVE runs'[r].status # "absent"
  BY <1>1, <1>9 DEF Restart
<1>10. ASSUME RaiseHosted \/ RefreshBoard \/ StartMaintenance
              \/ (\E q \in Dispatched : SubmitJob(q) \/ RequeueJob(q))
       PROVE  runs'[r].status # "absent"
  BY <1>10 DEF RaiseHosted, RefreshBoard, StartMaintenance, SubmitJob, RequeueJob
<1> QED
  BY <1>3, <1>4, <1>5, <1>6, <1>7, <1>8, <1>9, <1>10 DEF Next

LEMMA CardsKept ==
    ASSUME RowInv, CardPerRun, CardsHaveRuns, [Next]_vars,
           \A c \in CardIds : cards'[c].run \in {cards[c].run, 0}
    PROVE  CardPerRun' /\ CardsHaveRuns'
<1>1. CardPerRun'
  BY DEF CardPerRun
<1>2. CardsHaveRuns'
  <2>1. \A c \in CardIds : cards[c].run \in RunIds \cup {0}
    BY DEF RowInv, TypeOK, Card
  <2> QED
    BY <2>1, RowsStay DEF CardsHaveRuns
<1> QED
  BY <1>1, <1>2

LEMMA CardsDrain ==
    ASSUME RowInv, CardPerRun, CardsHaveRuns, Drain
    PROVE  CardPerRun' /\ CardsHaveRuns'
<1>0. PICK taken \in Drained :
        LET RunOf(c) == NextRun + Cardinality({d \in taken : d < c})
            new == {RunOf(c) : c \in taken}
            CardOf(r) == CHOOSE c \in taken : RunOf(c) = r
        IN  /\ new \subseteq FreeRuns
            /\ runs' = [r \in RunIds |->
                          IF r \in new
                          THEN NewRun(cards[CardOf(r)].req, cards[CardOf(r)].acct, FALSE)
                          ELSE runs[r]]
            /\ cards' = [c \in CardIds |->
                           IF c \in taken
                           THEN [cards[c] EXCEPT !.status = "running", !.run = RunOf(c)]
                           ELSE cards[c]]
  BY DEF Drain
<1> DEFINE RunOf(c) == NextRun + Cardinality({d \in taken : d < c})
<1>1. taken \subseteq CardIds
  BY DEF Drained, Waiting
<1>2. \A c \in taken : RunOf(c) \in RunIds /\ runs[RunOf(c)].status = "absent"
                        /\ runs'[RunOf(c)].status = "queued"
  <2>1. \A c \in taken : RunOf(c) \in FreeRuns /\ runs'[RunOf(c)].status = "queued"
    BY <1>0, FreeFacts DEF RowInv, NewRun
  <2> QED
    BY <2>1, FreeFacts DEF RowInv
<1>3. \A c, d \in taken : c # d => RunOf(c) # RunOf(d)
  <2>1. \A c, d \in taken : c < d => RunOf(c) # RunOf(d)
    BY <1>1, RanksDiffer, NumbersAreInts, HostedBounds DEF CardIds
  <2>2. \A c, d \in taken : c # d => c < d \/ d < c
    BY <1>1, HostedBounds DEF CardIds
  <2> QED
    BY <2>1, <2>2
<1> HIDE DEF RunOf
<1>4. \A c \in CardIds : cards'[c].run = IF c \in taken THEN RunOf(c) ELSE cards[c].run
  BY <1>0 DEF RunOf, RowInv, TypeOK, Card
<1>5. \A c \in CardIds : cards[c].run # 0 => runs[cards[c].run].status # "absent"
  BY DEF CardsHaveRuns
<1>6. CardPerRun'
  BY <1>2, <1>3, <1>4, <1>5 DEF CardPerRun
<1>7. CardsHaveRuns'
  <2>1. \A c \in CardIds : cards[c].run \in RunIds \cup {0}
    BY DEF RowInv, TypeOK, Card
  <2>2. \A r \in RunIds : runs[r].status # "absent" => runs'[r].status # "absent"
    BY RowsStay DEF Next
  <2> QED
    BY <1>2, <1>4, <1>5, <2>1, <2>2 DEF CardsHaveRuns
<1> QED
  BY <1>6, <1>7

LEMMA CardsRefresh ==
    ASSUME RowInv, CardPerRun, CardsHaveRuns, RefreshBoard
    PROVE  CardPerRun' /\ CardsHaveRuns'
<1> DEFINE bare == {r \in Shown : CardOfRun(r) = {}}
           NumberOf(r) == NextCard + Cardinality({i \in bare : i < r})
           new == {NumberOf(r) : r \in bare}
           RunOfCard(c) == CHOOSE r \in bare : NumberOf(r) = c
<1>1. /\ runs' = runs
      /\ cards' = [c \in CardIds |->
                     IF c \in new
                     THEN [status |-> BoardStatus(runs[RunOfCard(c)].status),
                           req |-> runs[RunOfCard(c)].req, acct |-> Nobody,
                           run |-> RunOfCard(c)]
                     ELSE IF cards[c].run \in Shown
                     THEN [cards[c] EXCEPT !.status = BoardStatus(runs[cards[c].run].status)]
                     ELSE cards[c]]
  BY DEF RefreshBoard
<1>2. \A c \in new : RunOfCard(c) \in bare /\ NumberOf(RunOfCard(c)) = c
  OBVIOUS
<1> HIDE DEF new, RunOfCard, NumberOf
<1>3. \A c, d \in new : RunOfCard(c) = RunOfCard(d) => c = d
  BY <1>2
<1>4. \A c \in CardIds : cards'[c].run = IF c \in new THEN RunOfCard(c) ELSE cards[c].run
  BY <1>1 DEF RowInv, TypeOK, Card
<1>5. \A c \in new : /\ RunOfCard(c) \in RunIds
                     /\ runs[RunOfCard(c)].status # "absent"
                     /\ \A d \in CardIds : cards[d].run # RunOfCard(c)
  BY <1>2 DEF Shown, CardOfRun, Active, Terminal
<1>6. CardPerRun'
  BY <1>3, <1>4, <1>5 DEF CardPerRun
<1>7. CardsHaveRuns'
  BY <1>1, <1>4, <1>5 DEF CardsHaveRuns
<1> QED
  BY <1>6, <1>7

LEMMA CardsNext ==
    ASSUME RowInv, CardPerRun, CardsHaveRuns, [Next]_vars
    PROVE  CardPerRun' /\ CardsHaveRuns'
<1>1. CASE cards' = cards
  BY <1>1, CardsKept
<1>2. ASSUME NEW q \in Console, CreateRun(q) PROVE CardPerRun' /\ CardsHaveRuns'
  <2>1. \A c \in CardIds : cards'[c].run \in {cards[c].run, 0}
    <3>1. CASE cards' = cards
      BY <3>1
    <3>2. CASE cards' = [cards EXCEPT ![NextCard] = [status |-> "queued", req |-> q,
                                                    acct |-> Owner[q], run |-> 0]]
      BY <3>2 DEF RowInv, TypeOK
    <3> QED
      BY <1>2, <3>1, <3>2 DEF CreateRun
  <2> QED
    BY <2>1, CardsKept
<1>3. ASSUME Restart PROVE CardPerRun' /\ CardsHaveRuns'
  <2>1. \A c \in CardIds : cards'[c].run \in {cards[c].run, 0}
    BY <1>3 DEF Restart, RowInv, TypeOK, Card
  <2> QED
    BY <2>1, CardsKept
<1>4. cards' = cards \/ (\E q \in Console : CreateRun(q)) \/ Restart \/ Drain \/ RefreshBoard
  BY DEF Next, vars, StartRun, EndRun, RaiseHosted, CancelRun, Stopped, FinishCancel,
     DeleteSession, RunTooLong, Watchdog, StartMaintenance, SubmitJob, ClaimJob, RequeueJob
<1> QED
  BY <1>1, <1>2, <1>3, <1>4, CardsDrain, CardsRefresh

\* No two cards ever stand for one run, however requests, the drain, refreshes and
\* recoveries make them.
THEOREM OneCardPerRun == Spec => []CardPerRun
<1> DEFINE I == RowInv /\ CardPerRun /\ CardsHaveRuns
<1>1. Init => I
  BY RowInit DEF Init, NoCard, CardPerRun, CardsHaveRuns
<1>2. I /\ [Next]_vars => I'
  BY RowNext, CardsNext
<1> QED
  BY <1>1, <1>2, PTL DEF Spec

-----------------------------------------------------------------------------
(* The cap.                                                                *)

LEMMA RowsAreFinite == IsFiniteSet(RunIds) /\ IsFiniteSet(CardIds)
BY FS_Interval, HostedBounds DEF RunIds, CardIds

\* A run stays active with its account, or stops being active.
Keeps(x) == runs'[x].status \in Active => runs[x].status \in Active /\ runs'[x].acct = runs[x].acct

LEMMA KeepsUpdated ==
    ASSUME RowInv, NEW r \in RunIds, NEW s \in RunStatus, runs' = Updated(r, s),
           s \in Active => runs[r].status \in Active
    PROVE  \A x \in RunIds : Keeps(x)
<1>1. runs[r] \in Run /\ runs \in [RunIds -> Run]
  BY DEF RowInv, TypeOK
<1>2. runs'[r].acct = runs[r].acct
  BY <1>1 DEF Updated, Run
<1>3. runs'[r].status = s \/ runs'[r].status = "deleted"
  BY UpdatedFacts DEF RowInv
<1>4. \A x \in RunIds : x # r => runs'[x] = runs[x]
  BY UpdatedFacts DEF RowInv
<1>5. QED
  BY <1>2, <1>3, <1>4 DEF Keeps, Active

\* Rows only become active where one is inserted.
LEMMA NoneAdded ==
    ASSUME RowInv, [Next]_vars,
           ~(\E q \in Console : CreateRun(q)), ~Drain, ~(\E q \in Dispatched : ClaimJob(q))
    PROVE  \A x \in RunIds : Keeps(x)
<1>1. "running" \in RunStatus /\ Terminal \subseteq RunStatus /\ \A s \in Terminal : s \notin Active
  BY DEF RunStatus, Active, Terminal
<1>2. ASSUME runs' = runs PROVE \A x \in RunIds : Keeps(x)
  BY <1>2 DEF Keeps
<1>3. ASSUME NEW r \in RunIds, StartRun(r) PROVE \A x \in RunIds : Keeps(x)
  <2>1. runs[r].status \in Active
    BY <1>3 DEF StartRun, RowInv, TaskAndRow, Active
  <2>2. runs' = Updated(r, "running") \/ runs' = Updated(r, "failed")
    BY <1>3 DEF StartRun
  <2>3. QED
    BY <1>1, <2>1, <2>2, KeepsUpdated DEF Terminal
<1>4. ASSUME NEW r \in RunIds, NEW o \in {"succeeded", "failed"}, EndRun(r, o)
      PROVE  \A x \in RunIds : Keeps(x)
  BY <1>1, <1>4, KeepsUpdated DEF EndRun, Terminal
<1>5. ASSUME NEW r \in RunIds, CancelRun(r) \/ Watchdog(r) \/ Stopped(r)
      PROVE  \A x \in RunIds : Keeps(x)
  <2>1. runs' = runs \/ runs' = Updated(r, "cancelled") \/ runs' = Updated(r, "failed")
    BY <1>5 DEF CancelRun, Watchdog, Stopped
  <2>2. QED
    BY <1>1, <1>2, <2>1, KeepsUpdated DEF Terminal
<1>6. ASSUME NEW r \in RunIds, FinishCancel(r) \/ DeleteSession(r) \/ RunTooLong(r)
      PROVE  \A x \in RunIds : Keeps(x)
  <2>1. PICK m \in {runs, Updated(r, "cancelled")} :
            runs' \in {m, [m EXCEPT ![r].status = "deleted"], [m EXCEPT ![r].old = TRUE]}
    BY <1>6 DEF FinishCancel, DeleteSession, RunTooLong
  <2>2. /\ m \in [RunIds -> Run]
        /\ \A x \in RunIds : m[x].acct = runs[x].acct /\ (m[x].status \in Active => runs[x].status \in Active)
    <3>1. CASE m = runs
      BY <3>1 DEF RowInv, TypeOK
    <3>2. CASE m = Updated(r, "cancelled")
      <4>1. runs \in [RunIds -> Run] /\ runs[r] \in Run
        BY DEF RowInv, TypeOK
      <4>2. m[r].acct = runs[r].acct
        BY <3>2, <4>1 DEF Updated, Run
      <4>3. /\ m \in [RunIds -> Run] /\ \A x \in RunIds : x # r => m[x] = runs[x]
            /\ m[r].status = "deleted" \/ m[r].status = "cancelled"
        BY <1>1, <3>2, UpdatedFacts DEF RowInv, Terminal
      <4>4. QED
        BY <4>2, <4>3 DEF Active
    <3>3. QED
      BY <3>1, <3>2
  <2>3. \A x \in RunIds : runs'[x].acct = m[x].acct /\ (runs'[x].status = m[x].status \/ runs'[x].status = "deleted")
    BY <2>1, <2>2 DEF Run
  <2>4. QED
    BY <2>2, <2>3 DEF Keeps, Active
<1>7. ASSUME Restart PROVE \A x \in RunIds : Keeps(x)
  <2>1. \A x \in RunIds : runs'[x] = runs[x] \/ runs'[x] = Updated(x, "failed")[x]
    BY <1>7 DEF Restart
  <2>2. ASSUME NEW x \in RunIds PROVE Updated(x, "failed")[x].status \notin Active
    BY <1>1, UpdatedFacts DEF RowInv, Terminal, Active
  <2>3. QED
    BY <2>1, <2>2 DEF Keeps
<1>8. ASSUME RaiseHosted \/ RefreshBoard \/ StartMaintenance \/ UNCHANGED vars
             \/ (\E q \in Dispatched : SubmitJob(q) \/ RequeueJob(q))
      PROVE  \A x \in RunIds : Keeps(x)
  BY <1>2, <1>8 DEF RaiseHosted, RefreshBoard, StartMaintenance, SubmitJob, RequeueJob, vars
<1>9. QED
  BY <1>3, <1>4, <1>5, <1>6, <1>7, <1>8 DEF Next

\* At most as many rows become active for an account as are added.
LEMMA CapKept ==
    ASSUME NEW a \in Accounts, NEW added \in SUBSET RunIds,
           Cardinality(ActiveOf(a)) + Cardinality(added) <= MaxActive,
           ActiveOf(a)' \subseteq ActiveOf(a) \cup added
    PROVE  Cardinality(ActiveOf(a)') <= MaxActive
<1>1. IsFiniteSet(ActiveOf(a)) /\ IsFiniteSet(added) /\ IsFiniteSet(ActiveOf(a) \cap added)
  BY RowsAreFinite, FS_Subset DEF ActiveOf
<1>2. /\ IsFiniteSet(ActiveOf(a) \cup added)
      /\ Cardinality(ActiveOf(a) \cup added) =
             Cardinality(ActiveOf(a)) + Cardinality(added) - Cardinality(ActiveOf(a) \cap added)
  BY <1>1, FS_Union
<1>3. /\ IsFiniteSet(ActiveOf(a)')
      /\ Cardinality(ActiveOf(a)') <= Cardinality(ActiveOf(a) \cup added)
  BY <1>2, FS_Subset
<1>4. /\ Cardinality(ActiveOf(a)') \in Nat /\ Cardinality(ActiveOf(a) \cup added) \in Nat
      /\ Cardinality(ActiveOf(a)) \in Nat /\ Cardinality(added) \in Nat
      /\ Cardinality(ActiveOf(a) \cap added) \in Nat
  BY <1>1, <1>2, <1>3, FS_CardinalityType
<1>5. QED
  BY <1>2, <1>3, <1>4, HostedBounds

LEMMA CapStays ==
    ASSUME ActiveWithinCap, NEW a \in Accounts, ActiveOf(a)' \subseteq ActiveOf(a)
    PROVE  Cardinality(ActiveOf(a)') <= MaxActive
<1>1. IsFiniteSet(ActiveOf(a))
  BY RowsAreFinite, FS_Subset DEF ActiveOf
<1>2. Cardinality(ActiveOf(a)) \in Nat /\ Cardinality({}) = 0 /\ Cardinality(ActiveOf(a)) <= MaxActive
  BY <1>1, FS_CardinalityType, FS_EmptySet DEF ActiveWithinCap
<1>3. PICK none \in SUBSET RunIds : none = {}
  OBVIOUS
<1>4. /\ Cardinality(ActiveOf(a)) + Cardinality(none) <= MaxActive
      /\ ActiveOf(a)' \subseteq ActiveOf(a) \cup none
  BY <1>2, <1>3, HostedBounds
<1>5. QED
  BY <1>4, CapKept

\* One run is inserted, for an account that is not at its cap.
LEMMA CapInserted ==
    ASSUME RowInv, ActiveWithinCap, NEW r \in RunIds, NEW q \in Requests, NEW row,
           ~AtCap(Owner[q]), row.acct = Owner[q], runs' = [runs EXCEPT ![r] = row]
    PROVE  ActiveWithinCap'
<1> SUFFICES ASSUME NEW a \in Accounts PROVE Cardinality(ActiveOf(a)') <= MaxActive
  BY DEF ActiveWithinCap, Accounts
<1>1. \A x \in RunIds : runs'[x] = IF x = r THEN row ELSE runs[x]
  BY DEF RowInv, TypeOK
<1>2. CASE a = Owner[q]
  <2>1. Cardinality(ActiveOf(a)) < MaxActive
    <3>1. Cardinality(ActiveOf(a)) \in Nat
      BY RowsAreFinite, FS_Subset, FS_CardinalityType DEF ActiveOf
    <3>2. QED
      BY <1>2, <3>1, HostedBounds DEF AtCap
  <2>2. Cardinality({r}) = 1 /\ Cardinality(ActiveOf(a)) \in Nat
    BY FS_Singleton, RowsAreFinite, FS_Subset, FS_CardinalityType DEF ActiveOf
  <2>3. Cardinality(ActiveOf(a)) + Cardinality({r}) <= MaxActive
    BY <2>1, <2>2, HostedBounds
  <2>4. ActiveOf(a)' \subseteq ActiveOf(a) \cup {r}
    BY <1>1 DEF ActiveOf
  <2>5. {r} \in SUBSET RunIds
    OBVIOUS
  <2>6. QED
    BY <2>3, <2>4, <2>5, CapKept
<1>3. CASE a # Owner[q]
  <2>1. ActiveOf(a)' \subseteq ActiveOf(a)
    BY <1>1, <1>3 DEF ActiveOf
  <2>2. QED
    BY <2>1, CapStays
<1>4. QED
  BY <1>2, <1>3

\* What the drain takes of an account fits under its cap.
LEMMA DrainFits ==
    ASSUME ActiveWithinCap, NEW a \in Accounts, NEW taken \in Drained
    PROVE  Cardinality(ActiveOf(a)) + Cardinality({c \in taken : cards[c].acct = a}) <= MaxActive
<1> DEFINE waiting == {c \in Waiting : cards[c].acct = a}
           n == Cardinality(ActiveOf(a))
           w == Cardinality(waiting)
<1>1. Cardinality(taken \cap waiting) = Min({w, Max({0, MaxActive - n})})
  BY DEF Drained
<1>2. taken \cap waiting = {c \in taken : cards[c].acct = a}
  BY DEF Drained
<1>3. n \in Nat /\ n <= MaxActive
  BY RowsAreFinite, FS_Subset, FS_CardinalityType DEF ActiveOf, ActiveWithinCap
<1>4. w \in Nat
  <2>1. waiting \subseteq CardIds
    BY DEF Waiting
  <2>2. QED
    BY <2>1, RowsAreFinite, FS_Subset, FS_CardinalityType
<1> HIDE DEF n, w, waiting
<1>5. Max({0, MaxActive - n}) = MaxActive - n
  BY <1>3, HostedBounds DEF Max
<1>6. Min({w, MaxActive - n}) <= MaxActive - n /\ Min({w, MaxActive - n}) \in Int
  BY <1>3, <1>4, HostedBounds DEF Min
<1>7. Cardinality({c \in taken : cards[c].acct = a}) = Min({w, MaxActive - n})
  BY <1>1, <1>2, <1>5
<1>8. n + Cardinality({c \in taken : cards[c].acct = a}) <= MaxActive
  BY <1>3, <1>6, <1>7, HostedBounds
<1>9. QED
  BY <1>8 DEF n

LEMMA CapDrain ==
    ASSUME RowInv, ActiveWithinCap, Drain
    PROVE  ActiveWithinCap'
<1>0. PICK taken \in Drained :
        LET RunOf(c) == NextRun + Cardinality({d \in taken : d < c})
            new == {RunOf(c) : c \in taken}
            CardOf(r) == CHOOSE c \in taken : RunOf(c) = r
        IN  /\ new \subseteq FreeRuns
            /\ runs' = [r \in RunIds |->
                          IF r \in new
                          THEN NewRun(cards[CardOf(r)].req, cards[CardOf(r)].acct, FALSE)
                          ELSE runs[r]]
  BY DEF Drain
<1> DEFINE RunOf(c) == NextRun + Cardinality({d \in taken : d < c})
           new == {RunOf(c) : c \in taken}
           CardOf(r) == CHOOSE c \in taken : RunOf(c) = r
<1>1. /\ new \subseteq RunIds
      /\ runs' = [r \in RunIds |->
                     IF r \in new
                     THEN NewRun(cards[CardOf(r)].req, cards[CardOf(r)].acct, FALSE)
                     ELSE runs[r]]
  BY <1>0 DEF FreeRuns
<1>2. \A r \in new : CardOf(r) \in taken /\ RunOf(CardOf(r)) = r
  OBVIOUS
<1> SUFFICES ASSUME NEW a \in Accounts PROVE Cardinality(ActiveOf(a)') <= MaxActive
  BY DEF ActiveWithinCap, Accounts
<1> DEFINE mine == {c \in taken : cards[c].acct = a}
           added == {RunOf(c) : c \in mine}
           f == [c \in mine |-> RunOf(c)]
<1>3. Cardinality(added) <= Cardinality(mine)
  <2>1. IsFiniteSet(mine)
    <3>1. mine \subseteq CardIds
      BY DEF Drained, Waiting
    <3>2. QED
      BY <3>1, RowsAreFinite, FS_Subset
  <2>2. f \in Surjection(mine, added)
    BY DEF Surjection
  <2>3. QED
    BY <2>1, <2>2, FS_Surjection
<1>4. added \subseteq RunIds
  BY <1>1
<1>5. ActiveOf(a)' \subseteq ActiveOf(a) \cup added
  <2>1. \A r \in RunIds : r \notin new => runs'[r] = runs[r]
    BY <1>1
  <2>2. \A r \in new : runs'[r].acct = a => r \in added
    <3>1. \A r \in new : runs'[r].acct = cards[CardOf(r)].acct
      BY <1>1 DEF NewRun
    <3>2. QED
      BY <1>2, <3>1
  <2>3. QED
    BY <2>1, <2>2 DEF ActiveOf
<1>6. Cardinality(ActiveOf(a)) + Cardinality(added) <= MaxActive
  <2>1. Cardinality(ActiveOf(a)) + Cardinality(mine) <= MaxActive
    BY DrainFits
  <2>2. /\ Cardinality(ActiveOf(a)) \in Nat /\ Cardinality(added) \in Nat
        /\ Cardinality(mine) \in Nat
    <3>1. ActiveOf(a) \subseteq RunIds /\ mine \subseteq CardIds
      BY DEF ActiveOf, Drained, Waiting
    <3>2. QED
      BY <1>4, <3>1, RowsAreFinite, FS_Subset, FS_CardinalityType
  <2>3. QED
    BY <1>3, <2>1, <2>2, HostedBounds
<1>7. QED
  BY <1>4, <1>5, <1>6, CapKept

LEMMA CapNext ==
    ASSUME RowInv, ActiveWithinCap, [Next]_vars
    PROVE  ActiveWithinCap'
<1>1. ASSUME NEW q \in Console, CreateRun(q) PROVE ActiveWithinCap'
  <2>1. CASE UNCHANGED runs
    BY <2>1 DEF ActiveWithinCap, ActiveOf, Accounts
  <2>2. CASE /\ ~AtCap(Owner[q])
             /\ NextRun \in FreeRuns
             /\ runs' = [runs EXCEPT ![NextRun] = NewRun(q, Owner[q], FALSE)]
    <3>1. NextRun \in RunIds /\ NewRun(q, Owner[q], FALSE).acct = Owner[q]
      BY <2>2 DEF FreeRuns, NewRun
    <3>2. QED
      BY <2>2, <3>1, CapInserted DEF Requests
  <2>3. QED
    BY <1>1, <2>1, <2>2 DEF CreateRun
<1>2. ASSUME NEW q \in Dispatched, ClaimJob(q) PROVE ActiveWithinCap'
  <2> DEFINE made == [NewRun(q, Owner[q], TRUE) EXCEPT !.status = "running"]
  <2>1. CASE UNCHANGED runs
    BY <2>1 DEF ActiveWithinCap, ActiveOf, Accounts
  <2>2. CASE /\ ~AtCap(Owner[q])
             /\ NextRun \in FreeRuns
             /\ runs' = [runs EXCEPT ![NextRun] = made]
    <3>1. NextRun \in RunIds /\ made.acct = Owner[q]
      BY <2>2 DEF FreeRuns, NewRun
    <3>2. QED
      BY <2>2, <3>1, CapInserted DEF Requests
  <2>3. QED
    BY <1>2, <2>1, <2>2 DEF ClaimJob
<1>3. ASSUME \A x \in RunIds : Keeps(x) PROVE ActiveWithinCap'
  <2> SUFFICES ASSUME NEW a \in Accounts PROVE Cardinality(ActiveOf(a)') <= MaxActive
    BY DEF ActiveWithinCap, Accounts
  <2>1. ActiveOf(a)' \subseteq ActiveOf(a)
    BY <1>3 DEF ActiveOf, Keeps
  <2>2. QED
    BY <2>1, CapStays
<1>4. QED
  BY <1>1, <1>2, <1>3, CapDrain, NoneAdded

\* No account has more active runs than its cap, however runs are requested,
\* drained, claimed, cancelled, timed out and interrupted by restarts.
THEOREM CapIsKept == Spec => []ActiveWithinCap
<1>1. Init => ActiveWithinCap
  <2> SUFFICES ASSUME Init, NEW a \in Accounts PROVE Cardinality(ActiveOf(a)) <= MaxActive
    BY DEF ActiveWithinCap
  <2>1. ActiveOf(a) = {}
    BY DEF Init, ActiveOf, NoRun, Active
  <2>2. QED
    BY <2>1, FS_EmptySet, HostedBounds
<1>2. RowInv /\ ActiveWithinCap /\ [Next]_vars => ActiveWithinCap'
  BY CapNext
<1>3. QED
  BY <1>1, <1>2, RowInvHolds, PTL DEF Spec
=============================================================================
