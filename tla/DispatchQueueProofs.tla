------------------------- MODULE DispatchQueueProofs -------------------------
(***************************************************************************)
(* Proofs about DispatchQueue, for every set of engines, agents and teams, *)
(* every policy, every set of request bodies and all timeouts.             *)
(*                                                                         *)
(* The inductive invariant is about rows: RowOK says what a row may look   *)
(* like on its own, WorkOK ties the rows to what the executors hold.  The  *)
(* lemmas about the UPDATEs come first, then one lemma per group of        *)
(* actions, then the theorems; the refinement of the ledger is the second  *)
(* half.                                                                   *)
(***************************************************************************)
EXTENDS DispatchQueue, TLAPS

Entitled(x, row) ==
    \/ x \in Engines /\ Matches(x, row)
    \/ x \in Agents /\ x = row.to.agent

RowOK(row) ==
    /\ row \in Job
    /\ row.status \in {"absent", "queued"} => row.lease = None
    /\ row.status \in {"leased", "running"} => row.lease # None
    /\ row.lease # None => Entitled(row.lease, row)
    /\ row.status = "absent" => row.parent = 0
    /\ row.parent # 0 => row.next = Nobody

TableOK(t) == t \in Table /\ \A j \in JobIds : RowOK(t[j])

\* What an executor holds, and the queue never took back, was leased to it and
\* has not returned to the queue.
Held(t, w, r) ==
    \A x \in Executors : \A j \in w[x] \ r :
        t[j].status \notin {"absent", "queued"} /\ t[j].lease = x

WorkOK ==
    /\ work \in [Executors -> SUBSET JobIds]
    /\ redo \subseteq JobIds
    /\ Held(jobs, work, redo)

IInv ==
    /\ TableOK(jobs)
    /\ tod \in 0..(DAY - 1)
    /\ active \subseteq Agents
    /\ doctors \subseteq Engines
    /\ WorkOK

-----------------------------------------------------------------------------
(* Rows.                                                                   *)

LEMMA NewRowOK ==
    ASSUME NEW to \in Target, NEW next \in Target, NEW parent \in JobIds \cup {0},
           parent # 0 => next = Nobody
    PROVE  RowOK([status |-> "queued", to |-> to, next |-> next,
                  parent |-> parent, lease |-> None, age |-> 0])
<1>1. 0 \in 0..AgeCap
  BY DispatchTimes DEF AgeCap
<1>2. QED
  BY <1>1 DEF RowOK, Job, Live, Terminal

LEMMA LeasedOK ==
    ASSUME NEW row, RowOK(row), NEW x \in Executors, Entitled(x, row)
    PROVE  RowOK(Leased(row, x)) /\ RowOK(Running(row, x))
<1>1. 0 \in 0..AgeCap
  BY DispatchTimes DEF AgeCap
<1>2. x # None
  BY DispatchNames
<1>3. QED
  BY <1>1, <1>2
     DEF RowOK, Job, Live, Terminal, Leased, Running, Entitled, Matches

LEMMA RequeuedOK ==
    ASSUME NEW row, RowOK(row)
    PROVE  RowOK(Requeued(row))
<1>1. 0 \in 0..AgeCap
  BY DispatchTimes DEF AgeCap
<1>2. QED
  BY <1>1 DEF RowOK, Job, Live, Terminal, Requeued

LEMMA FinishedOK ==
    ASSUME NEW row, RowOK(row), NEW outcome \in Terminal
    PROVE  RowOK(Finished(row, outcome))
<1>1. 0 \in 0..AgeCap
  BY DispatchTimes DEF AgeCap
<1>2. QED
  BY <1>1
     DEF RowOK, Job, Live, Terminal, Finished, Entitled, Matches

LEMMA AgedOK ==
    ASSUME NEW row, RowOK(row)
    PROVE  RowOK(Aged(row))
<1>1. row.age < AgeCap => row.age + 1 \in 0..AgeCap
  BY DispatchTimes DEF RowOK, Job, AgeCap
<1>2. QED
  BY <1>1 DEF RowOK, Job, Live, Terminal, Aged, Entitled, Matches

\* _requeue_stale either leaves a row alone or, if it was leased or running,
\* puts it back in the queue.
LEMMA SweptRows ==
    ASSUME NEW t, TableOK(t), NEW s
    PROVE  /\ TableOK(RequeueStale(t, s))
           /\ \A j \in JobIds :
                 \/ RequeueStale(t, s)[j] = t[j] /\ ~Stale(t[j], s)
                 \/ /\ Stale(t[j], s)
                    /\ t[j].status \in {"leased", "running"}
                    /\ RequeueStale(t, s)[j] = Requeued(t[j])
<1>1. ASSUME NEW j \in JobIds
      PROVE  RowOK(RequeueStale(t, s)[j])
  BY <1>1, RequeuedOK DEF TableOK, RequeueStale
<1>2. \A j \in JobIds : RequeueStale(t, s)[j] \in Job
  BY <1>1 DEF RowOK
<1>3. RequeueStale(t, s) \in Table
  BY <1>2 DEF Table, RequeueStale
<1>4. QED
  BY <1>1, <1>3 DEF TableOK, RequeueStale, Stale, LeaseExpired, RunningStale

-----------------------------------------------------------------------------
(* Rows against what is held.                                              *)

Hands == [Executors -> SUBSET JobIds]

\* Reading a table with one row replaced.
LEMMA ReplaceRow ==
    ASSUME NEW t, TableOK(t), NEW j \in JobIds, NEW row, RowOK(row)
    PROVE  /\ TableOK([t EXCEPT ![j] = row])
           /\ [t EXCEPT ![j] = row][j] = row
           /\ \A i \in JobIds : i # j => [t EXCEPT ![j] = row][i] = t[i]
BY DEF TableOK, Table, RowOK

\* A job nobody may hold is given to x, whether or not x hears of it.
LEMMA GiveRow ==
    ASSUME NEW t, TableOK(t), NEW w \in Hands, NEW r, Held(t, w, r),
           NEW j \in JobIds, t[j].status \in {"absent", "queued"},
           NEW x \in Executors, NEW row, RowOK(row),
           row.lease = x, row.status \notin {"absent", "queued"}
    PROVE  /\ Held([t EXCEPT ![j] = row], w, r)
           /\ Held([t EXCEPT ![j] = row], [w EXCEPT ![x] = @ \cup {j}], r)
           /\ [w EXCEPT ![x] = @ \cup {j}] \in Hands
<1> DEFINE u == [t EXCEPT ![j] = row]
           v == [w EXCEPT ![x] = @ \cup {j}]
<1>1. u[j] = row /\ \A i \in JobIds : i # j => u[i] = t[i]
  BY DEF TableOK, Table
<1>2. \A y \in Executors : j \notin w[y] \ r
  BY DEF Held
<1>3. v \in Hands /\ \A y \in Executors : v[y] = IF y = x THEN w[y] \cup {j} ELSE w[y]
  BY DEF Hands
<1>4. \A y \in Executors : w[y] \subseteq JobIds
  BY DEF Hands
<1> HIDE DEF u, v
<1>5. Held(u, w, r)
  BY <1>1, <1>2, <1>4 DEF Held
<1>6. Held(u, v, r)
  <2> SUFFICES ASSUME NEW y \in Executors, NEW i \in v[y] \ r
               PROVE  u[i].status \notin {"absent", "queued"} /\ u[i].lease = y
    BY DEF Held
  <2>1. CASE i = j
    <3>1. y = x
      BY <1>2, <1>3, <2>1
    <3>2. QED
      BY <1>1, <2>1, <3>1
  <2>2. CASE i # j
    <3>1. i \in w[y] \ r /\ i \in JobIds
      BY <1>3, <1>4, <2>2
    <3>2. QED
      BY <1>1, <2>2, <3>1 DEF Held
  <2>3. QED
    BY <2>1, <2>2
<1>7. QED
  BY <1>3, <1>5, <1>6 DEF u, v

\* A job that keeps its holder, or had none and gets none.
LEMMA KeepRow ==
    ASSUME NEW t, TableOK(t), NEW w \in Hands, NEW r, Held(t, w, r),
           NEW j \in JobIds, NEW row, RowOK(row),
           row.lease = t[j].lease, row.status \notin {"absent", "queued"}
    PROVE  Held([t EXCEPT ![j] = row], w, r)
<1> DEFINE u == [t EXCEPT ![j] = row]
<1>1. u[j] = row /\ \A i \in JobIds : i # j => u[i] = t[i]
  BY DEF TableOK, Table
<1>2. \A y \in Executors : w[y] \subseteq JobIds
  BY DEF Hands
<1> HIDE DEF u
<1>3. Held(u, w, r)
  BY <1>1, <1>2 DEF Held
<1>4. QED
  BY <1>3 DEF u

\* A new row.
LEMMA FreshRow ==
    ASSUME NEW t, TableOK(t), NEW w \in Hands, NEW r, Held(t, w, r),
           NEW k \in JobIds, t[k].status = "absent",
           NEW to \in Target, NEW next \in Target, NEW parent \in JobIds \cup {0},
           parent # 0 => next = Nobody
    PROVE  /\ TableOK(Insert(t, k, to, next, parent))
           /\ Held(Insert(t, k, to, next, parent), w, r)
           /\ Insert(t, k, to, next, parent)[k].status = "queued"
           /\ Insert(t, k, to, next, parent)[k].to = to
<1> DEFINE row == [status |-> "queued", to |-> to, next |-> next,
                   parent |-> parent, lease |-> None, age |-> 0]
           u == [t EXCEPT ![k] = row]
<1>1. RowOK(row)
  BY NewRowOK
<1>2. u[k] = row /\ \A i \in JobIds : i # k => u[i] = t[i]
  BY DEF TableOK, Table
<1>3. \A y \in Executors : w[y] \subseteq JobIds /\ k \notin w[y] \ r
  BY DEF Hands, Held
<1>4. TableOK(u)
  BY <1>1, ReplaceRow
<1> HIDE DEF u
<1>5. Held(u, w, r)
  BY <1>2, <1>3 DEF Held
<1>6. QED
  BY <1>2, <1>4, <1>5 DEF u, Insert

\* Forgetting work is always safe.
LEMMA FewerHands ==
    ASSUME NEW t, NEW w, NEW v, NEW r, Held(t, w, r),
           \A x \in Executors : v[x] \subseteq w[x]
    PROVE  Held(t, v, r)
BY DEF Held

LEMMA ReportedHands ==
    ASSUME work \in Hands, NEW x, NEW j
    PROVE  /\ Reported(x, j) \in Hands
           /\ \A y \in Executors : Reported(x, j)[y] \subseteq work[y]
BY DEF Hands, Reported

\* The sweep at the head of a lease.
LEMMA SweepHeld ==
    ASSUME NEW t, TableOK(t), NEW w \in Hands, NEW r, Held(t, w, r), NEW s
    PROVE  Held(RequeueStale(t, s), w, r \cup {j \in JobIds : Stale(t[j], s)})
<1>1. \A y \in Executors : w[y] \subseteq JobIds
  BY DEF Hands
<1>2. \A j \in JobIds : ~Stale(t[j], s) => RequeueStale(t, s)[j] = t[j]
  BY SweptRows
<1>3. QED
  BY <1>1, <1>2 DEF Held

-----------------------------------------------------------------------------
(* Actions.                                                                *)

\* What the actions have to preserve of the table and the executors' work.
GoodNext ==
    /\ TableOK(jobs')
    /\ work' \in Hands
    /\ redo' \subseteq JobIds
    /\ Held(jobs', work', redo')

LEMMA IInvFacts ==
    ASSUME IInv
    PROVE  /\ TableOK(jobs)
           /\ work \in Hands
           /\ redo \subseteq JobIds
           /\ Held(jobs, work, redo)
BY DEF IInv, WorkOK, Hands

LEMMA OfferGood ==
    ASSUME NEW t, TableOK(t), NEW left \in Hands, Held(t, left, redo),
           redo \subseteq JobIds, doctors \subseteq Engines,
           NEW k \in JobIds, t[k].status = "queued",
           Offer(t, k, left)
    PROVE  GoodNext
<1> DEFINE live == {e \in doctors : Matches(e, t[k])}
<1>1. CASE live = {}
  BY <1>1 DEF Offer, GoodNext
<1>2. CASE live # {}
  <2> DEFINE u == RequeueStale(t, tod)
             r == redo \cup {j \in JobIds : Stale(t[j], tod)}
  <2>1. PICK e \in live :
          /\ jobs' = [u EXCEPT ![k] = Leased(u[k], e)]
          /\ work' = [left EXCEPT ![e] = @ \cup {k}]
          /\ redo' = r
    BY <1>2 DEF Offer, Sweep
  <2>2. TableOK(u) /\ u[k] = t[k]
    BY SweptRows
  <2>3. Held(u, left, r)
    BY SweepHeld
  <2>4. e \in Executors /\ Entitled(e, u[k]) /\ RowOK(u[k])
    BY <2>2 DEF Executors, Entitled, TableOK
  <2>5. RowOK(Leased(u[k], e)) /\ Leased(u[k], e).lease = e
        /\ Leased(u[k], e).status = "leased"
    <3>1. RowOK(Leased(u[k], e))
      BY <2>4, LeasedOK
    <3>2. u[k] \in Job
      BY <2>4 DEF RowOK
    <3>3. QED
      BY <3>1, <3>2 DEF Leased, Job
  <2> HIDE DEF u, r
  <2>6. TableOK(jobs')
    BY <2>1, <2>2, <2>5, ReplaceRow
  <2>7. u[k].status \in {"absent", "queued"}
    BY <2>2
  <2>8. work' \in Hands /\ Held(jobs', work', r)
    BY <2>1, <2>2, <2>3, <2>4, <2>5, <2>7, GiveRow
  <2>9. redo' \subseteq JobIds
    BY <2>1 DEF r
  <2>10. QED
    BY <2>1, <2>6, <2>8, <2>9 DEF GoodNext
<1>3. QED
  BY <1>1, <1>2

LEMMA CreateGood ==
    ASSUME IInv, NEW b \in Bodies, CreateJob(b)
    PROVE  GoodNext
<1>1. PICK k \in JobIds :
        /\ IsNewId(jobs, k)
        /\ Offer(Insert(jobs, k, b.to, b.next, 0), k, work)
  BY DEF CreateJob
<1>2. b.to \in Target /\ b.next \in Target
  BY QueueInputs
<1> DEFINE t == Insert(jobs, k, b.to, b.next, 0)
<1>3. TableOK(t) /\ Held(t, work, redo) /\ t[k].status = "queued"
  BY <1>1, <1>2, FreshRow, IInvFacts DEF IsNewId
<1> HIDE DEF t
<1>4. Offer(t, k, work)
  BY <1>1 DEF t
<1>5. QED
  BY <1>3, <1>4, OfferGood, IInvFacts DEF IInv

\* Every lease begins on a good table.
LEMMA SweptGood ==
    ASSUME IInv, Sweep(jobs)
    PROVE  /\ TableOK(swept)
           /\ Held(swept, work, redo')
           /\ redo' \subseteq JobIds
BY SweptRows, SweepHeld, IInvFacts DEF swept, Sweep

LEMMA LeasedFields ==
    ASSUME NEW row, RowOK(row), NEW x
    PROVE  /\ Leased(row, x).lease = x
           /\ Leased(row, x).status = "leased"
           /\ Running(row, x).lease = x
           /\ Running(row, x).status = "running"
BY DEF RowOK, Job, Leased, Running

LEMMA FinishedFields ==
    ASSUME NEW row, RowOK(row), NEW outcome
    PROVE  /\ Finished(row, outcome).lease = row.lease
           /\ Finished(row, outcome).status = outcome
BY DEF RowOK, Job, Finished

LEMMA LeaseGood ==
    ASSUME IInv, NEW e \in Engines, LeaseJob(e)
    PROVE  GoodNext
<1> DEFINE mine == QueuedFor(swept, e)
<1>1. Sweep(jobs)
  BY DEF LeaseJob
<1>2. TableOK(swept) /\ Held(swept, work, redo') /\ redo' \subseteq JobIds
  BY <1>1, SweptGood
<1>3. CASE mine = {} /\ jobs' = swept /\ UNCHANGED work
  BY <1>2, <1>3, IInvFacts DEF GoodNext
<1>4. ASSUME NEW j \in mine,
             jobs' = [swept EXCEPT ![j] = Leased(swept[j], e)],
             Hand(e, {j}) \/ UNCHANGED work
      PROVE  GoodNext
  <2>1. j \in JobIds /\ swept[j].status = "queued" /\ Matches(e, swept[j])
    BY <1>4 DEF QueuedFor
  <2>2. e \in Executors /\ Entitled(e, swept[j]) /\ RowOK(swept[j])
    BY <1>2, <2>1 DEF Executors, Entitled, TableOK
  <2> DEFINE row == Leased(swept[j], e)
  <2>3. RowOK(row) /\ row.lease = e /\ row.status = "leased"
    BY <2>2, LeasedOK, LeasedFields
  <2> HIDE DEF row
  <2>4. TableOK(jobs')
    BY <1>2, <1>4, <2>1, <2>3, ReplaceRow DEF row
  <2>5. /\ Held([swept EXCEPT ![j] = row], work, redo')
        /\ Held([swept EXCEPT ![j] = row], [work EXCEPT ![e] = @ \cup {j}], redo')
        /\ [work EXCEPT ![e] = @ \cup {j}] \in Hands
    BY <1>2, <2>1, <2>2, <2>3, GiveRow, IInvFacts
  <2>6. jobs' = [swept EXCEPT ![j] = row]
    BY <1>4 DEF row
  <2>7. QED
    BY <1>2, <1>4, <2>4, <2>5, <2>6, IInvFacts DEF GoodNext, Hand
<1>5. QED
  BY <1>3, <1>4 DEF LeaseJob

LEMMA AckGood ==
    ASSUME IInv, NEW e \in Engines, NEW j \in JobIds, AckJob(e, j)
    PROVE  GoodNext
<1>1. RowOK(jobs[j]) /\ jobs[j].lease = e
  BY IInvFacts DEF AckJob, TableOK, RowOK
<1>2. e \in Executors /\ e # None
  BY DispatchNames DEF Executors
<1>3. Entitled(e, jobs[j])
  BY <1>1, <1>2 DEF RowOK
<1> DEFINE row == Running(jobs[j], e)
<1>4. RowOK(row) /\ row.lease = e /\ row.status = "running"
  BY <1>1, <1>2, <1>3, LeasedOK, LeasedFields
<1>5. jobs' = [jobs EXCEPT ![j] = row] /\ work' = work /\ redo' = redo
  BY DEF AckJob
<1> HIDE DEF row
<1>6. TableOK(jobs') /\ Held(jobs', work, redo)
  BY <1>1, <1>4, <1>5, ReplaceRow, KeepRow, IInvFacts
<1>7. QED
  BY <1>5, <1>6, IInvFacts DEF GoodNext

\* complete_job's first statement, and every other move to an outcome.
LEMMA CloseGood ==
    ASSUME IInv, NEW j \in JobIds, NEW outcome \in Terminal
    PROVE  /\ TableOK([jobs EXCEPT ![j] = Finished(jobs[j], outcome)])
           /\ Held([jobs EXCEPT ![j] = Finished(jobs[j], outcome)], work, redo)
<1> DEFINE row == Finished(jobs[j], outcome)
<1>1. RowOK(jobs[j])
  BY IInvFacts DEF TableOK
<1>2. RowOK(row) /\ row.lease = jobs[j].lease /\ row.status = outcome
  BY <1>1, FinishedOK, FinishedFields
<1>3. row.status \notin {"absent", "queued"}
  BY <1>2 DEF Terminal
<1> HIDE DEF row
<1>4. TableOK([jobs EXCEPT ![j] = row]) /\ Held([jobs EXCEPT ![j] = row], work, redo)
  BY <1>2, <1>3, ReplaceRow, KeepRow, IInvFacts
<1>5. QED
  BY <1>4 DEF row

LEMMA OutcomeTerminal == \A ok \in BOOLEAN : Outcome(ok) \in Terminal
BY DEF Outcome, Terminal

\* complete_job with its follow-up.
LEMMA FollowGood ==
    ASSUME IInv, NEW j \in JobIds, jobs[j].status \in Live,
           NEW k \in JobIds, IsNewId(jobs, k)
    PROVE  /\ TableOK(Followed(j, k))
           /\ Held(Followed(j, k), work, redo)
           /\ Followed(j, k)[k].status = "queued"
<1>1. TableOK(Closed(j, TRUE)) /\ Held(Closed(j, TRUE), work, redo)
  BY CloseGood, OutcomeTerminal DEF Closed
<1>2. k # j
  BY DEF IsNewId, Live
<1>3. Closed(j, TRUE)[k] = jobs[k]
  BY <1>2, IInvFacts DEF Closed, TableOK, Table
<1>4. Closed(j, TRUE)[k].status = "absent"
  BY <1>3 DEF IsNewId
<1>5. jobs[j].next \in Target /\ Nobody \in Target /\ j \in JobIds \cup {0}
  BY IInvFacts DEF TableOK, RowOK, Job, Nobody, Target
<1> DEFINE t == Closed(j, TRUE)
           to == jobs[j].next
<1>6. /\ TableOK(t) /\ Held(t, work, redo) /\ t[k].status = "absent"
      /\ to \in Target
  BY <1>1, <1>4, <1>5
<1>7. Followed(j, k) = Insert(t, k, to, Nobody, j)
  BY DEF Followed
<1> HIDE DEF t, to
<1>8. QED
  BY <1>5, <1>6, <1>7, FreshRow, IInvFacts

\* The report may or may not be forgotten.
LEMMA ReportHands ==
    ASSUME IInv, NEW x, NEW j, NEW left \in {work, Reported(x, j)}, NEW t,
           Held(t, work, redo)
    PROVE  left \in Hands /\ Held(t, left, redo)
<1>1. \A y \in Executors : left[y] \subseteq work[y]
  BY ReportedHands, IInvFacts
<1>2. QED
  BY <1>1, ReportedHands, FewerHands, IInvFacts

LEMMA CompleteGood ==
    ASSUME IInv, NEW e \in Engines, NEW j \in JobIds, CompleteJob(e, j)
    PROVE  GoodNext
<1>1. ASSUME NEW ok \in BOOLEAN, CompleteAlone(e, j, ok)
      PROVE  GoodNext
  <2>1. TableOK(jobs') /\ Held(jobs', work, redo)
    BY <1>1, CloseGood, OutcomeTerminal DEF CompleteAlone, Closed
  <2>2. work' \in Hands /\ Held(jobs', work', redo)
    BY <1>1, <2>1, ReportHands DEF CompleteAlone
  <2>3. QED
    BY <1>1, <2>1, <2>2, IInvFacts DEF GoodNext, CompleteAlone
<1>2. ASSUME CompleteHttp(e, j)
      PROVE  GoodNext
  <2>1. jobs[j].status \in Live
    BY <1>2 DEF CompleteHttp, Reportable
  <2>2. TableOK(jobs') /\ Held(jobs', work, redo)
    BY <1>2, <2>1, FollowGood DEF CompleteHttp
  <2>3. work' \in Hands /\ Held(jobs', work', redo)
    BY <1>2, <2>2, ReportHands DEF CompleteHttp
  <2>4. QED
    BY <1>2, <2>2, <2>3, IInvFacts DEF GoodNext, CompleteHttp
<1>3. ASSUME CompleteWs(e, j)
      PROVE  GoodNext
  <2>1. jobs[j].status \in Live
    BY <1>3 DEF CompleteWs, Reportable
  <2>2. PICK k \in JobIds, left \in {work, Reported(e, j)} :
          IsNewId(jobs, k) /\ Offer(Followed(j, k), k, left)
    BY <1>3 DEF CompleteWs
  <2> DEFINE t == Followed(j, k)
  <2>3. TableOK(t) /\ Held(t, work, redo) /\ t[k].status = "queued"
    BY <2>1, <2>2, FollowGood
  <2> HIDE DEF t
  <2>4. left \in Hands /\ Held(t, left, redo)
    BY <2>3, ReportHands
  <2>5. Offer(t, k, left)
    BY <2>2 DEF t
  <2>6. QED
    BY <2>3, <2>4, <2>5, OfferGood, IInvFacts DEF IInv
<1>4. QED
  BY <1>1, <1>2, <1>3 DEF CompleteJob

LEMMA CancelGood ==
    ASSUME IInv, NEW j \in JobIds, CancelJob(j)
    PROVE  GoodNext
<1>1. "cancelled" \in Terminal
  BY DEF Terminal
<1>2. TableOK(jobs') /\ Held(jobs', work, redo)
  BY <1>1, CloseGood DEF CancelJob
<1>3. QED
  BY <1>2, IInvFacts DEF CancelJob, GoodNext

LEMMA ReportHostedGood ==
    ASSUME IInv, NEW a \in Agents, ReportHosted(a)
    PROVE  GoodNext
<1>1. PICK j \in work[a] :
        /\ work' = Reported(a, j)
        /\ \/ \E ok \in BOOLEAN : jobs' = Closed(j, ok)
           \/ /\ jobs[j].status \in Live
              /\ \E k \in JobIds : IsNewId(jobs, k) /\ jobs' = Followed(j, k)
           \/ UNCHANGED jobs
        /\ redo' = redo
  BY DEF ReportHosted, Reportable
<1>2. j \in JobIds
  BY IInvFacts DEF Hands, Executors
<1>3. TableOK(jobs') /\ Held(jobs', work, redo)
  BY <1>1, <1>2, CloseGood, OutcomeTerminal, FollowGood, IInvFacts DEF Closed
<1>4. work' \in Hands /\ Held(jobs', work', redo)
  BY <1>1, <1>3, ReportHands
<1>5. QED
  BY <1>1, <1>3, <1>4, IInvFacts DEF GoodNext

LEMMA HelloGood ==
    ASSUME IInv, NEW e \in Engines, HelloDoctor(e)
    PROVE  GoodNext
<1> DEFINE mine == QueuedFor(swept, e)
           drained == {j \in mine : Cardinality({i \in mine : i <= j}) <= DRAIN_LIMIT}
<1>1. TableOK(swept) /\ Held(swept, work, redo') /\ redo' \subseteq JobIds
  BY SweptGood DEF HelloDoctor
<1>2. \A j \in drained : /\ j \in JobIds
                         /\ swept[j].status = "queued"
                         /\ Matches(e, swept[j])
  BY DEF QueuedFor
<1>3. /\ jobs' = [j \in JobIds |-> IF j \in drained THEN Leased(swept[j], e)
                                                     ELSE swept[j]]
      /\ work' = [work EXCEPT ![e] = @ \cup drained]
  BY DEF HelloDoctor, Hand
<1> HIDE DEF drained
<1>4. e \in Executors
  BY DEF Executors
<1>5. ASSUME NEW j \in JobIds
      PROVE  RowOK(jobs'[j])
  <2>1. RowOK(swept[j])
    BY <1>1 DEF TableOK
  <2>2. CASE j \in drained
    BY <1>2, <1>3, <1>4, <2>1, <2>2, LeasedOK DEF Entitled
  <2>3. CASE j \notin drained
    BY <1>3, <2>1, <2>3
  <2>4. QED
    BY <2>2, <2>3
<1>6. TableOK(jobs')
  BY <1>3, <1>5 DEF TableOK, Table, RowOK
<1>7. work' \in Hands
  BY <1>2, <1>3, IInvFacts DEF Hands
<1>8. Held(jobs', work', redo')
  <2> SUFFICES ASSUME NEW x \in Executors, NEW j \in work'[x] \ redo'
               PROVE  /\ jobs'[j].status \notin {"absent", "queued"}
                      /\ jobs'[j].lease = x
    BY DEF Held
  <2>1. j \in JobIds
    BY <1>7 DEF Hands
  <2>2. CASE j \in drained
    <3>1. j \notin work[x]
      BY <1>1, <1>2, <2>2 DEF Held
    <3>2. x = e
      BY <1>3, <3>1, IInvFacts DEF Hands
    <3>3. QED
      BY <1>1, <1>3, <2>1, <2>2, <3>2, LeasedFields DEF TableOK
  <2>3. CASE j \notin drained
    BY <1>1, <1>3, <2>1, <2>3, IInvFacts DEF Held, Hands
  <2>4. QED
    BY <2>2, <2>3
<1>9. QED
  BY <1>1, <1>6, <1>7, <1>8 DEF GoodNext

\* Jobs nobody may hold fail together.
LEMMA FailedGood ==
    ASSUME NEW t, TableOK(t), NEW w \in Hands, NEW r, Held(t, w, r),
           NEW S, \A j \in S : j \in JobIds /\ t[j].status = "queued",
           NEW u, u = [j \in JobIds |-> IF j \in S THEN Finished(t[j], "failed")
                                                   ELSE t[j]]
    PROVE  TableOK(u) /\ Held(u, w, r)
<1>1. "failed" \in Terminal
  BY DEF Terminal
<1>2. ASSUME NEW j \in JobIds
      PROVE  RowOK(u[j])
  BY <1>1, <1>2, FinishedOK DEF TableOK
<1>3. TableOK(u)
  BY <1>2 DEF TableOK, Table, RowOK
<1>4. \A x \in Executors : \A j \in w[x] \ r : j \in JobIds /\ j \notin S
  BY DEF Held, Hands
<1>5. Held(u, w, r)
  BY <1>4 DEF Held
<1>6. QED
  BY <1>3, <1>5

LEMMA ClaimGood ==
    ASSUME IInv, NEW capped \in BOOLEAN, ClaimHosted(capped)
    PROVE  GoodNext
<1> DEFINE queued == QueuedHosted(swept)
           ready  == {j \in queued : swept[j].to.agent \in active}
           Failed(S) == [j \in JobIds |-> IF j \in S THEN Finished(swept[j], "failed")
                                                     ELSE swept[j]]
<1>1. TableOK(swept) /\ Held(swept, work, redo') /\ redo' \subseteq JobIds
  BY SweptGood DEF ClaimHosted
<1>2. \A j \in queued : j \in JobIds /\ swept[j].status = "queued"
  BY DEF QueuedHosted
<1>3. CASE jobs' = Failed(queued) /\ UNCHANGED work
  <2>1. TableOK(jobs') /\ Held(jobs', work, redo')
    BY <1>1, <1>2, <1>3, FailedGood, IInvFacts
  <2>2. QED
    BY <1>1, <1>3, <2>1, IInvFacts DEF GoodNext
<1>4. ASSUME NEW j \in ready, NEW a, a = swept[j].to.agent,
             NEW t, t = Failed({i \in queued : i < j}),
             \/ /\ jobs' = [t EXCEPT ![j] = Finished(Running(t[j], a), "failed")]
                /\ UNCHANGED work
             \/ jobs' = [t EXCEPT ![j] = Running(t[j], a)] /\ Hand(a, {j})
      PROVE  GoodNext
  <2>1. TableOK(t) /\ Held(t, work, redo')
    <3> DEFINE S == {i \in queued : i < j}
    <3>1. \A i \in S : i \in JobIds /\ swept[i].status = "queued"
      BY <1>2
    <3>2. t = [i \in JobIds |-> IF i \in S THEN Finished(swept[i], "failed")
                                           ELSE swept[i]]
      BY <1>4
    <3> HIDE DEF S
    <3>3. QED
      BY <1>1, <3>1, <3>2, FailedGood, IInvFacts
  <2>2. j \in JobIds /\ t[j] = swept[j] /\ t[j].status = "queued"
    <3>1. j \in JobIds /\ swept[j].status = "queued"
      BY <1>2, <1>4
    <3>2. ~(j < j)
      BY <3>1 DEF JobIds
    <3>3. QED
      BY <1>4, <3>1, <3>2
  <2>3. a \in Executors /\ a \in Agents /\ RowOK(t[j]) /\ Entitled(a, t[j])
    BY <1>4, <2>1, <2>2 DEF IInv, Executors, TableOK, Entitled
  <2> DEFINE row == Running(t[j], a)
             end == Finished(row, "failed")
  <2>4. RowOK(row) /\ row.lease = a /\ row.status = "running"
    BY <2>3, LeasedOK, LeasedFields
  <2>5. RowOK(end) /\ end.lease = a /\ end.status = "failed"
    <3>1. "failed" \in Terminal
      BY DEF Terminal
    <3> HIDE DEF row
    <3>2. QED
      BY <2>4, <3>1, FinishedOK, FinishedFields
  <2>6. \/ jobs' = [t EXCEPT ![j] = end] /\ UNCHANGED work
        \/ jobs' = [t EXCEPT ![j] = row] /\ Hand(a, {j})
    BY <1>4
  <2> HIDE DEF row, end
  <2>7. CASE jobs' = [t EXCEPT ![j] = end] /\ UNCHANGED work
    <3>1. TableOK(jobs') /\ Held(jobs', work, redo')
      BY <2>1, <2>2, <2>3, <2>5, <2>7, ReplaceRow, GiveRow, IInvFacts
    <3>2. QED
      BY <1>1, <2>7, <3>1, IInvFacts DEF GoodNext
  <2>8. CASE jobs' = [t EXCEPT ![j] = row] /\ Hand(a, {j})
    <3>1. TableOK(jobs')
      BY <2>1, <2>2, <2>4, <2>8, ReplaceRow
    <3>2. work' = [work EXCEPT ![a] = @ \cup {j}]
      BY <2>8 DEF Hand
    <3>3. work' \in Hands /\ Held(jobs', work', redo')
      BY <2>1, <2>2, <2>3, <2>4, <2>8, <3>2, GiveRow, IInvFacts
    <3>4. QED
      BY <1>1, <3>1, <3>3 DEF GoodNext
  <2>9. QED
    BY <2>6, <2>7, <2>8
<1>5. QED
  <2>1. CASE jobs' = Failed(queued) /\ UNCHANGED work
    BY <1>3, <2>1
  <2>2. CASE \E j \in ready :
               LET a == swept[j].to.agent
                   t == Failed({i \in queued : i < j})
               IN  \/ /\ jobs' = [t EXCEPT ![j] = Finished(Running(t[j], a), "failed")]
                      /\ UNCHANGED work
                   \/ jobs' = [t EXCEPT ![j] = Running(t[j], a)] /\ Hand(a, {j})
    BY <1>4, <2>2
  <2>3. QED
    BY <2>1, <2>2 DEF ClaimHosted

LEMMA RestartGood ==
    ASSUME IInv, Restart
    PROVE  GoodNext
<1>1. TableOK(jobs') /\ Held(jobs', work, redo)
  <2>1. CASE UNCHANGED jobs
    BY <2>1, IInvFacts
  <2>2. CASE \E x \in Executors : \E j \in work[x] : jobs' = Closed(j, TRUE)
    <3>1. PICK j \in JobIds : jobs' = Closed(j, TRUE)
      BY <2>2, IInvFacts DEF Hands
    <3>2. QED
      BY <3>1, CloseGood, OutcomeTerminal DEF Closed
  <2>3. QED
    BY <2>1, <2>2 DEF Restart
<1>2. work' \in Hands /\ \A x \in Executors : work'[x] \subseteq work[x]
  BY IInvFacts DEF Restart, Hands
<1>3. Held(jobs', work', redo)
  BY <1>1, <1>2, FewerHands
<1>4. QED
  BY <1>1, <1>2, <1>3, IInvFacts DEF GoodNext, Restart

LEMMA TickGood ==
    ASSUME IInv, Tick
    PROVE  GoodNext
<1>1. jobs' = [j \in JobIds |-> Aged(jobs[j])] /\ work' = work /\ redo' = redo
  BY DEF Tick
<1>2. ASSUME NEW j \in JobIds
      PROVE  RowOK(jobs'[j])
  BY <1>1, <1>2, AgedOK, IInvFacts DEF TableOK
<1>3. TableOK(jobs')
  BY <1>1, <1>2 DEF TableOK, Table, RowOK
<1>4. \A j \in JobIds : /\ jobs'[j].status = jobs[j].status
                        /\ jobs'[j].lease = jobs[j].lease
  BY <1>1, IInvFacts DEF TableOK, RowOK, Job, Aged
<1>5. Held(jobs', work', redo')
  BY <1>1, <1>4, IInvFacts DEF Held, Hands
<1>6. QED
  BY <1>1, <1>3, <1>5, IInvFacts DEF GoodNext

LEMMA QuietGood ==
    ASSUME IInv, UNCHANGED <<jobs, redo>>,
           work' = work \/ \E x, j : work' = Reported(x, j)
    PROVE  GoodNext
<1>1. work' \in Hands /\ \A x \in Executors : work'[x] \subseteq work[x]
  BY ReportedHands, IInvFacts
<1>2. Held(jobs, work', redo)
  BY <1>1, FewerHands, IInvFacts
<1>3. QED
  BY <1>1, <1>2, IInvFacts DEF GoodNext

-----------------------------------------------------------------------------
(* The invariant, and what follows from it.                                *)

LEMMA InitIInv == Init => IInv
<1> SUFFICES ASSUME Init
             PROVE  IInv
  OBVIOUS
<1>1. RowOK(NoJob)
  <2>1. 0 \in 0..AgeCap
    BY DispatchTimes DEF AgeCap
  <2>2. QED
    BY <2>1 DEF RowOK, NoJob, Job, Target, Nobody
<1>2. TableOK(jobs)
  BY <1>1 DEF Init, TableOK, Table, RowOK
<1>3. tod \in 0..(DAY - 1)
  BY DispatchTimes DEF Init
<1>4. QED
  BY <1>2, <1>3 DEF Init, IInv, WorkOK, Held

LEMMA GoodIInv ==
    ASSUME IInv, GoodNext, tod' \in 0..(DAY - 1), active' \subseteq Agents,
           doctors' \subseteq Engines
    PROVE  IInv'
BY DEF GoodNext, IInv, WorkOK, Hands

LEMMA NextGood ==
    ASSUME IInv, [Next]_vars
    PROVE  GoodNext
<1>1. ASSUME NEW b \in Bodies, CreateJob(b)
      PROVE  GoodNext
  BY <1>1, CreateGood
<1>2. ASSUME NEW e \in Engines, NEW b \in Bodies, CreateFromEngine(e, b)
      PROVE  GoodNext
  BY <1>2, CreateGood DEF CreateFromEngine
<1>3. ASSUME NEW x, NEW j, LoseWork(x, j)
      PROVE  GoodNext
  BY <1>3, QuietGood DEF LoseWork
<1>4. ASSUME NEW e, \/ SetAgentStatus(e)
                    \/ ConnectDoctor(e)
                    \/ DisconnectDoctor(e)
                    \/ UNCHANGED vars
      PROVE  GoodNext
  BY <1>4, QuietGood
     DEF SetAgentStatus, ConnectDoctor, DisconnectDoctor, vars
<1>5. QED
  BY <1>1, <1>2, <1>3, <1>4, LeaseGood, AckGood, CompleteGood, CancelGood,
     ClaimGood, ReportHostedGood, HelloGood, RestartGood, TickGood DEF Next

LEMMA NextIInv == IInv /\ [Next]_vars => IInv'
<1> SUFFICES ASSUME IInv, [Next]_vars
             PROVE  IInv'
  OBVIOUS
<1>1. GoodNext
  BY NextGood
<1>2. tod' = tod \/ tod' = (tod + 1) % DAY
  BY DEF Next, vars, CreateJob, CreateFromEngine, LeaseJob, AckJob, CompleteJob,
         CancelJob, ClaimHosted, ReportHosted, SetAgentStatus, ConnectDoctor,
         HelloDoctor, DisconnectDoctor, LoseWork, Restart, Tick
<1>3. tod' \in 0..(DAY - 1)
  BY <1>2, DispatchTimes DEF IInv
<1>4. active' = active \/ \E a \in Agents : active' \in {active \ {a}, active \cup {a}}
  BY DEF Next, vars, CreateJob, CreateFromEngine, LeaseJob, AckJob, CompleteJob,
         CancelJob, ClaimHosted, ReportHosted, SetAgentStatus, ConnectDoctor,
         HelloDoctor, DisconnectDoctor, LoseWork, Restart, Tick
<1>5. \/ doctors' = doctors
      \/ doctors' = {}
      \/ \E e \in Engines : doctors' \in {doctors \ {e}, doctors \cup {e}}
  BY DEF Next, vars, CreateJob, CreateFromEngine, LeaseJob, AckJob, CompleteJob,
         CancelJob, ClaimHosted, ReportHosted, SetAgentStatus, ConnectDoctor,
         HelloDoctor, DisconnectDoctor, LoseWork, Restart, Tick
<1>6. QED
  BY <1>1, <1>3, <1>4, <1>5, GoodIInv DEF IInv

\* The invariant of rows and work holds in every reachable state.
THEOREM Invariance == Spec => []IInv
BY InitIInv, NextIInv, PTL DEF Spec

\* The table is well typed, whatever the handlers do in whatever order.
THEOREM TypeCorrect == Spec => []TypeOK
<1>1. IInv => TypeOK
  BY DEF IInv, TableOK, WorkOK, TypeOK
<1>2. QED
  BY <1>1, Invariance, PTL

\* A leased or running job has a holder, a queued one has none.
THEOREM LeaseDiscipline == Spec => []LeaseMatchesStatus
<1>1. IInv => LeaseMatchesStatus
  BY DEF IInv, TableOK, RowOK, LeaseMatchesStatus
<1>2. QED
  BY <1>1, Invariance, PTL

\* Every holder is one the job's target columns name.
THEOREM OnlyTargetsHold == Spec => []HolderIsTarget
<1>1. IInv => HolderIsTarget
  BY DEF IInv, TableOK, RowOK, Entitled, HolderIsTarget
<1>2. QED
  BY <1>1, Invariance, PTL

\* A job that no timeout has taken back is in one executor's hands at most:
\* two executors that hold it would both be its lease holder.
THEOREM NoDoubleHandOut == Spec => []HandedOutOnce
<1>1. IInv => HandedOutOnce
  BY DEF IInv, WorkOK, Held, HandedOutOnce
<1>2. QED
  BY <1>1, Invariance, PTL

-----------------------------------------------------------------------------
(* Who holds a job from one step to the next.  Only rows in the queue are  *)
(* given to somebody, and the sweep alone puts rows back there.            *)

KeepsHolder(row, new) ==
    \/ row.lease = None
    \/ new.lease \in {None, row.lease}
    \/ Stale(row, tod)

HoldersKept(t, u) == \A j \in JobIds : KeepsHolder(t[j], u[j])

\* What a lease writes over the swept table takes no job from its holder.
LEMMA SweptKept ==
    ASSUME NEW t, TableOK(t), NEW u,
           \A j \in JobIds :
               \/ RequeueStale(t, tod)[j].status = "queued"
               \/ u[j].lease = RequeueStale(t, tod)[j].lease
    PROVE  HoldersKept(t, u)
<1> SUFFICES ASSUME NEW j \in JobIds
             PROVE  KeepsHolder(t[j], u[j])
  BY DEF HoldersKept
<1>1. RowOK(t[j])
  BY DEF TableOK
<1>2. CASE Stale(t[j], tod)
  BY <1>2 DEF KeepsHolder
<1>3. CASE RequeueStale(t, tod)[j] = t[j]
  BY <1>1, <1>3 DEF RowOK, KeepsHolder
<1>4. QED
  BY <1>2, <1>3, SweptRows

LEMMA OfferKept ==
    ASSUME NEW t, TableOK(t), NEW k \in JobIds, t[k].status = "queued",
           NEW left, Offer(t, k, left)
    PROVE  HoldersKept(t, jobs')
<1> DEFINE live == {e \in doctors : Matches(e, t[k])}
           u == RequeueStale(t, tod)
<1>1. CASE live = {}
  BY <1>1 DEF Offer, HoldersKept, KeepsHolder
<1>2. CASE live # {}
  <2>1. PICK e \in live : jobs' = [u EXCEPT ![k] = Leased(u[k], e)]
    BY <1>2 DEF Offer
  <2>2. TableOK(u) /\ u[k].status = "queued"
    BY SweptRows
  <2>3. \A j \in JobIds : j # k => jobs'[j] = u[j]
    BY <2>1, <2>2 DEF TableOK, Table
  <2>4. QED
    BY <2>2, <2>3, SweptKept
<1>3. QED
  BY <1>1, <1>2

\* v differs from t in rows nobody has and in rows that end with their holder;
\* what the next step takes from v it takes from t.
LEMMA ThenKept ==
    ASSUME NEW t, NEW v, NEW u, HoldersKept(v, u),
           \A j \in JobIds : \/ t[j].lease = None
                             \/ v[j] = t[j]
                             \/ /\ v[j].lease = t[j].lease
                                /\ ~Stale(v[j], tod)
    PROVE  HoldersKept(t, u)
BY DEF HoldersKept, KeepsHolder

LEMMA CreateKept ==
    ASSUME IInv, NEW b \in Bodies, CreateJob(b)
    PROVE  HoldersKept(jobs, jobs')
<1>1. PICK k \in JobIds :
        /\ IsNewId(jobs, k)
        /\ Offer(Insert(jobs, k, b.to, b.next, 0), k, work)
  BY DEF CreateJob
<1>2. b.to \in Target /\ b.next \in Target
  BY QueueInputs
<1> DEFINE t == Insert(jobs, k, b.to, b.next, 0)
<1>3. TableOK(t) /\ t[k].status = "queued"
  BY <1>1, <1>2, FreshRow, IInvFacts DEF IsNewId
<1>4. \A i \in JobIds : i # k => t[i] = jobs[i]
  BY IInvFacts DEF Insert, TableOK, Table
<1>5. jobs[k].lease = None
  BY <1>1, IInvFacts DEF IsNewId, TableOK, RowOK
<1> HIDE DEF t
<1>6. HoldersKept(t, jobs')
  BY <1>1, <1>3, OfferKept DEF t
<1>7. QED
  BY <1>4, <1>5, <1>6, ThenKept

LEMMA LeaseKept ==
    ASSUME IInv, NEW e \in Engines, LeaseJob(e)
    PROVE  HoldersKept(jobs, jobs')
<1>1. TableOK(swept)
  BY SweptRows, IInvFacts DEF swept
<1>2. CASE jobs' = swept
  BY <1>2, SweptKept, IInvFacts DEF swept
<1>3. CASE \E j \in QueuedFor(swept, e) :
             jobs' = [swept EXCEPT ![j] = Leased(@, e)]
  <2>1. PICK j \in QueuedFor(swept, e) :
               jobs' = [swept EXCEPT ![j] = Leased(@, e)]
    BY <1>3
  <2>2. swept[j].status = "queued"
    BY DEF QueuedFor
  <2>3. \A i \in JobIds : i # j => jobs'[i] = swept[i]
    BY <1>1, <2>1 DEF TableOK, Table
  <2>4. QED
    BY <2>2, <2>3, SweptKept, IInvFacts DEF swept
<1>4. QED
  BY <1>2, <1>3 DEF LeaseJob

LEMMA AckKept ==
    ASSUME IInv, NEW e \in Engines, NEW j \in JobIds, AckJob(e, j)
    PROVE  HoldersKept(jobs, jobs')
<1>1. jobs[j].lease \in {None, e}
  BY DEF AckJob
<1>2. RowOK(jobs[j]) /\ jobs \in Table
  BY IInvFacts DEF TableOK
<1>3. /\ jobs'[j].lease = e
      /\ \A i \in JobIds : i # j => jobs'[i] = jobs[i]
  BY <1>2, LeasedFields DEF AckJob, Table
<1>4. QED
  BY <1>1, <1>3 DEF HoldersKept, KeepsHolder

LEMMA SameHolders ==
    ASSUME NEW t, NEW u,
           \A j \in JobIds : t[j].lease = None \/ u[j].lease = t[j].lease
    PROVE  HoldersKept(t, u)
BY DEF HoldersKept, KeepsHolder

\* A job ends with the holder it had.
LEMMA ClosedKept ==
    ASSUME IInv, NEW j \in JobIds, NEW outcome
    PROVE  HoldersKept(jobs, [jobs EXCEPT ![j] = Finished(jobs[j], outcome)])
<1> DEFINE u == [jobs EXCEPT ![j] = Finished(jobs[j], outcome)]
<1>1. \A i \in JobIds : u[i].lease = jobs[i].lease
  BY IInvFacts, FinishedFields DEF TableOK, Table
<1> HIDE DEF u
<1>2. HoldersKept(jobs, u)
  BY <1>1, SameHolders
<1>3. QED
  BY <1>2 DEF u

LEMMA CloseKept ==
    ASSUME IInv, NEW j \in JobIds, NEW ok \in BOOLEAN
    PROVE  HoldersKept(jobs, Closed(j, ok))
BY ClosedKept DEF Closed

\* The follow-up enters an unused row; its parent has ended, so that no sweep
\* takes it.
LEMMA FollowKept ==
    ASSUME IInv, NEW j \in JobIds, jobs[j].status \in Live,
           NEW k \in JobIds, IsNewId(jobs, k)
    PROVE  /\ HoldersKept(jobs, Followed(j, k))
           /\ \A u : HoldersKept(Followed(j, k), u) => HoldersKept(jobs, u)
<1> DEFINE t == Closed(j, TRUE)
           v == Followed(j, k)
<1>1. RowOK(jobs[j]) /\ RowOK(jobs[k]) /\ jobs \in Table
  BY IInvFacts DEF TableOK
<1>2. k # j /\ jobs[k].lease = None
  BY <1>1 DEF IsNewId, Live, RowOK
<1>3. /\ t[j].lease = jobs[j].lease
      /\ t[j].status = "completed"
      /\ \A i \in JobIds : i # j => t[i] = jobs[i]
  BY <1>1, FinishedFields DEF Closed, Outcome, Table
<1>4. \A i \in JobIds : i # k => v[i] = t[i]
  BY <1>1 DEF Followed, Insert, Closed, Table
<1>5. ~Stale(t[j], tod)
  BY <1>3 DEF Stale, LeaseExpired, RunningStale
<1> HIDE DEF t, v
<1>6. \A i \in JobIds : \/ jobs[i].lease = None
                        \/ v[i] = jobs[i]
                        \/ v[i].lease = jobs[i].lease /\ ~Stale(v[i], tod)
  BY <1>2, <1>3, <1>4, <1>5
<1>7. HoldersKept(jobs, v)
  BY <1>6, SameHolders
<1>8. ASSUME NEW u, HoldersKept(v, u)
      PROVE  HoldersKept(jobs, u)
  BY <1>6, <1>8, ThenKept
<1>9. QED
  BY <1>7, <1>8 DEF v

LEMMA CompleteKept ==
    ASSUME IInv, NEW e \in Engines, NEW j \in JobIds, CompleteJob(e, j)
    PROVE  HoldersKept(jobs, jobs')
<1>1. CASE \E ok \in BOOLEAN : CompleteAlone(e, j, ok)
  BY <1>1, CloseKept DEF CompleteAlone
<1>2. CASE CompleteHttp(e, j)
  BY <1>2, FollowKept DEF CompleteHttp, Reportable
<1>3. CASE CompleteWs(e, j)
  <2>1. jobs[j].status \in Live
    BY <1>3 DEF CompleteWs, Reportable
  <2>2. PICK k \in JobIds, left \in {work, Reported(e, j)} :
          IsNewId(jobs, k) /\ Offer(Followed(j, k), k, left)
    BY <1>3 DEF CompleteWs
  <2>3. TableOK(Followed(j, k)) /\ Followed(j, k)[k].status = "queued"
    BY <2>1, <2>2, FollowGood
  <2>4. HoldersKept(Followed(j, k), jobs')
    BY <2>2, <2>3, OfferKept
  <2>5. QED
    BY <2>1, <2>2, <2>4, FollowKept
<1>4. QED
  BY <1>1, <1>2, <1>3 DEF CompleteJob

LEMMA ReportHostedKept ==
    ASSUME IInv, NEW a \in Agents, ReportHosted(a)
    PROVE  HoldersKept(jobs, jobs')
<1>1. PICK j \in work[a] :
        \/ \E ok \in BOOLEAN : jobs' = Closed(j, ok)
        \/ /\ jobs[j].status \in Live
           /\ \E k \in JobIds : IsNewId(jobs, k) /\ jobs' = Followed(j, k)
        \/ UNCHANGED jobs
  BY DEF ReportHosted, Reportable
<1>2. j \in JobIds
  BY IInvFacts DEF Hands, Executors
<1>3. QED
  BY <1>1, <1>2, CloseKept, FollowKept, SameHolders

\* The hosted claim takes and fails queued jobs only.
LEMMA ClaimKept ==
    ASSUME IInv, NEW capped \in BOOLEAN, ClaimHosted(capped)
    PROVE  HoldersKept(jobs, jobs')
<1> DEFINE queued == QueuedHosted(swept)
           Failed(S) == [j \in JobIds |-> IF j \in S THEN Finished(swept[j], "failed")
                                                     ELSE swept[j]]
<1>1. SUFFICES ASSUME NEW i \in JobIds
               PROVE  \/ swept[i].status = "queued"
                      \/ jobs'[i] = swept[i]
  BY SweptKept, IInvFacts DEF swept
<1>2. \A j \in queued : j \in JobIds /\ swept[j].status = "queued"
  BY DEF QueuedHosted
<1>3. CASE jobs' = Failed(queued)
  BY <1>2, <1>3
<1>4. ASSUME NEW j \in queued, NEW S \in SUBSET queued, NEW row,
             jobs' = [Failed(S) EXCEPT ![j] = row]
      PROVE  \/ swept[i].status = "queued"
             \/ jobs'[i] = swept[i]
  BY <1>2, <1>4
<1>5. \/ jobs' = Failed(queued)
      \/ \E j \in queued : \E S \in SUBSET queued : \E row :
            jobs' = [Failed(S) EXCEPT ![j] = row]
  <2>1. CASE jobs' # Failed(queued)
    <3>1. PICK j \in queued :
            \E row : jobs' = [Failed({k \in queued : k < j}) EXCEPT ![j] = row]
      BY <2>1 DEF ClaimHosted
    <3>2. {k \in queued : k < j} \in SUBSET queued
      OBVIOUS
    <3> HIDE DEF queued
    <3>3. QED
      BY <3>1, <3>2
  <2>2. QED
    BY <2>1
<1>6. QED
  BY <1>3, <1>4, <1>5

LEMMA HelloKept ==
    ASSUME IInv, NEW e \in Engines, HelloDoctor(e)
    PROVE  HoldersKept(jobs, jobs')
<1>1. \A j \in JobIds : swept[j].status = "queued" \/ jobs'[j] = swept[j]
  BY DEF HelloDoctor, QueuedFor
<1>2. QED
  BY <1>1, SweptKept, IInvFacts DEF swept

LEMMA RestartKept ==
    ASSUME IInv, Restart
    PROVE  HoldersKept(jobs, jobs')
<1>1. CASE UNCHANGED jobs
  BY <1>1, SameHolders
<1>2. CASE \E j \in JobIds : jobs' = Closed(j, TRUE)
  BY <1>2, CloseKept
<1>3. QED
  BY <1>1, <1>2, IInvFacts DEF Restart, Hands

LEMMA TickKept ==
    ASSUME IInv, Tick
    PROVE  HoldersKept(jobs, jobs')
<1>1. \A j \in JobIds : jobs'[j].lease = jobs[j].lease
  BY IInvFacts DEF Tick, TableOK, RowOK, Job, Aged
<1>2. QED
  BY <1>1, SameHolders

LEMMA NextKept ==
    ASSUME IInv, [Next]_vars
    PROVE  HoldersKept(jobs, jobs')
<1>1. ASSUME NEW e \in Engines, NEW b \in Bodies, CreateFromEngine(e, b)
      PROVE  HoldersKept(jobs, jobs')
  BY <1>1, CreateKept DEF CreateFromEngine
<1>2. ASSUME NEW j \in JobIds, CancelJob(j)
      PROVE  HoldersKept(jobs, jobs')
  BY <1>2, ClosedKept DEF CancelJob
<1>3. ASSUME NEW e, NEW j, \/ LoseWork(e, j)
                           \/ SetAgentStatus(e)
                           \/ ConnectDoctor(e)
                           \/ DisconnectDoctor(e)
                           \/ UNCHANGED vars
      PROVE  HoldersKept(jobs, jobs')
  BY <1>3, SameHolders
     DEF LoseWork, SetAgentStatus, ConnectDoctor, DisconnectDoctor, vars
<1>4. QED
  BY <1>1, <1>2, <1>3, CreateKept, LeaseKept, AckKept, CompleteKept, ClaimKept,
     ReportHostedKept, HelloKept, RestartKept, TickKept DEF Next

\* A held job goes to somebody else only in a step that finds its holder too
\* late, whichever executors poll, ack, connect and report.
THEOREM NoTakeOver == Spec => HolderKeepsJob
<1> DEFINE Kept == \A j \in JobIds :
                       /\ jobs[j].lease # None
                       /\ jobs'[j].lease \notin {None, jobs[j].lease}
                       => Stale(jobs[j], tod)
<1>1. ASSUME IInv, [Next]_vars
      PROVE  Kept
  BY <1>1, NextKept DEF HoldersKept, KeepsHolder
<1>2. [][Kept]_vars <=> HolderKeepsJob
  BY DEF HolderKeepsJob
<1> HIDE DEF Kept
<1>3. Spec => [][Kept]_vars
  BY <1>1, Invariance, PTL DEF Spec
<1>4. QED
  BY <1>2, <1>3

-----------------------------------------------------------------------------
(* The dispatch queue implements the ledger.  Seen from the ledger, a      *)
(* sweep, a lease, an ack or a drain is nothing: it moves a job among      *)
(* queued, leased and running.  The lemmas say so statement by statement;  *)
(* then every action is a ledger step or a stutter.                        *)


\* What the ledger sees of a row, and what its follow-up is made from.
SameEntry(row, new) ==
    /\ Phase(new) = Phase(row)
    /\ new.to = row.to
    /\ new.next = row.next
    /\ new.parent = row.parent

\* Two tables that are the same ledger.
SameLedger(t, u) == \A j \in JobIds : SameEntry(t[j], u[j])

\* The row has ended, and is otherwise the same.
Closing(row, new, outcome) ==
    /\ Phase(row) = "open"
    /\ Phase(new) = outcome
    /\ new.to = row.to
    /\ new.next = row.next
    /\ new.parent = row.parent

LEMMA RowPhases ==
    ASSUME NEW row, RowOK(row), NEW x
    PROVE  /\ Phase(row) = "open" => /\ SameEntry(row, Leased(row, x))
                                     /\ SameEntry(row, Running(row, x))
                                     /\ SameEntry(row, Requeued(row))
           /\ SameEntry(row, Aged(row))
           /\ Phase(row) = "open" => \A outcome \in Terminal :
                 Closing(row, Finished(row, outcome), outcome)
BY DEF RowOK, Job, Leased, Running, Requeued, Finished, Aged, Phase, Live,
       Terminal, SameEntry, Closing

LEMMA OpenPhase ==
    ASSUME NEW row, RowOK(row)
    PROVE  /\ Phase(row) = "open" <=> row.status \in Live
           /\ Phase(row) = "absent" <=> row.status = "absent"
           /\ row.status \in Terminal => Phase(row) = row.status
BY DEF RowOK, Job, Phase, Live, Terminal

LEMMA SweepSame ==
    ASSUME NEW t, TableOK(t), NEW s
    PROVE  SameLedger(t, RequeueStale(t, s))
<1> SUFFICES ASSUME NEW j \in JobIds
             PROVE  SameEntry(t[j], RequeueStale(t, s)[j])
  BY DEF SameLedger
<1>1. RowOK(t[j])
  BY DEF TableOK
<1>2. CASE RequeueStale(t, s)[j] = t[j]
  BY <1>2 DEF SameEntry
<1>3. CASE /\ t[j].status \in {"leased", "running"}
           /\ RequeueStale(t, s)[j] = Requeued(t[j])
  BY <1>1, <1>3, RowPhases DEF Phase, Live
<1>4. QED
  BY <1>2, <1>3, SweptRows

LEMMA SameReplace ==
    ASSUME NEW t, TableOK(t), NEW j \in JobIds, NEW row, RowOK(row),
           SameEntry(t[j], row)
    PROVE  SameLedger(t, [t EXCEPT ![j] = row])
BY ReplaceRow DEF SameLedger, SameEntry

LEMMA SameTrans ==
    ASSUME NEW t, NEW u, NEW v, SameLedger(t, u), SameLedger(u, v)
    PROVE  SameLedger(t, v)
BY DEF SameLedger, SameEntry

LEMMA LeaseSame ==
    ASSUME NEW t, TableOK(t), NEW j \in JobIds, t[j].status = "queued",
           NEW x \in Executors, Entitled(x, t[j])
    PROVE  SameLedger(t, [t EXCEPT ![j] = Leased(t[j], x)])
<1>1. RowOK(t[j])
  BY DEF TableOK
<1>2. Phase(t[j]) = "open"
  BY DEF Phase, Live
<1> DEFINE row == Leased(t[j], x)
<1>3. RowOK(row) /\ SameEntry(t[j], row)
  BY <1>1, <1>2, LeasedOK, RowPhases
<1> HIDE DEF row
<1>4. SameLedger(t, [t EXCEPT ![j] = row])
  BY <1>3, SameReplace
<1>5. QED
  BY <1>4 DEF row

\* An offer never shows in the ledger.
LEMMA OfferSame ==
    ASSUME NEW t, TableOK(t), NEW k \in JobIds, t[k].status = "queued",
           doctors \subseteq Engines, NEW left, Offer(t, k, left)
    PROVE  SameLedger(t, jobs')
<1> DEFINE live == {e \in doctors : Matches(e, t[k])}
           u == RequeueStale(t, tod)
<1>1. CASE live = {}
  BY <1>1 DEF Offer, SameLedger, SameEntry
<1>2. CASE live # {}
  <2>1. PICK e \in live : jobs' = [u EXCEPT ![k] = Leased(u[k], e)]
    BY <1>2 DEF Offer
  <2>2. TableOK(u) /\ u[k] = t[k] /\ SameLedger(t, u)
    BY SweptRows, SweepSame
  <2>3. e \in Executors /\ Entitled(e, u[k])
    BY <2>2 DEF Executors, Entitled
  <2> HIDE DEF u
  <2>4. SameLedger(u, [u EXCEPT ![k] = Leased(u[k], e)])
    BY <2>2, <2>3, LeaseSame
  <2>5. QED
    BY <2>1, <2>2, <2>4, SameTrans
<1>3. QED
  BY <1>1, <1>2

-----------------------------------------------------------------------------
(* The ways a table can change.                                            *)

OthersSame(t, u, S) == \A i \in JobIds \ S : SameEntry(t[i], u[i])

Entered(t, u, k) ==
    /\ IsNewId(t, k)
    /\ Phase(u[k]) = "open" /\ u[k].parent = 0
    /\ OthersSame(t, u, {k})

ClosedAs(t, u, j, outcome) ==
    /\ Closing(t[j], u[j], outcome)
    /\ OthersSame(t, u, {j})

FollowedBy(t, u, j, k) ==
    /\ Closing(t[j], u[j], "completed")
    /\ t[j].parent = 0
    /\ IsNewId(t, k)
    /\ Phase(u[k]) = "open" /\ u[k].parent = j /\ u[k].to = t[j].next
    /\ OthersSame(t, u, {j, k})

AllFailed(t, u, S) ==
    /\ \A j \in S : Closing(t[j], u[j], "failed")
    /\ OthersSame(t, u, S)

LedgerMove(t, u) ==
    \/ SameLedger(t, u)
    \/ \E k \in JobIds : Entered(t, u, k)
    \/ \E j \in JobIds, outcome \in Terminal : ClosedAs(t, u, j, outcome)
    \/ \E j, k \in JobIds : FollowedBy(t, u, j, k)
    \/ \E S \in SUBSET JobIds : AllFailed(t, u, S)

LEMMA MoveThenSame ==
    ASSUME NEW t, NEW u, NEW v, LedgerMove(t, u), SameLedger(u, v)
    PROVE  LedgerMove(t, v)
<1>1. \A j \in JobIds : SameEntry(u[j], v[j])
  BY DEF SameLedger
<1>2. CASE SameLedger(t, u)
  BY <1>2, SameTrans DEF LedgerMove
<1>3. ASSUME NEW k \in JobIds, Entered(t, u, k)
      PROVE  LedgerMove(t, v)
  <2>1. Entered(t, v, k)
    BY <1>1, <1>3 DEF Entered, OthersSame, SameEntry
  <2>2. QED
    BY <2>1 DEF LedgerMove
<1>4. ASSUME NEW j \in JobIds, NEW outcome \in Terminal, ClosedAs(t, u, j, outcome)
      PROVE  LedgerMove(t, v)
  <2>1. ClosedAs(t, v, j, outcome)
    BY <1>1, <1>4 DEF ClosedAs, OthersSame, SameEntry, Closing
  <2>2. QED
    BY <2>1 DEF LedgerMove
<1>5. ASSUME NEW j \in JobIds, NEW k \in JobIds, FollowedBy(t, u, j, k)
      PROVE  LedgerMove(t, v)
  <2>1. FollowedBy(t, v, j, k)
    BY <1>1, <1>5 DEF FollowedBy, OthersSame, SameEntry, Closing
  <2>2. QED
    BY <2>1 DEF LedgerMove
<1>6. ASSUME NEW S \in SUBSET JobIds, AllFailed(t, u, S)
      PROVE  LedgerMove(t, v)
  <2>1. AllFailed(t, v, S)
    BY <1>1, <1>6 DEF AllFailed, OthersSame, SameEntry, Closing
  <2>2. QED
    BY <2>1 DEF LedgerMove
<1>7. QED
  BY <1>2, <1>3, <1>4, <1>5, <1>6 DEF LedgerMove

-----------------------------------------------------------------------------
(* Every action moves the ledger in one of these ways.                     *)

LEMMA CreateMove ==
    ASSUME IInv, NEW b \in Bodies, CreateJob(b)
    PROVE  LedgerMove(jobs, jobs')
<1>1. PICK k \in JobIds :
        /\ IsNewId(jobs, k)
        /\ Offer(Insert(jobs, k, b.to, b.next, 0), k, work)
  BY DEF CreateJob
<1>2. b.to \in Target /\ b.next \in Target
  BY QueueInputs
<1> DEFINE t == Insert(jobs, k, b.to, b.next, 0)
<1>3. TableOK(t) /\ t[k].status = "queued"
  BY <1>1, <1>2, FreshRow, IInvFacts DEF IsNewId
<1>4. /\ \A i \in JobIds : i # k => t[i] = jobs[i]
      /\ t[k].parent = 0
  BY IInvFacts DEF Insert, TableOK, Table
<1> HIDE DEF t
<1>5. Entered(jobs, t, k)
  BY <1>1, <1>3, <1>4 DEF Entered, OthersSame, SameEntry, Phase, Live
<1>6. Offer(t, k, work)
  BY <1>1 DEF t
<1>7. SameLedger(t, jobs')
  BY <1>3, <1>6, OfferSame DEF IInv
<1>8. LedgerMove(jobs, t)
  BY <1>5 DEF LedgerMove
<1>9. QED
  BY <1>7, <1>8, MoveThenSame

LEMMA SweptSame ==
    ASSUME IInv
    PROVE  TableOK(swept) /\ SameLedger(jobs, swept)
BY SweptRows, SweepSame, IInvFacts DEF swept

LEMMA LeaseMove ==
    ASSUME IInv, NEW e \in Engines, LeaseJob(e)
    PROVE  SameLedger(jobs, jobs')
<1> DEFINE mine == QueuedFor(swept, e)
<1>1. CASE jobs' = swept
  BY <1>1, SweptSame
<1>2. CASE \E j \in mine : jobs' = [swept EXCEPT ![j] = Leased(swept[j], e)]
  <2>1. PICK j \in mine : jobs' = [swept EXCEPT ![j] = Leased(swept[j], e)]
    BY <1>2
  <2>2. j \in JobIds /\ swept[j].status = "queued" /\ Matches(e, swept[j])
    BY DEF QueuedFor
  <2>3. e \in Executors /\ Entitled(e, swept[j])
    BY <2>2 DEF Executors, Entitled
  <2>4. SameLedger(swept, jobs')
    BY <2>1, <2>2, <2>3, SweptSame, LeaseSame
  <2>5. QED
    BY <2>4, SweptSame, SameTrans
<1>3. QED
  BY <1>1, <1>2 DEF LeaseJob

LEMMA AckMove ==
    ASSUME IInv, NEW e \in Engines, NEW j \in JobIds, AckJob(e, j)
    PROVE  SameLedger(jobs, jobs')
<1>1. RowOK(jobs[j]) /\ jobs[j].lease = e /\ Phase(jobs[j]) = "open"
  BY IInvFacts DEF AckJob, TableOK, RowOK, Phase, Live
<1>2. e \in Executors /\ e # None /\ Entitled(e, jobs[j])
  BY <1>1, DispatchNames DEF Executors, RowOK
<1> DEFINE row == Running(jobs[j], e)
<1>3. RowOK(row) /\ SameEntry(jobs[j], row)
  BY <1>1, <1>2, LeasedOK, RowPhases
<1>4. jobs' = [jobs EXCEPT ![j] = row]
  BY DEF AckJob
<1> HIDE DEF row
<1>5. QED
  BY <1>3, <1>4, SameReplace, IInvFacts

LEMMA FinishMove ==
    ASSUME IInv, NEW j \in JobIds, jobs[j].status \in Live, NEW outcome \in Terminal
    PROVE  ClosedAs(jobs, [jobs EXCEPT ![j] = Finished(jobs[j], outcome)], j, outcome)
<1> DEFINE row == Finished(jobs[j], outcome)
           u == [jobs EXCEPT ![j] = row]
<1>1. RowOK(jobs[j]) /\ Phase(jobs[j]) = "open"
  BY IInvFacts DEF TableOK, Phase
<1>2. Closing(jobs[j], row, outcome)
  BY <1>1, RowPhases
<1>3. u[j] = row /\ \A i \in JobIds : i # j => u[i] = jobs[i]
  BY IInvFacts DEF TableOK, Table
<1> HIDE DEF row, u
<1>4. ClosedAs(jobs, u, j, outcome)
  BY <1>2, <1>3 DEF ClosedAs, OthersSame, SameEntry
<1>5. QED
  BY <1>4 DEF u, row

LEMMA FollowMove ==
    ASSUME IInv, NEW j \in JobIds, jobs[j].status \in Live, jobs[j].next # Nobody,
           NEW k \in JobIds, IsNewId(jobs, k)
    PROVE  FollowedBy(jobs, Followed(j, k), j, k)
<1> DEFINE t == Closed(j, TRUE)
           u == Followed(j, k)
<1>1. k # j
  BY DEF IsNewId, Live
<1>2. "completed" \in Terminal /\ Outcome(TRUE) = "completed"
  BY DEF Terminal, Outcome
<1>3. ClosedAs(jobs, t, j, "completed")
  BY <1>2, FinishMove DEF Closed
<1>4. jobs[j].parent = 0
  BY IInvFacts DEF TableOK, RowOK
<1>5. TableOK(t)
  BY <1>2, CloseGood DEF Closed
<1>6. u = [t EXCEPT ![k] = [status |-> "queued", to |-> jobs[j].next,
                            next |-> Nobody, parent |-> j, lease |-> None, age |-> 0]]
  BY DEF Followed, Insert
<1> HIDE DEF t, u
<1>7. /\ u[k].status = "queued" /\ u[k].parent = j /\ u[k].to = jobs[j].next
      /\ \A i \in JobIds : i # k => u[i] = t[i]
  BY <1>5, <1>6 DEF TableOK, Table
<1>8. /\ Closing(jobs[j], u[j], "completed")
      /\ OthersSame(jobs, u, {j, k})
  BY <1>1, <1>3, <1>7 DEF ClosedAs, OthersSame
<1>9. FollowedBy(jobs, u, j, k)
  BY <1>4, <1>7, <1>8 DEF FollowedBy, Phase, Live
<1>10. QED
  BY <1>9 DEF u

\* What a report does to the table before any offer.
LEMMA ReportMove ==
    ASSUME IInv, NEW j \in JobIds, jobs[j].status \in Live, NEW u,
           \/ \E ok \in BOOLEAN : u = Closed(j, ok)
           \/ /\ jobs[j].next # Nobody
              /\ \E k \in JobIds : IsNewId(jobs, k) /\ u = Followed(j, k)
    PROVE  LedgerMove(jobs, u)
<1>1. ASSUME NEW ok \in BOOLEAN, u = Closed(j, ok)
      PROVE  LedgerMove(jobs, u)
  <2>1. Outcome(ok) \in Terminal
    BY OutcomeTerminal
  <2>2. ClosedAs(jobs, u, j, Outcome(ok))
    BY <1>1, <2>1, FinishMove DEF Closed
  <2>3. QED
    BY <2>1, <2>2 DEF LedgerMove
<1>2. ASSUME jobs[j].next # Nobody,
             NEW k \in JobIds, IsNewId(jobs, k), u = Followed(j, k)
      PROVE  LedgerMove(jobs, u)
  BY <1>2, FollowMove DEF LedgerMove
<1>3. QED
  BY <1>1, <1>2

LEMMA CompleteMove ==
    ASSUME IInv, NEW e \in Engines, NEW j \in JobIds, CompleteJob(e, j)
    PROVE  LedgerMove(jobs, jobs')
<1>1. ASSUME NEW ok \in BOOLEAN, CompleteAlone(e, j, ok)
      PROVE  LedgerMove(jobs, jobs')
  BY <1>1, ReportMove DEF CompleteAlone, Reportable
<1>2. ASSUME CompleteHttp(e, j)
      PROVE  LedgerMove(jobs, jobs')
  BY <1>2, ReportMove DEF CompleteHttp, Reportable, HasFollowUp
<1>3. ASSUME CompleteWs(e, j)
      PROVE  LedgerMove(jobs, jobs')
  <2>1. jobs[j].status \in Live /\ jobs[j].next # Nobody
    BY <1>3 DEF CompleteWs, Reportable, HasFollowUp
  <2>2. PICK k \in JobIds, left \in {work, Reported(e, j)} :
          IsNewId(jobs, k) /\ Offer(Followed(j, k), k, left)
    BY <1>3 DEF CompleteWs
  <2> DEFINE t == Followed(j, k)
  <2>3. TableOK(t) /\ t[k].status = "queued"
    BY <2>1, <2>2, FollowGood
  <2>4. LedgerMove(jobs, t)
    BY <2>1, <2>2, ReportMove
  <2> HIDE DEF t
  <2>5. Offer(t, k, left)
    BY <2>2 DEF t
  <2>6. SameLedger(t, jobs')
    BY <2>3, <2>5, OfferSame DEF IInv
  <2>7. QED
    BY <2>4, <2>6, MoveThenSame
<1>4. QED
  BY <1>1, <1>2, <1>3 DEF CompleteJob

LEMMA SameMove ==
    ASSUME NEW t, NEW u, t = u \/ SameLedger(t, u)
    PROVE  LedgerMove(t, u)
BY DEF LedgerMove, SameLedger, SameEntry

LEMMA CancelMove ==
    ASSUME IInv, NEW j \in JobIds, CancelJob(j)
    PROVE  LedgerMove(jobs, jobs')
<1>1. "cancelled" \in Terminal
  BY DEF Terminal
<1>2. ClosedAs(jobs, jobs', j, "cancelled")
  BY <1>1, FinishMove DEF CancelJob
<1>3. QED
  BY <1>1, <1>2 DEF LedgerMove

LEMMA ReportHostedMove ==
    ASSUME IInv, NEW a \in Agents, ReportHosted(a)
    PROVE  LedgerMove(jobs, jobs')
<1>1. PICK j \in work[a] :
        \/ /\ jobs[j].status \in Live
           /\ \/ \E ok \in BOOLEAN : jobs' = Closed(j, ok)
              \/ /\ jobs[j].next # Nobody
                 /\ \E k \in JobIds : IsNewId(jobs, k) /\ jobs' = Followed(j, k)
        \/ jobs' = jobs
  BY DEF ReportHosted, Reportable, HasFollowUp
<1>2. j \in JobIds
  BY IInvFacts DEF Hands, Executors
<1>3. QED
  BY <1>1, <1>2, ReportMove, SameMove

LEMMA RestartMove ==
    ASSUME IInv, Restart
    PROVE  LedgerMove(jobs, jobs')
<1>1. CASE jobs' = jobs
  BY <1>1, SameMove
<1>2. CASE \E j \in JobIds : jobs[j].status \in Live /\ jobs' = Closed(j, TRUE)
  BY <1>2, ReportMove
<1>3. QED
  BY <1>1, <1>2, IInvFacts DEF Restart, Reportable, Hands

LEMMA HelloMove ==
    ASSUME IInv, NEW e \in Engines, HelloDoctor(e)
    PROVE  SameLedger(jobs, jobs')
<1> DEFINE mine == QueuedFor(swept, e)
           drained == {j \in mine : Cardinality({i \in mine : i <= j}) <= DRAIN_LIMIT}
<1>1. \A j \in drained : j \in JobIds /\ swept[j].status = "queued"
  BY DEF QueuedFor
<1>2. jobs' = [j \in JobIds |-> IF j \in drained THEN Leased(swept[j], e)
                                                  ELSE swept[j]]
  BY DEF HelloDoctor
<1> HIDE DEF drained
<1>3. ASSUME NEW j \in JobIds
      PROVE  SameEntry(swept[j], jobs'[j])
  <2>1. RowOK(swept[j])
    BY SweptSame DEF TableOK
  <2>2. CASE j \in drained
    BY <1>1, <1>2, <2>1, <2>2, RowPhases DEF Phase, Live
  <2>3. CASE j \notin drained
    BY <1>2, <2>3 DEF SameEntry
  <2>4. QED
    BY <2>2, <2>3
<1>4. QED
  BY <1>3, SweptSame, SameTrans DEF SameLedger

LEMMA TickMove ==
    ASSUME IInv, Tick
    PROVE  SameLedger(jobs, jobs')
<1>1. \A j \in JobIds : RowOK(jobs[j])
  BY IInvFacts DEF TableOK
<1>2. \A j \in JobIds : jobs'[j] = Aged(jobs[j])
  BY DEF Tick
<1>3. QED
  BY <1>1, <1>2, RowPhases DEF SameLedger

LEMMA ClaimMove ==
    ASSUME IInv, NEW capped \in BOOLEAN, ClaimHosted(capped)
    PROVE  LedgerMove(jobs, jobs')
<1> DEFINE queued == QueuedHosted(swept)
           ready  == {j \in queued : swept[j].to.agent \in active}
           Failed(S) == [j \in JobIds |-> IF j \in S THEN Finished(swept[j], "failed")
                                                     ELSE swept[j]]
<1>1. TableOK(swept) /\ SameLedger(jobs, swept)
  BY SweptSame
<1>2. \A j \in queued : j \in JobIds /\ Phase(swept[j]) = "open"
  BY DEF QueuedHosted, Phase, Live
<1>3. "failed" \in Terminal
  BY DEF Terminal
\* One step covers the three ways a claim ends: S are the jobs that fail, and
\* the others are left or start to run.
<1>4. ASSUME NEW S \in SUBSET queued,
             \A j \in JobIds :
                 IF j \in S
                 THEN \/ jobs'[j] = Finished(swept[j], "failed")
                      \/ \E a \in Executors : /\ Entitled(a, swept[j])
                                              /\ jobs'[j] = Finished(Running(swept[j], a), "failed")
                 ELSE \/ jobs'[j] = swept[j]
                      \/ /\ j \in queued
                         /\ \E a : jobs'[j] = Running(swept[j], a)
      PROVE  LedgerMove(jobs, jobs')
  <2>1. S \in SUBSET JobIds
    BY <1>2
  <2>2. ASSUME NEW j \in S
        PROVE  Closing(jobs[j], jobs'[j], "failed")
    <3>1. /\ j \in JobIds /\ RowOK(swept[j]) /\ Phase(swept[j]) = "open"
          /\ SameEntry(jobs[j], swept[j])
      BY <1>1, <1>2, <2>1, <2>2 DEF TableOK, SameLedger
    <3>2. CASE jobs'[j] = Finished(swept[j], "failed")
      BY <1>3, <3>1, <3>2, RowPhases DEF Closing, SameEntry
    <3>3. ASSUME NEW a \in Executors, Entitled(a, swept[j]),
                 jobs'[j] = Finished(Running(swept[j], a), "failed")
          PROVE  Closing(jobs[j], jobs'[j], "failed")
      <4> DEFINE row == Running(swept[j], a)
      <4>1. RowOK(row) /\ SameEntry(swept[j], row)
        BY <3>1, <3>3, LeasedOK, RowPhases
      <4> HIDE DEF row
      <4>2. Phase(row) = "open"
        BY <3>1, <4>1 DEF SameEntry
      <4>3. Closing(row, Finished(row, "failed"), "failed")
        BY <1>3, <4>1, <4>2, RowPhases
      <4>4. jobs'[j] = Finished(row, "failed")
        BY <3>3 DEF row
      <4>5. QED
        BY <3>1, <4>1, <4>3, <4>4 DEF Closing, SameEntry
    <3>4. QED
      BY <1>4, <2>2, <3>1, <3>2, <3>3
  <2>3. ASSUME NEW j \in JobIds \ S
        PROVE  SameEntry(jobs[j], jobs'[j])
    <3>1. RowOK(swept[j]) /\ SameEntry(jobs[j], swept[j])
      BY <1>1 DEF TableOK, SameLedger
    <3>2. SameEntry(swept[j], jobs'[j])
      <4>1. CASE jobs'[j] = swept[j]
        BY <4>1 DEF SameEntry
      <4>2. CASE j \in queued /\ \E a : jobs'[j] = Running(swept[j], a)
        BY <1>2, <3>1, <4>2, RowPhases
      <4>3. QED
        BY <1>4, <2>3, <4>1, <4>2
    <3>3. QED
      BY <3>1, <3>2 DEF SameEntry
  <2>4. AllFailed(jobs, jobs', S)
    BY <2>2, <2>3 DEF AllFailed, OthersSame
  <2>5. QED
    BY <2>1, <2>4 DEF LedgerMove
<1>5. CASE jobs' = Failed(queued)
  BY <1>4, <1>5
<1>6. ASSUME NEW j \in ready, NEW a, a = swept[j].to.agent,
             NEW t, t = Failed({i \in queued : i < j}),
             \/ jobs' = [t EXCEPT ![j] = Finished(Running(t[j], a), "failed")]
             \/ jobs' = [t EXCEPT ![j] = Running(t[j], a)]
      PROVE  LedgerMove(jobs, jobs')
  <2> DEFINE before == {i \in queued : i < j}
  <2>1. j \in JobIds /\ j \notin before /\ j \in queued
    <3>1. j \in JobIds /\ j \in queued
      BY <1>2, <1>6
    <3>2. ~(j < j)
      BY <3>1 DEF JobIds
    <3>3. QED
      BY <3>1, <3>2
  <2>2. a \in Executors /\ Entitled(a, swept[j])
    BY <1>6, <2>1 DEF IInv, Executors, Entitled
  <2>3. t[j] = swept[j]
    BY <1>6, <2>1
  <2>4. CASE jobs' = [t EXCEPT ![j] = Finished(Running(swept[j], a), "failed")]
    <3>1. before \cup {j} \in SUBSET queued
      BY <2>1
    <3>2. \A i \in JobIds :
            jobs'[i] = IF i = j THEN Finished(Running(swept[j], a), "failed")
                       ELSE IF i \in before THEN Finished(swept[i], "failed")
                       ELSE swept[i]
      BY <1>6, <2>4
    <3> HIDE DEF before, queued
    <3>3. QED
      BY <1>4, <2>2, <3>1, <3>2
  <2>5. CASE jobs' = [t EXCEPT ![j] = Running(swept[j], a)]
    <3>1. before \in SUBSET queued
      OBVIOUS
    <3>2. \A i \in JobIds :
            jobs'[i] = IF i = j THEN Running(swept[j], a)
                       ELSE IF i \in before THEN Finished(swept[i], "failed")
                       ELSE swept[i]
      BY <1>6, <2>5
    <3> HIDE DEF before, queued
    <3>3. QED
      BY <1>4, <2>1, <3>1, <3>2
  <2>6. QED
    BY <1>6, <2>3, <2>4, <2>5
<1>7. CASE \E j \in ready :
             LET a == swept[j].to.agent
                 t == Failed({i \in queued : i < j})
             IN  \/ jobs' = [t EXCEPT ![j] = Finished(Running(t[j], a), "failed")]
                 \/ jobs' = [t EXCEPT ![j] = Running(t[j], a)]
  BY <1>6, <1>7
<1>8. QED
  BY <1>5, <1>7 DEF ClaimHosted

LEMMA NextMove ==
    ASSUME IInv, [Next]_vars
    PROVE  LedgerMove(jobs, jobs')
<1>1. ASSUME NEW b \in Bodies, CreateJob(b)
      PROVE  LedgerMove(jobs, jobs')
  BY <1>1, CreateMove
<1>2. ASSUME NEW e \in Engines, NEW b \in Bodies, CreateFromEngine(e, b)
      PROVE  LedgerMove(jobs, jobs')
  BY <1>2, CreateMove DEF CreateFromEngine
<1>3. ASSUME NEW e, NEW j, \/ LoseWork(e, j)
                           \/ SetAgentStatus(e)
                           \/ ConnectDoctor(e)
                           \/ DisconnectDoctor(e)
                           \/ UNCHANGED vars
      PROVE  LedgerMove(jobs, jobs')
  BY <1>3, SameMove
     DEF LoseWork, SetAgentStatus, ConnectDoctor, DisconnectDoctor, vars
<1>4. QED
  BY <1>1, <1>2, <1>3, LeaseMove, AckMove, HelloMove, TickMove, SameMove,
     CompleteMove, CancelMove, ClaimMove, ReportHostedMove, RestartMove DEF Next

-----------------------------------------------------------------------------
(* The theorems.                                                           *)

LEMMA EntryRead ==
    /\ Ledger!LedgerIds = JobIds
    /\ Ledger!Outcomes = Terminal
    /\ "completed" \in Terminal /\ "failed" \in Terminal
BY DEF Ledger!LedgerIds, JobIds, Ledger!Outcomes, Terminal

LEMMA InitLedger == Init => Ledger!LedgerInit
<1> SUFFICES ASSUME Init
             PROVE  Ledger!LedgerInit
  OBVIOUS
<1>1. \A j \in JobIds : Phase(jobs[j]) = "absent" /\ jobs[j].parent = 0
  BY DEF Init, NoJob, Phase, Live
<1>2. QED
  BY <1>1, EntryRead DEF Ledger!LedgerInit

\* A move of the table is a step of the ledger.
LEMMA MoveIsStep ==
    ASSUME IInv, LedgerMove(jobs, jobs')
    PROVE  [Ledger!LedgerNext]_(Ledger!ledger)
<1> DEFINE book == [j \in JobIds |-> Phase(jobs[j])]
           after == [j \in JobIds |-> jobs[j].parent]
           book2 == [j \in JobIds |-> Phase(jobs'[j])]
           after2 == [j \in JobIds |-> jobs'[j].parent]
<1>1. CASE SameLedger(jobs, jobs')
  <2>1. book2 = book /\ after2 = after
    BY <1>1 DEF SameLedger, SameEntry
  <2>2. QED
    BY <2>1 DEF Ledger!ledger
<1>2. ASSUME NEW k \in JobIds, Entered(jobs, jobs', k)
      PROVE  Ledger!LedgerNext
  <2>1. RowOK(jobs[k]) /\ jobs[k].status = "absent" /\ jobs[k].parent = 0
    BY <1>2, IInvFacts DEF Entered, IsNewId, TableOK, RowOK
  <2>2. book[k] = "absent"
    BY <2>1 DEF Phase, Live
  <2>3. book2 = [book EXCEPT ![k] = "open"] /\ after2 = after
    BY <1>2, <2>1 DEF Entered, OthersSame, SameEntry
  <2>4. Ledger!Enter(k)
    BY <2>2, <2>3 DEF Ledger!Enter
  <2>5. QED
    BY <2>4, EntryRead DEF Ledger!LedgerNext
<1>3. ASSUME NEW j \in JobIds, NEW outcome \in Terminal,
             ClosedAs(jobs, jobs', j, outcome)
      PROVE  Ledger!LedgerNext
  <2>1. book[j] = "open"
    BY <1>3 DEF ClosedAs, Closing
  <2>2. book2 = [book EXCEPT ![j] = outcome] /\ after2 = after
    BY <1>3 DEF ClosedAs, Closing, OthersSame, SameEntry
  <2>3. Ledger!Close(j, outcome)
    BY <2>1, <2>2 DEF Ledger!Close
  <2>4. QED
    BY <2>3, EntryRead DEF Ledger!LedgerNext
<1>4. ASSUME NEW j \in JobIds, NEW k \in JobIds, FollowedBy(jobs, jobs', j, k)
      PROVE  Ledger!LedgerNext
  <2>1. RowOK(jobs[k]) /\ jobs[k].status = "absent"
    BY <1>4, IInvFacts DEF FollowedBy, IsNewId, TableOK
  <2>2. book[j] = "open" /\ after[j] = 0 /\ book[k] = "absent" /\ j # k
    BY <1>4, <2>1 DEF FollowedBy, Closing, Phase, Live
  <2>3. /\ book2 = [book EXCEPT ![j] = "completed", ![k] = "open"]
        /\ after2 = [after EXCEPT ![k] = j]
    BY <1>4, <2>2 DEF FollowedBy, Closing, OthersSame, SameEntry
  <2>4. Ledger!CloseAndFollow(j, k)
    BY <2>2, <2>3 DEF Ledger!CloseAndFollow
  <2>5. QED
    BY <2>4, EntryRead DEF Ledger!LedgerNext
<1>5. ASSUME NEW S \in SUBSET JobIds, AllFailed(jobs, jobs', S)
      PROVE  Ledger!LedgerNext
  <2>1. \A j \in S : book[j] = "open"
    BY <1>5 DEF AllFailed, Closing
  <2>2. /\ book2 = [j \in JobIds |-> IF j \in S THEN "failed" ELSE book[j]]
        /\ after2 = after
    BY <1>5 DEF AllFailed, Closing, OthersSame, SameEntry
  <2>3. Ledger!FailAll(S)
    BY <2>1, <2>2, EntryRead DEF Ledger!FailAll
  <2>4. QED
    BY <2>3, EntryRead DEF Ledger!LedgerNext
<1>6. QED
  BY <1>1, <1>2, <1>3, <1>4, <1>5 DEF LedgerMove

\* The dispatch queue implements the ledger: every handler, sweep, claim and
\* restart enters, closes, or closes and follows up, and leases are internal.
THEOREM QueueImplementsLedger == Spec => ImplementsLedger
<1>1. IInv /\ [Next]_vars => [Ledger!LedgerNext]_(Ledger!ledger)
  BY NextMove, MoveIsStep
<1>2. QED
  BY InitLedger, <1>1, Invariance, PTL DEF Spec, ImplementsLedger, Ledger!LedgerSpec

\* A job that has ended keeps its outcome for ever.
THEOREM OutcomesStay == Spec => TerminalIsFinal
<1> DEFINE Final == \A j \in JobIds : jobs[j].status \in Terminal =>
                                      jobs'[j].status = jobs[j].status
<1>1. ASSUME IInv, IInv', [Next]_vars
      PROVE  Final
  <2> SUFFICES ASSUME NEW j \in JobIds, jobs[j].status \in Terminal
               PROVE  jobs'[j].status = jobs[j].status
    OBVIOUS
  <2>1. RowOK(jobs[j]) /\ RowOK(jobs'[j])
    BY <1>1 DEF IInv, TableOK
  <2>2. Phase(jobs[j]) = jobs[j].status /\ Phase(jobs[j]) # "open"
        /\ jobs[j].status # "absent"
    BY DEF Phase, Live, Terminal
  <2>3. SameEntry(jobs[j], jobs'[j])
    BY <1>1, <2>2, NextMove
       DEF LedgerMove, SameLedger, Entered, ClosedAs, FollowedBy, AllFailed,
           OthersSame, Closing, IsNewId
  <2>4. QED
    BY <2>1, <2>2, <2>3 DEF SameEntry, Phase, Live, Terminal
<1>2. [][Final]_vars <=> TerminalIsFinal
  BY DEF TerminalIsFinal
<1> HIDE DEF Final
<1>3. Spec => [][Final]_vars
  BY <1>1, Invariance, PTL DEF Spec
<1>4. QED
  BY <1>2, <1>3

-----------------------------------------------------------------------------
(* Follow-ups.  FollowUpOnce is not inductive alone: that p < k in a new   *)
(* follow-up needs the rows to be filled in order.                         *)

RowsInOrder ==
    \A i, j \in JobIds :
        i < j /\ Phase(jobs[i]) = "absent" => Phase(jobs[j]) = "absent"

FollowUps ==
    \A k \in JobIds :
        LET p == jobs[k].parent
        IN  p # 0 => /\ p < k
                     /\ Phase(jobs[p]) = "completed"
                     /\ jobs[p].parent = 0
                     /\ jobs[k].to = jobs[p].next
                     /\ \A i \in JobIds : jobs[i].parent = p => i = k

FInv == RowsInOrder /\ FollowUps

LEMMA FInvInit == Init => FInv
BY DEF Init, FInv, RowsInOrder, FollowUps, NoJob, Phase, Live

\* A table whose entries are the same, but for open ones that have ended.
LEMMA FInvSame ==
    ASSUME IInv, IInv', FInv,
           \A j \in JobIds :
               \/ SameEntry(jobs[j], jobs'[j])
               \/ \E outcome \in Terminal : Closing(jobs[j], jobs'[j], outcome)
    PROVE  FInv'
<1>1. \A j \in JobIds :
        /\ Phase(jobs'[j]) = "absent" <=> Phase(jobs[j]) = "absent"
        /\ Phase(jobs[j]) = "completed" => Phase(jobs'[j]) = "completed"
        /\ jobs'[j].to = jobs[j].to
        /\ jobs'[j].next = jobs[j].next
        /\ jobs'[j].parent = jobs[j].parent
  BY DEF SameEntry, Closing, Terminal
<1>2. \A j \in JobIds : jobs[j].parent \in JobIds \cup {0}
  BY IInvFacts DEF TableOK, RowOK, Job
<1>3. RowsInOrder'
  BY <1>1 DEF FInv, RowsInOrder
<1>4. FollowUps'
  BY <1>1, <1>2 DEF FInv, FollowUps
<1>5. QED
  BY <1>3, <1>4 DEF FInv

\* A row is filled: k has parent p, and is p's first follow-up, or p is 0.
LEMMA FInvFill ==
    ASSUME IInv, IInv', FInv, NEW k \in JobIds, IsNewId(jobs, k),
           Phase(jobs'[k]) = "open",
           NEW p \in JobIds \cup {0}, jobs'[k].parent = p,
           p # 0 => /\ Closing(jobs[p], jobs'[p], "completed")
                    /\ jobs[p].parent = 0
                    /\ jobs'[k].to = jobs[p].next,
           OthersSame(jobs, jobs', {k, p})
    PROVE  FInv'
<1>1. Phase(jobs[k]) = "absent" /\ jobs[k].parent = 0
  BY IInvFacts DEF IsNewId, TableOK, RowOK, Phase, Live
<1>2. \A i \in JobIds : i < k => Phase(jobs[i]) # "absent"
  BY DEF IsNewId, Phase
<1>3. p # k
  BY <1>1 DEF Closing, JobIds
<1>4. \A j \in JobIds \ {k} :
        /\ Phase(jobs'[j]) = "absent" <=> Phase(jobs[j]) = "absent"
        /\ Phase(jobs[j]) = "completed" => Phase(jobs'[j]) = "completed"
        /\ jobs'[j].to = jobs[j].to
        /\ jobs'[j].next = jobs[j].next
        /\ jobs'[j].parent = jobs[j].parent
  <2> SUFFICES ASSUME NEW j \in JobIds \ {k}
               PROVE  \/ SameEntry(jobs[j], jobs'[j])
                      \/ Closing(jobs[j], jobs'[j], "completed")
    BY DEF SameEntry, Closing
  <2>1. CASE j = p
    BY <2>1 DEF JobIds
  <2>2. CASE j # p
    BY <2>2 DEF OthersSame
  <2>3. QED
    BY <2>1, <2>2
<1>5. \A j \in JobIds : jobs[j].parent \in JobIds \cup {0}
  BY IInvFacts DEF TableOK, RowOK, Job
<1>6. RowsInOrder'
  <2> SUFFICES ASSUME NEW i \in JobIds, NEW j \in JobIds, i < j,
                      Phase(jobs'[i]) = "absent"
               PROVE  Phase(jobs'[j]) = "absent"
    BY DEF RowsInOrder
  <2>1. i # k /\ Phase(jobs[i]) = "absent"
    BY <1>4
  <2>2. ~(i < k)
    BY <1>2, <2>1
  <2>3. j # k
    BY <2>1, <2>2 DEF JobIds
  <2>4. QED
    BY <1>4, <2>1, <2>3 DEF FInv, RowsInOrder
<1>7. p # 0 => p < k
  <2> SUFFICES ASSUME p # 0
               PROVE  p < k
    OBVIOUS
  <2>1. p \in JobIds /\ Phase(jobs[p]) = "open"
    BY DEF Closing
  <2>2. ~(k < p)
    BY <1>1, <2>1 DEF FInv, RowsInOrder
  <2>3. QED
    BY <1>3, <2>1, <2>2 DEF JobIds
<1>8. FollowUps'
  <2> SUFFICES ASSUME NEW c \in JobIds, jobs'[c].parent # 0
               PROVE  LET q == jobs'[c].parent
                      IN  /\ q < c
                          /\ Phase(jobs'[q]) = "completed"
                          /\ jobs'[q].parent = 0
                          /\ jobs'[c].to = jobs'[q].next
                          /\ \A i \in JobIds : jobs'[i].parent = q => i = c
    BY DEF FollowUps
  <2>1. CASE c = k
    <3>1. /\ p \in JobIds \ {k}
          /\ Phase(jobs'[p]) = "completed" /\ jobs'[p].parent = 0
          /\ jobs'[p].next = jobs[p].next
      BY <1>3, <1>4, <2>1 DEF Closing
    <3>2. Phase(jobs[p]) # "completed"
      BY <2>1 DEF Closing
    <3>3. \A i \in JobIds : jobs[i].parent # p
      BY <2>1, <3>1, <3>2 DEF FInv, FollowUps
    <3>4. QED
      BY <1>4, <1>7, <2>1, <3>1, <3>3
  <2>2. CASE c # k
    <3> DEFINE q == jobs[c].parent
    <3>1. q \in JobIds /\ jobs'[c].parent = q
      BY <1>4, <1>5, <2>2
    <3>2. /\ q < c /\ Phase(jobs[q]) = "completed" /\ jobs[q].parent = 0
          /\ jobs[c].to = jobs[q].next
          /\ \A i \in JobIds : jobs[i].parent = q => i = c
      BY <1>4, <2>2 DEF FInv, FollowUps
    <3>3. q # k /\ q # p
      BY <1>1, <3>1, <3>2 DEF Closing, JobIds
    <3> HIDE DEF q
    <3>4. QED
      BY <1>4, <2>2, <3>1, <3>2, <3>3
  <2>3. QED
    BY <2>1, <2>2
<1>9. QED
  BY <1>6, <1>8 DEF FInv

LEMMA FInvNext ==
    ASSUME IInv, IInv', FInv, [Next]_vars
    PROVE  FInv'
<1>1. CASE SameLedger(jobs, jobs')
  BY <1>1, FInvSame DEF SameLedger
<1>2. ASSUME NEW k \in JobIds, Entered(jobs, jobs', k)
      PROVE  FInv'
  <2>1. OthersSame(jobs, jobs', {k, 0})
    BY <1>2 DEF Entered, OthersSame, JobIds
  <2>2. QED
    BY <1>2, <2>1, FInvFill DEF Entered
<1>3. ASSUME NEW j \in JobIds, NEW outcome \in Terminal,
             ClosedAs(jobs, jobs', j, outcome)
      PROVE  FInv'
  BY <1>3, FInvSame DEF ClosedAs, OthersSame
<1>4. ASSUME NEW j \in JobIds, NEW k \in JobIds, FollowedBy(jobs, jobs', j, k)
      PROVE  FInv'
  <2>1. OthersSame(jobs, jobs', {k, j})
    BY <1>4 DEF FollowedBy, OthersSame
  <2>2. QED
    BY <1>4, <2>1, FInvFill DEF FollowedBy
<1>5. ASSUME NEW S \in SUBSET JobIds, AllFailed(jobs, jobs', S)
      PROVE  FInv'
  BY <1>5, FInvSame, EntryRead DEF AllFailed, OthersSame
<1>6. QED
  BY <1>1, <1>2, <1>3, <1>4, <1>5, NextMove DEF LedgerMove

\* A job has one follow-up at most, made from its payload when it completed.
THEOREM OneFollowUp == Spec => []FollowUpOnce
<1>1. FInv /\ IInv => FollowUpOnce
  <2> SUFFICES ASSUME FInv, IInv, NEW k \in JobIds, jobs[k].parent # 0
               PROVE  LET p == jobs[k].parent
                      IN  /\ p < k
                          /\ jobs[p].status = "completed"
                          /\ jobs[p].parent = 0
                          /\ jobs[k].to = jobs[p].next
                          /\ \A i \in JobIds : jobs[i].parent = p => i = k
    BY DEF FollowUpOnce
  <2>1. jobs[k].parent \in JobIds
    BY IInvFacts DEF TableOK, RowOK, Job
  <2>2. Phase(jobs[jobs[k].parent]) = "completed"
    BY DEF FInv, FollowUps
  <2>3. jobs[jobs[k].parent].status = "completed"
    BY <2>2 DEF Phase
  <2>4. QED
    BY <2>3 DEF FInv, FollowUps
<1>2. Spec => []FInv
  BY FInvInit, FInvNext, Invariance, PTL DEF Spec
<1>3. QED
  BY <1>1, <1>2, Invariance, PTL
=============================================================================
