--------------------------- MODULE ArenaTasksProofs ---------------------------
(***************************************************************************)
(* For any agents, dispatcher loops and number of tasks: the types, that   *)
(* one agent gets each task, that its outcome is recorded once, and that   *)
(* pending tasks and only those are watched.                               *)
(*                                                                         *)
(* The inductive invariant follows a task: it is in a round of one loop or *)
(* in one request by hand, then pending with one agent, then in one        *)
(* pipeline, then recorded, and never in two of these places.              *)
(***************************************************************************)
EXTENDS ArenaTasks, FiniteSetTheorems, TLAPS

-----------------------------------------------------------------------------
(* Types.                                                                  *)

LoopRow == [at : {"off", "idle", "announced", "asking", "injecting", "resting"},
            task : Tasks \cup {NoTask}, agent : Agents \cup {NoAgent}]

AgentTypes ==
    /\ present \subseteq Agents
    /\ busy \in [Agents -> BOOLEAN]
    /\ meta \in [Agents -> Tasks \cup {NoTask}]
    /\ exe \in [Agents -> {"none", "young", "late"}]

ProcTypes ==
    /\ proc \in [Agents -> {"up", "exited", "gone"}]
    /\ reader \in [Agents -> {"reading", "settling", "backoff", "off"}]
    /\ limit \subseteq Agents
    /\ inbox \in [Agents -> Seq(Request)]

AskTypes ==
    /\ future \in [Agents -> Loops \cup {NoLoop}]
    /\ asked \in [Loops -> [Agents -> {"no", "waiting", "accepted", "refused", "blank"}]]

\* A round has a task and an injection an agent.
LoopTypes ==
    /\ running \in BOOLEAN
    /\ loop \in [Loops -> LoopRow]
    /\ \A l \in Loops : loop[l].at \in {"announced", "asking", "injecting"} => loop[l].task \in Tasks
    /\ \A l \in Loops : loop[l].at = "injecting" => loop[l].agent \in Agents

BoardTypes ==
    /\ board \subseteq Tasks /\ Cardinality(board) <= MaxAvailable
    /\ nextTask \in 0..MaxTasks

\* A request by hand has an agent and a task.
BookTypes ==
    /\ settling \in [Agents -> SUBSET [by : {"reader", "watchdog"}, task : Tasks \cup {NoTask}]]
    /\ overdue \subseteq Agents
    /\ admin = NoRequest \/ admin \in [agent : Agents, task : Tasks]
    /\ given \in [Tasks -> SUBSET Agents]
    /\ recorded \in [Tasks -> Nat]

Typed == AgentTypes /\ ProcTypes /\ AskTypes /\ LoopTypes /\ BoardTypes /\ BookTypes

LEMMA TypedIsTypeOK == Typed => TypeOK
BY DEF Typed, AgentTypes, ProcTypes, AskTypes, LoopTypes, BoardTypes, BookTypes, TypeOK,
       LoopRow, NoRequest

LEMMA NamesAndNumbers ==
    /\ NoTask \notin Tasks /\ NoAgent \notin Agents /\ NoLoop \notin Loops
    /\ IsFiniteSet(Tasks)
    /\ \A n \in 0..MaxTasks : n < MaxTasks => n + 1 \in Tasks /\ n + 1 \in 0..MaxTasks
<1>1. MaxTasks \in Nat /\ 1 \in Int
  BY ArenaAssumption
<1>2. IsFiniteSet(1..MaxTasks)
  BY <1>1, FS_Interval
<1>3. QED
  BY <1>1, <1>2, ArenaAssumption DEF NoTask, Tasks

LEMMA TypedInit == Init => Typed
<1> SUFFICES ASSUME Init PROVE Typed
  OBVIOUS
<1>1. AgentTypes /\ ProcTypes /\ AskTypes
  BY DEF Init, AgentTypes, ProcTypes, AskTypes, NoTask
<1>2. LoopTypes
  BY DEF Init, LoopTypes, LoopRow, Off, NoTask
<1>3. BoardTypes
  BY FS_EmptySet, ArenaAssumption DEF Init, BoardTypes
<1>4. BookTypes
  BY DEF Init, BookTypes
<1>5. QED
  BY <1>1, <1>2, <1>3, <1>4 DEF Typed

\* What is left of the board, and one more task.
LEMMA BoardFits ==
    ASSUME BoardTypes, NEW left \in SUBSET board
    PROVE  /\ Cardinality(left) <= MaxAvailable
           /\ \A t \in Tasks : Cardinality(left) < MaxAvailable =>
                                 Cardinality(left \cup {t}) <= MaxAvailable
<1>1. IsFiniteSet(board) /\ Cardinality(board) <= MaxAvailable
  BY NamesAndNumbers, FS_Subset DEF BoardTypes
<1>2. IsFiniteSet(left) /\ Cardinality(left) <= Cardinality(board)
  BY <1>1, FS_Subset
<1>3. Cardinality(left) \in Nat /\ Cardinality(board) \in Nat
  BY <1>1, <1>2, FS_CardinalityType
<1>4. \A t \in Tasks : \/ Cardinality(left \cup {t}) = Cardinality(left)
                         \/ Cardinality(left \cup {t}) = Cardinality(left) + 1
  BY <1>2, FS_AddElement
<1>5. QED
  BY <1>1, <1>2, <1>3, <1>4, ArenaAssumption

\* A row of a loop, and the table with it.
LEMMA LoopStep ==
    ASSUME LoopTypes, NEW l \in Loops, NEW row \in LoopRow, loop' = [loop EXCEPT ![l] = row],
           running' \in BOOLEAN,
           row.at \in {"announced", "asking", "injecting"} => row.task \in Tasks,
           row.at = "injecting" => row.agent \in Agents
    PROVE  LoopTypes'
BY DEF LoopTypes

LEMMA LoopRows ==
    ASSUME NEW row \in LoopRow
    PROVE  /\ \A at \in {"off", "idle", "announced", "asking", "injecting", "resting"} :
                /\ [row EXCEPT !.at = at] \in LoopRow
                /\ [Off EXCEPT !.at = at] \in LoopRow
                /\ \A t \in Tasks : [row EXCEPT !.at = at, !.task = t] \in LoopRow
                /\ \A a \in Agents \cup {NoAgent} : [row EXCEPT !.at = at, !.agent = a] \in LoopRow
BY DEF LoopRow, Off

LEMMA WrittenOK ==
    ASSUME ProcTypes, NEW a \in Agents, NEW t \in Tasks, Written(a, t), UNCHANGED <<reader, limit>>
    PROVE  ProcTypes'
<1>1. [kind |-> "task", task |-> t] \in Request
  BY DEF Request
<1>2. Append(inbox[a], [kind |-> "task", task |-> t]) \in Seq(Request)
  BY <1>1 DEF ProcTypes
<1>3. QED
  BY <1>2 DEF ProcTypes, Written

-----------------------------------------------------------------------------
LEMMA TypedDispatch ==
    ASSUME Typed, NEW l \in Loops, Dispatch(l)
    PROVE  Typed'
<1> DEFINE row == loop[l]
<1>0. /\ row \in LoopRow
      /\ row.at \in {"announced", "asking", "injecting"} => row.task \in Tasks
      /\ row.at = "injecting" => row.agent \in Agents
      /\ running \in BOOLEAN
  BY DEF Typed, LoopTypes
<1>1. CASE PutOnBoard(l)
  <2>1. PICK left \in SUBSET board, pooled \in BOOLEAN :
           \/ /\ Cardinality(left) < MaxAvailable /\ nextTask < MaxTasks
              /\ nextTask' = nextTask + 1
              /\ board' = left \cup {nextTask'}
              /\ loop' = [loop EXCEPT ![l] = [row EXCEPT !.at = "announced", !.task = nextTask']]
           \/ /\ board' = left
              /\ loop' = [loop EXCEPT ![l] = [row EXCEPT !.at = "resting"]]
              /\ nextTask' = nextTask
    BY <1>1 DEF PutOnBoard
  <2>2. BoardTypes'
    <3>0. BoardTypes
      BY DEF Typed
    <3>1. CASE board' = left /\ nextTask' = nextTask
      BY <3>0, <3>1, BoardFits DEF BoardTypes
    <3>2. ASSUME nextTask < MaxTasks, nextTask' = nextTask + 1, board' = left \cup {nextTask'},
                 Cardinality(left) < MaxAvailable
          PROVE  BoardTypes'
      <4>1. nextTask' \in Tasks /\ nextTask' \in 0..MaxTasks
        BY <3>0, <3>2, NamesAndNumbers DEF BoardTypes
      <4>2. Cardinality(left \cup {nextTask'}) <= MaxAvailable
        BY <3>0, <3>2, <4>1, BoardFits
      <4>3. QED
        BY <3>0, <3>2, <4>1, <4>2 DEF BoardTypes
    <3>3. QED
      BY <2>1, <3>1, <3>2
  <2>3. LoopTypes'
    <3>1. CASE nextTask' \in Tasks /\ loop' = [loop EXCEPT ![l] = [row EXCEPT !.at = "announced", !.task = nextTask']]
      <4>1. [row EXCEPT !.at = "announced", !.task = nextTask'] \in LoopRow
        BY <1>0, <3>1, LoopRows
      <4>2. QED
        BY <1>0, <1>1, <3>1, <4>1, LoopStep DEF Typed, PutOnBoard, LoopRow
    <3>2. CASE loop' = [loop EXCEPT ![l] = [row EXCEPT !.at = "resting"]]
      <4>1. [row EXCEPT !.at = "resting"] \in LoopRow
        BY <1>0, LoopRows
      <4>2. QED
        BY <1>0, <1>1, <3>2, <4>1, LoopStep DEF Typed, PutOnBoard, LoopRow
    <3>3. QED
      BY <2>1, <3>1, <3>2, NamesAndNumbers DEF Typed, BoardTypes
  <2>4. /\ UNCHANGED <<agentVars, procVars, histVars, future>>
        /\ UNCHANGED <<asked, settling, overdue, admin>>
    BY <1>1 DEF PutOnBoard
  <2>5. AgentTypes' /\ ProcTypes'
    BY <2>4 DEF Typed, AgentTypes, ProcTypes, agentVars, procVars
  <2>6. AskTypes' /\ BookTypes'
    BY <2>4 DEF Typed, AskTypes, BookTypes, histVars
  <2>7. QED
    BY <2>2, <2>3, <2>5, <2>6 DEF Typed
<1>2. CASE AskAgents(l)
  <2>1. LoopTypes'
    <3> DEFINE next == IF IdleAgents = {} THEN "resting" ELSE "asking"
    <3>1. /\ loop' = [loop EXCEPT ![l] = [row EXCEPT !.at = next]] /\ row.task \in Tasks
          /\ running' = running
      BY <1>0, <1>2 DEF AskAgents
    <3>2. [row EXCEPT !.at = next] \in LoopRow
      BY <1>0, LoopRows
    <3>3. QED
      BY <1>0, <3>1, <3>2, LoopStep DEF Typed, LoopRow
  <2>2. ProcTypes'
    <3>1. [kind |-> "preview", task |-> row.task] \in Request
      BY <1>0, <1>2 DEF AskAgents, Request
    <3>2. \A a \in Agents : Append(inbox[a], [kind |-> "preview", task |-> row.task]) \in Seq(Request)
      BY <3>1 DEF Typed, ProcTypes
    <3>3. inbox' \in [Agents -> Seq(Request)]
      BY <1>2, <3>2 DEF AskAgents, Typed, ProcTypes
    <3>4. QED
      BY <1>2, <3>3 DEF AskAgents, Typed, ProcTypes
  <2>3. AskTypes'
    BY <1>2 DEF AskAgents, Typed, AskTypes
  <2>4. QED
    BY <1>2, <2>1, <2>2, <2>3 DEF AskAgents, Typed, AgentTypes, BoardTypes, BookTypes,
                                  agentVars, histVars
<1>3. ASSUME NEW a \in Agents, PreviewTimeout(l, a)
      PROVE  Typed'
  <2>1. AskTypes'
    BY <1>3 DEF PreviewTimeout, Typed, AskTypes
  <2>2. QED
    BY <1>3, <2>1 DEF PreviewTimeout, Typed, AgentTypes, ProcTypes, LoopTypes, BoardTypes, BookTypes,
                      agentVars, procVars, loopVars, histVars
<1>4. ASSUME NEW a \in Agents, Assign(l, a)
      PROVE  Typed'
  <2>1. LoopTypes'
    <3>1. CASE loop' = loop
      BY <1>4, <3>1 DEF Assign, Typed, LoopTypes
    <3>2. CASE loop' = [loop EXCEPT ![l] = [row EXCEPT !.at = "injecting", !.agent = a]]
      <4>1. [row EXCEPT !.at = "injecting", !.agent = a] \in LoopRow
        BY <1>0, LoopRows
      <4>2. QED
        BY <1>0, <1>4, <3>2, <4>1, LoopStep DEF Assign, Typed, LoopRow
    <3>3. QED
      BY <1>4, <3>1, <3>2 DEF Assign
  <2>2. ProcTypes'
    BY <1>0, <1>4, WrittenOK DEF Assign, Typed
  <2>3. AskTypes'
    BY <1>4 DEF Assign, Typed, AskTypes
  <2>4. QED
    BY <1>4, <2>1, <2>2, <2>3 DEF Assign, Typed, AgentTypes, BoardTypes, BookTypes, agentVars, histVars
<1>5. CASE Injected(l)
  <2>1. LoopTypes'
    <3> DEFINE new == [Off EXCEPT !.at = "resting"]
    <3>1. loop' = [loop EXCEPT ![l] = new] /\ running' = running
      BY <1>5 DEF Injected
    <3>2. new \in LoopRow
      BY <1>0, LoopRows
    <3>3. new.at \in {"announced", "asking", "injecting"} => new.task \in Tasks /\ new.at # "injecting"
      BY <1>0, <1>5 DEF Injected, Off, LoopRow
    <3> HIDE DEF new
    <3>4. QED
      BY <1>0, <3>1, <3>2, <3>3, LoopStep DEF Typed
  <2>2. AgentTypes'
    BY <1>0, <1>5 DEF Injected, Listed, Typed, AgentTypes
  <2>3. AskTypes'
    BY <1>5 DEF Injected, Typed, AskTypes
  <2>4. BoardTypes'
    <3>1. board' \subseteq board /\ nextTask' = nextTask
      BY <1>5 DEF Injected
    <3>2. QED
      BY <1>0, <1>5, <3>1, BoardFits DEF Injected, Typed, BoardTypes
  <2>5. BookTypes'
    BY <1>0, <1>5 DEF Injected, Typed, BookTypes
  <2>6. QED
    BY <1>5, <2>1, <2>2, <2>3, <2>4, <2>5 DEF Injected, Typed, ProcTypes, procVars
<1>6. CASE InjectFailed(l)
  <2>1. LoopTypes'
    <3> DEFINE new == [row EXCEPT !.at = "asking", !.agent = NoAgent]
    <3>1. loop' = [loop EXCEPT ![l] = new] /\ running' = running
      BY <1>6 DEF InjectFailed
    <3>2. new \in LoopRow
      BY <1>0, LoopRows
    <3>3. new.at \in {"announced", "asking", "injecting"} => new.task \in Tasks /\ new.at # "injecting"
      BY <1>0, <1>6 DEF InjectFailed, Off, LoopRow
    <3> HIDE DEF new
    <3>4. QED
      BY <1>0, <3>1, <3>2, <3>3, LoopStep DEF Typed
  <2>2. AskTypes'
    BY <1>6 DEF InjectFailed, Typed, AskTypes
  <2>3. QED
    BY <1>6, <2>1, <2>2 DEF InjectFailed, Typed, AgentTypes, ProcTypes, BoardTypes, BookTypes,
                            agentVars, procVars, histVars
<1>7. CASE NobodyTakes(l)
  <2>1. LoopTypes'
    <3> DEFINE new == [Off EXCEPT !.at = "resting"]
    <3>1. loop' = [loop EXCEPT ![l] = new] /\ running' = running
      BY <1>7 DEF NobodyTakes
    <3>2. new \in LoopRow
      BY <1>0, LoopRows
    <3>3. new.at \in {"announced", "asking", "injecting"} => new.task \in Tasks /\ new.at # "injecting"
      BY <1>0, <1>7 DEF NobodyTakes, Off, LoopRow
    <3> HIDE DEF new
    <3>4. QED
      BY <1>0, <3>1, <3>2, <3>3, LoopStep DEF Typed
  <2>2. AskTypes'
    BY <1>7 DEF NobodyTakes, Typed, AskTypes
  <2>3. QED
    BY <1>7, <2>1, <2>2 DEF NobodyTakes, Typed, AgentTypes, ProcTypes, BoardTypes, BookTypes,
                            agentVars, procVars, histVars
<1>8. CASE NextTick(l)
  <2>1. LoopTypes'
    <3> DEFINE new == [Off EXCEPT !.at = IF running THEN "idle" ELSE "off"]
    <3>1. loop' = [loop EXCEPT ![l] = new] /\ running' = running
      BY <1>8 DEF NextTick
    <3>2. new \in LoopRow
      BY <1>0, LoopRows
    <3>3. new.at \in {"announced", "asking", "injecting"} => new.task \in Tasks /\ new.at # "injecting"
      BY <1>0, <1>8 DEF NextTick, Off, LoopRow
    <3> HIDE DEF new
    <3>4. QED
      BY <1>0, <3>1, <3>2, <3>3, LoopStep DEF Typed
  <2>2. QED
    BY <1>8, <2>1 DEF NextTick, Typed, AgentTypes, ProcTypes, AskTypes, BoardTypes, BookTypes,
                      agentVars, procVars, histVars
<1>9. QED
  BY <1>1, <1>2, <1>3, <1>4, <1>5, <1>6, <1>7, <1>8 DEF Dispatch

-----------------------------------------------------------------------------
\* The parts other actions are made of.
Pipelines == SUBSET [by : {"reader", "watchdog"}, task : Tasks \cup {NoTask}]

LEMMA TaskDoneTyped ==
    ASSUME AgentTypes, settling \in [Agents -> Pipelines], NEW a \in Agents,
           NEW by \in {"reader", "watchdog"}, TaskDone(a, by)
    PROVE  /\ settling' \in [Agents -> Pipelines]
           /\ meta' \in [Agents -> Tasks \cup {NoTask}]
           /\ exe' \in [Agents -> {"none", "young", "late"}]
<1>1. settling[a] \cup {[by |-> by, task |-> meta[a]]} \in Pipelines
  BY DEF AgentTypes, Pipelines
<1>2. QED
  BY <1>1 DEF TaskDone, AgentTypes

LEMMA RemovedTyped ==
    ASSUME AgentTypes, ProcTypes, AskTypes, NEW a \in Agents, Removed(a)
    PROVE  /\ present' \subseteq Agents
           /\ proc' \in [Agents -> {"up", "exited", "gone"}]
           /\ limit' \subseteq Agents
           /\ inbox' \in [Agents -> Seq(Request)]
           /\ AskTypes'
<1>1. present' \subseteq Agents /\ proc' \in [Agents -> {"up", "exited", "gone"}] /\ limit' \subseteq Agents
  BY DEF Removed, AgentTypes, ProcTypes
<1>2. inbox' \in [Agents -> Seq(Request)]
  BY <<>> \in Seq(Request) DEF Removed, ProcTypes
<1>3. AskTypes'
  BY DEF Removed, AskTypes
<1>4. QED
  BY <1>1, <1>2, <1>3

LEMMA RecordedTyped ==
    ASSUME recorded \in [Tasks -> Nat], NEW t \in Tasks \cup {NoTask}
    PROVE  Recorded(t) \in [Tasks -> Nat]
BY DEF Recorded

LEMMA TypedProcess ==
    ASSUME Typed, NEW a \in Agents, Process(a)
    PROVE  Typed'
<1>0. settling \in [Agents -> Pipelines]
  BY DEF Typed, BookTypes, Pipelines
<1>t. inbox[a] # <<>> => Tail(inbox[a]) \in Seq(Request)
  BY DEF Typed, ProcTypes
<1>r. \A x \in Agents : ReadsOn(x) \in {"reading", "off"}
  BY DEF ReadsOn
<1>1. CASE Answer(a)
  <2>1. LoopTypes' /\ BoardTypes'
    BY <1>1 DEF Answer, Typed, LoopTypes, BoardTypes, loopVars
  <2>2. ProcTypes'
    BY <1>1, <1>t, <1>r DEF Answer, Typed, ProcTypes
  <2>3. AskTypes'
    <3>1. CASE UNCHANGED <<future, asked>>
      BY <3>1 DEF Typed, AskTypes
    <3>2. ASSUME future[a] # NoLoop, NEW verdict \in {"accepted", "refused", "blank"},
                 asked' = [asked EXCEPT ![future[a]][a] = verdict],
                 future' = [future EXCEPT ![a] = NoLoop]
          PROVE  AskTypes'
      BY <3>2 DEF Typed, AskTypes
    <3>3. QED
      BY <1>1, <3>1, <3>2 DEF Answer
  <2>4. /\ settling' \in [Agents -> Pipelines]
        /\ meta' \in [Agents -> Tasks \cup {NoTask}]
        /\ exe' \in [Agents -> {"none", "young", "late"}]
    <3>1. CASE UNCHANGED <<settling, meta, exe>>
      BY <1>0, <3>1 DEF Typed, AgentTypes
    <3>2. CASE TaskDone(a, "reader")
      BY <1>0, <3>2, TaskDoneTyped DEF Typed
    <3>3. QED
      BY <1>1, <3>1, <3>2 DEF Answer
  <2>5. AgentTypes' /\ BookTypes'
    BY <1>1, <2>4 DEF Answer, Typed, AgentTypes, BookTypes, Pipelines, histVars
  <2>6. QED
    BY <2>1, <2>2, <2>3, <2>5 DEF Typed
<1>2. CASE ToolLimit(a)
  <2>1. /\ settling' \in [Agents -> Pipelines]
        /\ meta' \in [Agents -> Tasks \cup {NoTask}]
        /\ exe' \in [Agents -> {"none", "young", "late"}]
    BY <1>0, <1>2, TaskDoneTyped DEF ToolLimit, Typed
  <2>2. ProcTypes'
    BY <1>2, <1>r DEF ToolLimit, Typed, ProcTypes
  <2>3. AgentTypes' /\ BookTypes'
    BY <1>2, <2>1 DEF ToolLimit, Typed, AgentTypes, BookTypes, Pipelines, histVars
  <2>4. LoopTypes' /\ BoardTypes' /\ AskTypes'
    BY <1>2 DEF ToolLimit, Typed, LoopTypes, BoardTypes, AskTypes, loopVars
  <2>5. QED
    BY <2>2, <2>3, <2>4 DEF Typed
<1>3. CASE GrowLate(a)
  <2>1. AgentTypes' /\ ProcTypes'
    BY <1>3 DEF GrowLate, Typed, AgentTypes, ProcTypes, procVars
  <2>2. LoopTypes' /\ BoardTypes' /\ AskTypes' /\ BookTypes'
    BY <1>3 DEF GrowLate, Typed, LoopTypes, BoardTypes, AskTypes, BookTypes, loopVars, histVars
  <2>3. QED
    BY <2>1, <2>2 DEF Typed
<1>4. CASE Exit(a)
  <2>1. AgentTypes' /\ ProcTypes'
    BY <1>4 DEF Exit, Typed, AgentTypes, ProcTypes, agentVars
  <2>2. LoopTypes' /\ BoardTypes' /\ AskTypes' /\ BookTypes'
    BY <1>4 DEF Exit, Typed, LoopTypes, BoardTypes, AskTypes, BookTypes, loopVars, histVars
  <2>3. QED
    BY <2>1, <2>2 DEF Typed
<1>5. CASE ReadEnd(a)
  <2>1. ProcTypes'
    BY <1>5, <<>> \in Seq(Request) DEF ReadEnd, Typed, ProcTypes
  <2>2. AgentTypes'
    BY <1>5 DEF ReadEnd, ProcessExited, Typed, AgentTypes
  <2>3. recorded' \in [Tasks -> Nat]
    <3>1. recorded' = recorded \/ recorded' = Recorded(meta[a])
      BY <1>5 DEF ReadEnd, ProcessExited
    <3>2. QED
      BY <3>1, RecordedTyped DEF Typed, AgentTypes, BookTypes
  <2>4. BookTypes'
    BY <1>5, <2>3 DEF ReadEnd, Typed, BookTypes
  <2>5. LoopTypes' /\ BoardTypes' /\ AskTypes'
    BY <1>5 DEF ReadEnd, Typed, LoopTypes, BoardTypes, AskTypes, loopVars
  <2>6. QED
    BY <2>1, <2>2, <2>4, <2>5 DEF Typed
<1>6. CASE Respawn(a)
  <2>1. AgentTypes' /\ ProcTypes'
    BY <1>6 DEF Respawn, Spawned, Typed, AgentTypes, ProcTypes, agentVars
  <2>2. LoopTypes' /\ BoardTypes' /\ AskTypes' /\ BookTypes'
    BY <1>6 DEF Respawn, Typed, LoopTypes, BoardTypes, AskTypes, BookTypes, loopVars, histVars
  <2>3. QED
    BY <2>1, <2>2 DEF Typed
<1>7. QED
  BY <1>1, <1>2, <1>3, <1>4, <1>5, <1>6 DEF Process

LEMMA TypedSettle ==
    ASSUME Typed, NEW a \in Agents, Settle(a)
    PROVE  Typed'
<1>1. PICK s \in settling[a], eliminated \in BOOLEAN :
        /\ settling' = [settling EXCEPT ![a] = @ \ {s}]
        /\ recorded' = Recorded(s.task)
        /\ IF eliminated
           THEN Eliminated(a)
           ELSE UNCHANGED <<present, proc, limit, inbox, future, asked>>
        /\ busy' = [busy EXCEPT ![a] = IF a \in present' THEN FALSE ELSE @]
        /\ reader' = [reader EXCEPT ![a] =
                         IF a \notin present' THEN "off" ELSE IF s.by = "reader" THEN ReadsOn(a) ELSE @]
  BY DEF Settle
<1>2. /\ present' \subseteq Agents
      /\ proc' \in [Agents -> {"up", "exited", "gone"}]
      /\ limit' \subseteq Agents
      /\ inbox' \in [Agents -> Seq(Request)]
      /\ AskTypes'
  <2>1. CASE eliminated
    BY <1>1, <2>1, RemovedTyped DEF Eliminated, Typed
  <2>2. CASE ~eliminated
    BY <1>1, <2>2 DEF Typed, AgentTypes, ProcTypes, AskTypes
  <2>3. QED
    BY <2>1, <2>2
<1>3. UNCHANGED <<meta, exe, running, loop, board, given, nextTask, overdue, admin>>
  BY DEF Settle, loopVars
<1>4. AgentTypes'
  BY <1>1, <1>2, <1>3 DEF Typed, AgentTypes
<1>5. ProcTypes'
  BY <1>1, <1>2 DEF Typed, ProcTypes, ReadsOn
<1>6. BookTypes'
  <2>1. s.task \in Tasks \cup {NoTask}
    BY <1>1 DEF Typed, BookTypes
  <2>2. recorded' \in [Tasks -> Nat]
    BY <1>1, <2>1, RecordedTyped DEF Typed, BookTypes
  <2>3. QED
    BY <1>1, <1>3, <2>2 DEF Typed, BookTypes
<1>7. LoopTypes' /\ BoardTypes'
  BY <1>3 DEF Typed, LoopTypes, BoardTypes
<1>8. QED
  BY <1>2, <1>4, <1>5, <1>6, <1>7 DEF Typed

LEMMA TypedRest ==
    ASSUME Typed,
           \/ StartDispatcher \/ StopDispatcher \/ Watch \/ InjectedByHand
           \/ \E a \in Agents : DeleteAgent(a) \/ InjectByHand(a)
    PROVE  Typed'
<1>1. CASE StartDispatcher
  <2>1. PICK l \in Loops : loop[l].at = "off" /\ loop' = [loop EXCEPT ![l] = [loop[l] EXCEPT !.at = "idle"]]
    BY <1>1 DEF StartDispatcher
  <2>2. [loop[l] EXCEPT !.at = "idle"] \in LoopRow
    BY LoopRows DEF Typed, LoopTypes
  <2>3. LoopTypes'
    BY <1>1, <2>1, <2>2, LoopStep DEF StartDispatcher, Typed, LoopTypes, LoopRow
  <2>4. AgentTypes' /\ ProcTypes' /\ AskTypes' /\ BoardTypes' /\ BookTypes'
    BY <1>1 DEF StartDispatcher, Typed, AgentTypes, ProcTypes, AskTypes, BoardTypes, BookTypes,
                agentVars, procVars, histVars
  <2>5. QED
    BY <2>3, <2>4 DEF Typed
<1>2. CASE StopDispatcher
  <2>1. LoopTypes' /\ BoardTypes' /\ BookTypes'
    BY <1>2 DEF StopDispatcher, Typed, LoopTypes, BoardTypes, BookTypes, histVars
  <2>2. AgentTypes' /\ ProcTypes' /\ AskTypes'
    BY <1>2 DEF StopDispatcher, Typed, AgentTypes, ProcTypes, AskTypes, agentVars, procVars
  <2>3. QED
    BY <2>1, <2>2 DEF Typed
<1>3. CASE ListOverdue
  <2>1. LoopTypes' /\ BoardTypes' /\ BookTypes'
    BY <1>3 DEF ListOverdue, Typed, LoopTypes, BoardTypes, BookTypes, histVars, loopVars
  <2>2. AgentTypes' /\ ProcTypes' /\ AskTypes'
    BY <1>3 DEF ListOverdue, Typed, AgentTypes, ProcTypes, AskTypes, agentVars, procVars
  <2>3. QED
    BY <2>1, <2>2 DEF Typed
<1>4. ASSUME NEW a \in Agents, TimeOut(a)
      PROVE  Typed'
  <2>1. [by |-> "watchdog", task |-> meta[a]] \in [by : {"reader", "watchdog"}, task : Tasks \cup {NoTask}]
    BY DEF Typed, AgentTypes
  <2>2. settling' \in [Agents -> Pipelines]
    BY <1>4, <2>1 DEF TimeOut, Typed, BookTypes, Pipelines
  <2>3. AgentTypes'
    BY <1>4 DEF TimeOut, Typed, AgentTypes
  <2>4. BookTypes'
    BY <1>4, <2>2 DEF TimeOut, Typed, BookTypes, Pipelines, histVars
  <2>5. LoopTypes' /\ BoardTypes' /\ ProcTypes' /\ AskTypes'
    BY <1>4 DEF TimeOut, Typed, LoopTypes, BoardTypes, ProcTypes, AskTypes, loopVars, procVars
  <2>6. QED
    BY <2>3, <2>4, <2>5 DEF Typed
<1>5. ASSUME NEW a \in Agents, DeleteAgent(a)
      PROVE  Typed'
  <2>1. /\ present' \subseteq Agents
        /\ proc' \in [Agents -> {"up", "exited", "gone"}]
        /\ limit' \subseteq Agents
        /\ inbox' \in [Agents -> Seq(Request)]
        /\ AskTypes'
    BY <1>5, RemovedTyped DEF DeleteAgent, Typed
  <2>2. AgentTypes' /\ ProcTypes'
    BY <1>5, <2>1 DEF DeleteAgent, Typed, AgentTypes, ProcTypes
  <2>3. LoopTypes' /\ BoardTypes' /\ BookTypes'
    BY <1>5 DEF DeleteAgent, Typed, LoopTypes, BoardTypes, BookTypes, loopVars, histVars
  <2>4. QED
    BY <2>1, <2>2, <2>3 DEF Typed
<1>6. ASSUME NEW a \in Agents, InjectByHand(a)
      PROVE  Typed'
  <2>1. nextTask' \in Tasks /\ nextTask' \in 0..MaxTasks
    BY <1>6, NamesAndNumbers DEF InjectByHand, Typed, BoardTypes
  <2>2. ProcTypes'
    BY <1>6, <2>1, WrittenOK DEF InjectByHand, Typed
  <2>3. BookTypes' /\ BoardTypes'
    BY <1>6, <2>1 DEF InjectByHand, Typed, BookTypes, BoardTypes, histVars, loopVars
  <2>4. AgentTypes' /\ LoopTypes' /\ AskTypes'
    BY <1>6 DEF InjectByHand, Typed, AgentTypes, LoopTypes, AskTypes, agentVars, loopVars
  <2>5. QED
    BY <2>2, <2>3, <2>4 DEF Typed
<1>7. CASE InjectedByHand
  <2>1. admin.agent \in Agents /\ admin.task \in Tasks
    BY <1>7 DEF InjectedByHand, Typed, BookTypes
  <2>2. AgentTypes'
    BY <1>7, <2>1 DEF InjectedByHand, Listed, Typed, AgentTypes
  <2>3. BookTypes'
    BY <1>7, <2>1 DEF InjectedByHand, Typed, BookTypes
  <2>4. LoopTypes' /\ BoardTypes' /\ ProcTypes' /\ AskTypes'
    BY <1>7 DEF InjectedByHand, Typed, LoopTypes, BoardTypes, ProcTypes, AskTypes, loopVars, procVars
  <2>5. QED
    BY <2>2, <2>3, <2>4 DEF Typed
<1>8. QED
  BY <1>1, <1>2, <1>3, <1>4, <1>5, <1>6, <1>7 DEF Watch

LEMMA TypedStays == Typed /\ UNCHANGED vars => Typed'
BY DEF Typed, AgentTypes, ProcTypes, AskTypes, LoopTypes, BoardTypes, BookTypes,
       vars, agentVars, procVars, loopVars, histVars

LEMMA TypedNext == Typed /\ [Next]_vars => Typed'
BY TypedDispatch, TypedProcess, TypedSettle, TypedRest, TypedStays DEF Next

\* Every variable keeps the shape the code gives it, for any agents and loops.
THEOREM TypeCorrect == Spec => []TypeOK
<1>1. Spec => []Typed
  BY TypedInit, TypedNext, PTL DEF Spec
<1>2. QED
  BY <1>1, TypedIsTypeOK, PTL

-----------------------------------------------------------------------------
(* A pending task is watched, and nothing else is.                         *)

LEMMA WatchedInit == Init => WatchedWhilePending
BY DEF Init, WatchedWhilePending

\* One agent's books change, both of them.
LEMMA WatchedStep ==
    ASSUME Typed, WatchedWhilePending, NEW a \in Agents,
           meta' \in [Agents -> Tasks \cup {NoTask}], exe' \in [Agents -> {"none", "young", "late"}],
           \A b \in Agents \ {a} : meta'[b] = meta[b] /\ exe'[b] = exe[b],
           (meta'[a] # NoTask) <=> (exe'[a] # "none")
    PROVE  WatchedWhilePending'
BY DEF WatchedWhilePending

LEMMA WatchedNext ==
    ASSUME Typed, WatchedWhilePending, [Next]_vars
    PROVE  WatchedWhilePending'
<1>0. /\ meta \in [Agents -> Tasks \cup {NoTask}]
      /\ exe \in [Agents -> {"none", "young", "late"}]
  BY DEF Typed, AgentTypes
<1>t. /\ meta' \in [Agents -> Tasks \cup {NoTask}]
      /\ exe' \in [Agents -> {"none", "young", "late"}]
  BY TypedNext DEF Typed, AgentTypes
<1>1. ASSUME UNCHANGED <<meta, exe>>
      PROVE  WatchedWhilePending'
  BY <1>1 DEF WatchedWhilePending
<1>2. ASSUME NEW a \in Agents, NEW t \in Tasks, Listed(a, t)
      PROVE  WatchedWhilePending'
  BY <1>0, <1>t, <1>2, NamesAndNumbers, WatchedStep DEF Listed
<1>3. ASSUME NEW a \in Agents, meta' = [meta EXCEPT ![a] = NoTask], exe' = [exe EXCEPT ![a] = "none"]
      PROVE  WatchedWhilePending'
  BY <1>0, <1>t, <1>3, WatchedStep
<1>4. ASSUME NEW l \in Loops, Dispatch(l)
      PROVE  WatchedWhilePending'
  <2>1. CASE Injected(l)
    <3>1. loop[l].task \in Tasks /\ loop[l].agent \in Agents
      BY <2>1 DEF Injected, Typed, LoopTypes
    <3>2. Listed(loop[l].agent, loop[l].task) \/ UNCHANGED <<meta, exe>>
      BY <2>1 DEF Injected
    <3>3. QED
      BY <1>1, <1>2, <3>1, <3>2
  <2>2. CASE ~Injected(l)
    BY <1>1, <1>4, <2>2 DEF Dispatch, PutOnBoard, AskAgents, PreviewTimeout, Assign, InjectFailed,
                            NobodyTakes, NextTick, agentVars
  <2>3. QED
    BY <2>1, <2>2
<1>5. ASSUME NEW a \in Agents, Process(a)
      PROVE  WatchedWhilePending'
  <2>1. CASE GrowLate(a)
    BY <1>0, <1>t, <2>1, WatchedStep DEF GrowLate, WatchedWhilePending
  <2>2. CASE ~GrowLate(a)
    <3>1. \/ UNCHANGED <<meta, exe>>
          \/ meta' = [meta EXCEPT ![a] = NoTask] /\ exe' = [exe EXCEPT ![a] = "none"]
      BY <1>5, <2>2 DEF Process, Answer, ToolLimit, TaskDone, Exit, ReadEnd, ProcessExited, Respawn, agentVars
    <3>2. QED
      BY <1>1, <1>3, <3>1
  <2>3. QED
    BY <2>1, <2>2
<1>6. ASSUME NEW a \in Agents, Settle(a) \/ DeleteAgent(a) \/ InjectByHand(a)
      PROVE  WatchedWhilePending'
  BY <1>1, <1>6 DEF Settle, DeleteAgent, InjectByHand, agentVars
<1>7. CASE Watch
  <2>1. ASSUME NEW a \in Agents, TimeOut(a)
        PROVE  WatchedWhilePending'
    BY <1>1, <1>3, <2>1 DEF TimeOut
  <2>2. CASE ListOverdue
    BY <1>1, <2>2 DEF ListOverdue, agentVars
  <2>3. QED
    BY <1>7, <2>1, <2>2 DEF Watch
<1>8. CASE InjectedByHand
  <2>1. admin.agent \in Agents /\ admin.task \in Tasks
    BY <1>8 DEF InjectedByHand, Typed, BookTypes
  <2>2. Listed(admin.agent, admin.task) \/ UNCHANGED <<meta, exe>>
    BY <1>8 DEF InjectedByHand
  <2>3. QED
    BY <1>1, <1>2, <2>1, <2>2
<1>9. CASE StartDispatcher \/ StopDispatcher \/ UNCHANGED vars
  BY <1>1, <1>9 DEF StartDispatcher, StopDispatcher, vars, agentVars
<1>10. QED
  BY <1>4, <1>5, <1>6, <1>7, <1>8, <1>9 DEF Next

\* No task falls out of the watchdog's sight (arena_monitor.py), and no
\* execution is watched that has no task.
THEOREM PendingIsWatched == Spec => []WatchedWhilePending
<1>1. Typed /\ WatchedWhilePending /\ [Next]_vars => (Typed /\ WatchedWhilePending)'
  BY TypedNext, WatchedNext
<1>2. Init => Typed /\ WatchedWhilePending
  BY TypedInit, WatchedInit
<1>3. QED
  BY <1>1, <1>2, PTL DEF Spec

-----------------------------------------------------------------------------
(* Where a task is.                                                        *)

\* Nobody was given it, nothing has an outcome of it.
Free(t) ==
    /\ given[t] = {}
    /\ recorded[t] = 0
    /\ \A a \in Agents : meta[a] # t
    /\ \A a \in Agents : \A s \in settling[a] : s.task # t

InOneRound(t) ==
    \A l \in Loops : loop[l].task = t =>
        /\ Free(t) /\ admin.task # t /\ t <= nextTask
        /\ \A k \in Loops : loop[k].task = t => k = l

PendingOnce(t) ==
    \A a \in Agents : meta[a] = t =>
        /\ recorded[t] = 0
        /\ \A b \in Agents : \A s \in settling[b] : s.task # t
        /\ \A b \in Agents : meta[b] = t => b = a

PipedOnce(t) ==
    \A a \in Agents : \A s \in settling[a] : s.task = t =>
        /\ recorded[t] = 0
        /\ \A b \in Agents : \A r \in settling[b] : r.task = t => b = a /\ r = s

Token(t) ==
    /\ t > nextTask => Free(t)
    /\ InOneRound(t)
    /\ admin.task = t => Free(t) /\ t <= nextTask
    /\ PendingOnce(t)
    /\ PipedOnce(t)
    /\ recorded[t] <= 1
    /\ \A a, b \in given[t] : a = b

Tokens == \A t \in Tasks : Token(t)

LEMMA TokensInit == Init => Tokens
BY DEF Init, Tokens, Token, Free, InOneRound, PendingOnce, PipedOnce, Off, NoRequest, Tasks, NoTask

\* A task that no step moves, or that a step only takes out of a place.
LEMMA Fewer ==
    ASSUME Typed, NEW t \in Tasks, Token(t), nextTask' \in Nat, nextTask <= nextTask',
           given'[t] = given[t], recorded'[t] = recorded[t],
           \A l \in Loops : loop'[l].task = t => loop[l].task = t,
           admin'.task = t => admin.task = t,
           \A a \in Agents : meta'[a] = t => meta[a] = t,
           \A a \in Agents : \A s \in settling'[a] : s.task = t => s \in settling[a]
    PROVE  Token(t)'
<1>0. t \in Int /\ nextTask \in Int
  BY ArenaAssumption DEF Tasks, Typed, BoardTypes
<1>1. Free(t) => Free(t)'
  BY DEF Free
<1>2. InOneRound(t)'
  BY <1>0, <1>1 DEF Token, InOneRound
<1>3. PendingOnce(t)'
  BY DEF Token, PendingOnce
<1>4. PipedOnce(t)'
  BY DEF Token, PipedOnce
<1>5. QED
  BY <1>0, <1>1, <1>2, <1>3, <1>4 DEF Token

\* What the dispatcher and the administrator hold stays theirs, or is let go.
Holding ==
    /\ nextTask' \in Nat /\ nextTask <= nextTask'
    /\ \A l \in Loops : loop'[l].task \in {loop[l].task, NoTask}
    /\ admin'.task \in {admin.task, NoTask}

\* A pending task goes into a pipeline.
LEMMA PipeStarts ==
    ASSUME Typed, Tokens, Holding, UNCHANGED <<given, recorded>>,
           NEW a \in Agents, NEW by,
           settling' = [settling EXCEPT ![a] = @ \cup {[by |-> by, task |-> meta[a]]}],
           meta' = [meta EXCEPT ![a] = NoTask]
    PROVE  Tokens'
<1> SUFFICES ASSUME NEW t \in Tasks PROVE Token(t)'
  BY DEF Tokens
<1>0. /\ t # NoTask /\ Token(t) /\ Tasks' = Tasks
      /\ settling \in [Agents -> Pipelines] /\ meta \in [Agents -> Tasks \cup {NoTask}]
  BY NamesAndNumbers DEF Tokens, Typed, AgentTypes, BookTypes, Pipelines
<1>1. CASE t # meta[a]
  BY <1>0, <1>1, Fewer DEF Holding
<1>2. CASE t = meta[a]
  <2>1. /\ recorded'[t] = 0
        /\ \A b \in Agents : meta'[b] # t
        /\ \A b \in Agents : \A s \in settling[b] : s.task # t
        /\ ~Free(t)
    BY <1>0, <1>2 DEF Token, PendingOnce, Free
  <2>2. /\ \A l \in Loops : loop'[l].task # t
        /\ admin'.task # t
        /\ ~(t > nextTask)
    BY <1>0, <2>1 DEF Token, InOneRound, Holding
  <2>3. \A b \in Agents : \A s \in settling'[b] : s.task = t => b = a /\ s = [by |-> by, task |-> meta[a]]
    BY <1>0, <2>1
  <2>4. ~(t > nextTask')
    BY <2>2 DEF Holding, Typed, BoardTypes, Tasks
  <2>5. QED
    BY <1>0, <2>1, <2>2, <2>3, <2>4 DEF Token, InOneRound, PendingOnce, PipedOnce
<1>3. QED
  BY <1>1, <1>2

\* A pipeline enters its task in the history.
LEMMA PipeEnds ==
    ASSUME Typed, Tokens, Holding, UNCHANGED <<given, meta>>,
           NEW a \in Agents, NEW s \in settling[a],
           settling' = [settling EXCEPT ![a] = @ \ {s}],
           recorded' = Recorded(s.task)
    PROVE  Tokens'
<1> SUFFICES ASSUME NEW t \in Tasks PROVE Token(t)'
  BY DEF Tokens
<1>0. /\ t # NoTask /\ Token(t)
      /\ settling \in [Agents -> Pipelines] /\ recorded \in [Tasks -> Nat]
  BY NamesAndNumbers DEF Tokens, Typed, BookTypes, Pipelines
<1>1. CASE t # s.task
  <2>1. recorded'[t] = recorded[t]
    BY <1>0, <1>1 DEF Recorded
  <2>2. QED
    BY <1>0, <2>1, Fewer DEF Holding
<1>2. CASE t = s.task
  <2>1. /\ recorded[t] = 0
        /\ \A b \in Agents : meta'[b] # t
        /\ \A b \in Agents : \A r \in settling'[b] : r.task # t
        /\ ~Free(t)
    BY <1>0, <1>2 DEF Token, PendingOnce, PipedOnce, Free
  <2>2. /\ \A l \in Loops : loop'[l].task # t
        /\ admin'.task # t
        /\ ~(t > nextTask)
    BY <1>0, <2>1 DEF Token, InOneRound, Holding
  <2>3. recorded'[t] = 1
    BY <1>0, <1>2, <2>1 DEF Recorded
  <2>4. ~(t > nextTask')
    BY <2>2 DEF Holding, Typed, BoardTypes, Tasks
  <2>5. QED
    BY <1>0, <2>1, <2>2, <2>3, <2>4 DEF Token, InOneRound, PendingOnce, PipedOnce
<1>3. QED
  BY <1>1, <1>2

\* The end of a process enters a pending task in the history.
LEMMA ExitRecords ==
    ASSUME Typed, Tokens, Holding, UNCHANGED <<given, settling>>,
           NEW a \in Agents, meta' = [meta EXCEPT ![a] = NoTask],
           recorded' = Recorded(meta[a])
    PROVE  Tokens'
<1> SUFFICES ASSUME NEW t \in Tasks PROVE Token(t)'
  BY DEF Tokens
<1>0. /\ t # NoTask /\ Token(t)
      /\ meta \in [Agents -> Tasks \cup {NoTask}] /\ recorded \in [Tasks -> Nat]
  BY NamesAndNumbers DEF Tokens, Typed, AgentTypes, BookTypes
<1>1. CASE t # meta[a]
  <2>1. recorded'[t] = recorded[t]
    BY <1>0, <1>1 DEF Recorded
  <2>2. QED
    BY <1>0, <2>1, Fewer DEF Holding
<1>2. CASE t = meta[a]
  <2>1. /\ recorded[t] = 0
        /\ \A b \in Agents : meta'[b] # t
        /\ \A b \in Agents : \A r \in settling'[b] : r.task # t
        /\ ~Free(t)
    BY <1>0, <1>2 DEF Token, PendingOnce, Free
  <2>2. /\ \A l \in Loops : loop'[l].task # t
        /\ admin'.task # t
        /\ ~(t > nextTask)
    BY <1>0, <2>1 DEF Token, InOneRound, Holding
  <2>3. recorded'[t] = 1
    BY <1>0, <1>2, <2>1 DEF Recorded
  <2>4. ~(t > nextTask')
    BY <2>2 DEF Holding, Typed, BoardTypes, Tasks
  <2>5. QED
    BY <1>0, <2>1, <2>2, <2>3, <2>4 DEF Token, InOneRound, PendingOnce, PipedOnce
<1>3. QED
  BY <1>1, <1>2

\* A free task that no loop or request holds any more is given to an agent.
LEMMA TaskGiven ==
    ASSUME Typed, Tokens, Holding, UNCHANGED <<recorded, settling>>,
           NEW a \in Agents, NEW g \in Tasks, Free(g), g <= nextTask,
           given' = [given EXCEPT ![g] = @ \cup {a}],
           meta' = meta \/ meta' = [meta EXCEPT ![a] = g],
           \A l \in Loops : loop'[l].task # g, admin'.task # g
    PROVE  Tokens'
<1> SUFFICES ASSUME NEW t \in Tasks PROVE Token(t)'
  BY DEF Tokens
<1>0. /\ t # NoTask /\ Token(t)
      /\ meta \in [Agents -> Tasks \cup {NoTask}] /\ given \in [Tasks -> SUBSET Agents]
  BY NamesAndNumbers DEF Tokens, Typed, AgentTypes, BookTypes
<1>1. CASE t # g
  BY <1>0, <1>1, Fewer DEF Holding
<1>2. CASE t = g
  <2>1. /\ given'[t] = {a} /\ recorded'[t] = 0
        /\ \A b \in Agents : \A r \in settling'[b] : r.task # t
        /\ \A b \in Agents : meta'[b] = t => b = a
    BY <1>0, <1>2 DEF Free
  <2>2. ~(t > nextTask')
    BY <1>2 DEF Holding, Typed, BoardTypes, Tasks
  <2>3. QED
    BY <1>0, <1>2, <2>1, <2>2 DEF Token, InOneRound, PendingOnce, PipedOnce
<1>3. QED
  BY <1>1, <1>2

\* A task is made: a loop's row or a request by hand holds it, and nothing else does.
LEMMA TaskMade ==
    ASSUME Typed, Tokens, UNCHANGED <<given, recorded, meta, settling>>,
           nextTask < MaxTasks, nextTask' = nextTask + 1,
           \/ /\ admin' = admin
              /\ \E l \in Loops : /\ loop'[l].task = nextTask'
                                  /\ \A k \in Loops \ {l} : loop'[k].task = loop[k].task
           \/ loop' = loop /\ admin'.task = nextTask'
    PROVE  Tokens'
<1> SUFFICES ASSUME NEW t \in Tasks PROVE Token(t)'
  BY DEF Tokens
<1>0. /\ Token(t) /\ t \in Nat /\ nextTask \in Nat /\ nextTask' \in Nat /\ nextTask <= nextTask'
  BY ArenaAssumption DEF Tokens, Tasks, Typed, BoardTypes
<1>1. CASE t # nextTask'
  BY <1>0, <1>1, Fewer
<1>2. CASE t = nextTask'
  <2>1. t > nextTask
    BY <1>0, <1>2
  <2>2. Free(t) /\ (\A l \in Loops : loop[l].task # t) /\ admin.task # t
    BY <1>0, <2>1 DEF Token, InOneRound
  <2>3. Free(t)'
    BY <2>2 DEF Free
  <2>4. InOneRound(t)' /\ (admin'.task = t => t <= nextTask')
    BY <1>0, <1>2, <2>2, <2>3 DEF InOneRound
  <2>5. QED
    BY <1>0, <1>2, <2>3, <2>4 DEF Token, PendingOnce, PipedOnce, Free
<1>3. QED
  BY <1>1, <1>2

\* Nothing is given or recorded: tasks stay where they are, or are let go.
LEMMA TokensStay ==
    ASSUME Typed, Tokens, Holding, UNCHANGED <<given, recorded, settling>>,
           \A a \in Agents : meta'[a] \in {meta[a], NoTask}
    PROVE  Tokens'
BY Fewer, NamesAndNumbers DEF Tokens, Holding

LEMMA HeldStill == Typed /\ UNCHANGED <<nextTask, loop, admin>> => Holding
BY ArenaAssumption DEF Holding, Typed, BoardTypes

\* A loop's row keeps its task or drops it.
LEMMA HeldByLoop ==
    ASSUME Typed, NEW l \in Loops, NEW at, NEW a,
           \/ loop' = [loop EXCEPT ![l] = [@ EXCEPT !.at = at]]
           \/ loop' = [loop EXCEPT ![l] = [@ EXCEPT !.at = at, !.agent = a]]
           \/ loop' = [loop EXCEPT ![l] = [Off EXCEPT !.at = at]],
           UNCHANGED <<nextTask, admin>>
    PROVE  Holding /\ (loop' = [loop EXCEPT ![l] = [Off EXCEPT !.at = at]] => loop'[l].task = NoTask)
<1>1. nextTask \in Nat /\ loop \in [Loops -> LoopRow]
  BY ArenaAssumption DEF Typed, BoardTypes, LoopTypes
<1>2. \A k \in Loops : loop'[k].task \in {loop[k].task, NoTask}
  <2>1. \A k \in Loops \ {l} : loop'[k] = loop[k]
    BY <1>1
  <2>2. loop[l] \in LoopRow
    BY <1>1
  <2>3. loop'[l].task \in {loop[l].task, NoTask}
    <3>1. CASE loop' = [loop EXCEPT ![l] = [@ EXCEPT !.at = at]]
      BY <1>1, <2>2, <3>1 DEF LoopRow
    <3>2. CASE loop' = [loop EXCEPT ![l] = [@ EXCEPT !.at = at, !.agent = a]]
      BY <1>1, <2>2, <3>2 DEF LoopRow
    <3>3. CASE loop' = [loop EXCEPT ![l] = [Off EXCEPT !.at = at]]
      BY <1>1, <3>3 DEF Off
    <3>4. QED
      BY <3>1, <3>2, <3>3
  <2>4. QED
    BY <2>1, <2>3
<1>3. loop' = [loop EXCEPT ![l] = [Off EXCEPT !.at = at]] => loop'[l].task = NoTask
  BY <1>1 DEF Off
<1>4. QED
  BY <1>1, <1>2, <1>3 DEF Holding

LEMMA TokensDispatch ==
    ASSUME Typed, Tokens, NEW l \in Loops, Dispatch(l)
    PROVE  Tokens'
<1> DEFINE row == loop[l]
<1>0. /\ loop \in [Loops -> LoopRow] /\ nextTask \in Nat
  BY ArenaAssumption DEF Typed, LoopTypes, BoardTypes
<1>1. CASE PutOnBoard(l)
  <2>1. CASE nextTask < MaxTasks /\ nextTask' = nextTask + 1
             /\ loop' = [loop EXCEPT ![l] = [row EXCEPT !.at = "announced", !.task = nextTask']]
    <3>1. loop'[l].task = nextTask' /\ \A k \in Loops \ {l} : loop'[k].task = loop[k].task
      BY <1>0, <2>1 DEF LoopRow
    <3>2. QED
      BY <1>1, <2>1, <3>1, TaskMade DEF PutOnBoard, agentVars, histVars
  <2>2. CASE UNCHANGED nextTask /\ loop' = [loop EXCEPT ![l].at = "resting"]
    <3>1. Holding
      BY <1>1, <2>2, HeldByLoop DEF PutOnBoard
    <3>2. QED
      BY <1>1, <3>1, TokensStay DEF PutOnBoard, agentVars, histVars
  <2>3. QED
    BY <1>1, <2>1, <2>2 DEF PutOnBoard
<1>2. CASE AskAgents(l)
  <2>1. Holding
    BY <1>2, HeldByLoop DEF AskAgents
  <2>2. QED
    BY <1>2, <2>1, TokensStay DEF AskAgents, agentVars, histVars
<1>3. ASSUME NEW a \in Agents, PreviewTimeout(l, a)
      PROVE  Tokens'
  <2>1. Holding
    BY <1>3, HeldStill DEF PreviewTimeout, loopVars
  <2>2. QED
    BY <1>3, <2>1, TokensStay DEF PreviewTimeout, agentVars, histVars
<1>4. ASSUME NEW a \in Agents, Assign(l, a)
      PROVE  Tokens'
  <2>1. CASE loop' = [loop EXCEPT ![l].at = "injecting", ![l].agent = a]
    <3>1. loop' = [loop EXCEPT ![l] = [row EXCEPT !.at = "injecting", !.agent = a]]
      BY <1>0, <2>1
    <3>2. Holding
      BY <1>4, <3>1, HeldByLoop DEF Assign
    <3>3. QED
      BY <1>4, <3>2, TokensStay DEF Assign, agentVars, histVars
  <2>2. CASE UNCHANGED loop
    <3>1. Holding
      BY <1>4, <2>2, HeldStill DEF Assign
    <3>2. QED
      BY <1>4, <3>1, TokensStay DEF Assign, agentVars, histVars
  <2>3. QED
    BY <1>4, <2>1, <2>2 DEF Assign
<1>5. CASE Injected(l)
  <2>1. row.task \in Tasks /\ row.agent \in Agents
    BY <1>5 DEF Injected, Typed, LoopTypes
  <2>2. loop' = [loop EXCEPT ![l] = [Off EXCEPT !.at = "resting"]] /\ UNCHANGED <<nextTask, admin>>
    BY <1>5 DEF Injected
  <2>3. Holding /\ loop'[l].task = NoTask
    BY <2>2, HeldByLoop
  <2>4. Free(row.task) /\ row.task <= nextTask /\ admin.task # row.task
        /\ \A k \in Loops : loop[k].task = row.task => k = l
    BY <2>1 DEF Tokens, Token, InOneRound
  <2>5. \A k \in Loops : loop'[k].task # row.task
    BY <1>0, <2>1, <2>2, <2>3, <2>4, NamesAndNumbers
  <2>6. meta' = meta \/ meta' = [meta EXCEPT ![row.agent] = row.task]
    BY <1>5 DEF Injected, Listed
  <2>7. /\ UNCHANGED <<recorded, settling>>
        /\ given' = [given EXCEPT ![row.task] = @ \cup {row.agent}]
    BY <1>5 DEF Injected
  <2>8. QED
    BY <2>1, <2>2, <2>3, <2>4, <2>5, <2>6, <2>7, TaskGiven
<1>6. CASE InjectFailed(l)
  <2>1. loop' = [loop EXCEPT ![l] = [row EXCEPT !.at = "asking", !.agent = NoAgent]]
    BY <1>6 DEF InjectFailed
  <2>2. UNCHANGED <<nextTask, admin>>
    BY <1>6 DEF InjectFailed
  <2>3. \A at, a : loop' = [loop EXCEPT ![l] = [loop[l] EXCEPT !.at = at, !.agent = a]] => Holding
    BY <2>2, HeldByLoop
  <2>4. Holding
    BY <2>1, <2>3
  <2>5. QED
    BY <1>6, <2>4, TokensStay DEF InjectFailed, agentVars, histVars
<1>7. CASE NobodyTakes(l)
  <2>1. Holding
    BY <1>7, HeldByLoop DEF NobodyTakes
  <2>2. QED
    BY <1>7, <2>1, TokensStay DEF NobodyTakes, agentVars, histVars
<1>8. CASE NextTick(l)
  <2>1. Holding
    BY <1>8, HeldByLoop DEF NextTick
  <2>2. QED
    BY <1>8, <2>1, TokensStay DEF NextTick, agentVars, histVars
<1>9. QED
  BY <1>1, <1>2, <1>3, <1>4, <1>5, <1>6, <1>7, <1>8 DEF Dispatch

LEMMA TaskDoneTokens ==
    ASSUME Typed, Tokens, Holding, UNCHANGED <<given, recorded>>,
           NEW a \in Agents, NEW by, TaskDone(a, by)
    PROVE  Tokens'
<1>1. CASE a \in present /\ busy[a]
  BY <1>1, PipeStarts DEF TaskDone
<1>2. CASE ~(a \in present /\ busy[a])
  BY <1>2, TokensStay DEF TaskDone
<1>3. QED
  BY <1>1, <1>2

LEMMA TokensProcess ==
    ASSUME Typed, Tokens, NEW a \in Agents, Process(a)
    PROVE  Tokens'
<1>0. /\ UNCHANGED <<nextTask, loop, admin>>
      /\ meta \in [Agents -> Tasks \cup {NoTask}]
  BY DEF Process, Answer, ToolLimit, GrowLate, Exit, ReadEnd, Respawn, loopVars, Typed, AgentTypes
<1>1. Holding
  BY <1>0, HeldStill
<1>2. CASE Answer(a)
  <2>1. UNCHANGED <<given, recorded>>
    BY <1>2 DEF Answer, histVars
  <2>2. TaskDone(a, "reader") \/ UNCHANGED <<settling, meta>>
    BY <1>2 DEF Answer
  <2>3. QED
    BY <1>1, <2>1, <2>2, TaskDoneTokens, TokensStay
<1>3. CASE ToolLimit(a)
  BY <1>1, <1>3, TaskDoneTokens DEF ToolLimit, histVars
<1>4. CASE GrowLate(a) \/ Exit(a) \/ Respawn(a)
  <2>1. UNCHANGED <<given, recorded, settling, meta>>
    BY <1>4 DEF GrowLate, Exit, Respawn, agentVars, histVars
  <2>2. QED
    BY <1>1, <2>1, TokensStay
<1>5. CASE ReadEnd(a)
  <2>1. UNCHANGED <<given, settling>>
    BY <1>5 DEF ReadEnd
  <2>2. \/ UNCHANGED <<meta, recorded>>
        \/ meta' = [meta EXCEPT ![a] = NoTask] /\ UNCHANGED recorded
        \/ meta' = [meta EXCEPT ![a] = NoTask] /\ recorded' = Recorded(meta[a])
    BY <1>5 DEF ReadEnd, ProcessExited
  <2>3. CASE UNCHANGED recorded /\ \A b \in Agents : meta'[b] \in {meta[b], NoTask}
    BY <1>1, <2>1, <2>3, TokensStay
  <2>4. CASE meta' = [meta EXCEPT ![a] = NoTask] /\ recorded' = Recorded(meta[a])
    BY <1>1, <2>1, <2>4, ExitRecords
  <2>5. QED
    BY <1>0, <2>2, <2>3, <2>4
<1>6. QED
  BY <1>2, <1>3, <1>4, <1>5 DEF Process

LEMMA TokensNext ==
    ASSUME Typed, Tokens, [Next]_vars
    PROVE  Tokens'
<1>0. meta \in [Agents -> Tasks \cup {NoTask}]
  BY DEF Typed, AgentTypes
<1>1. ASSUME NEW a \in Agents, Settle(a)
      PROVE  Tokens'
  <2>1. UNCHANGED <<nextTask, loop, admin, given, meta>>
    BY <1>1 DEF Settle, loopVars
  <2>2. PICK s \in settling[a] : settling' = [settling EXCEPT ![a] = @ \ {s}] /\ recorded' = Recorded(s.task)
    BY <1>1 DEF Settle
  <2>3. Holding
    BY <2>1, HeldStill
  <2>4. QED
    BY <2>1, <2>2, <2>3, PipeEnds
<1>2. ASSUME NEW a \in Agents, InjectByHand(a)
      PROVE  Tokens'
  <2>1. UNCHANGED <<given, recorded, meta, settling, loop>>
    BY <1>2 DEF InjectByHand, agentVars, histVars, loopVars
  <2>2. nextTask < MaxTasks /\ nextTask' = nextTask + 1 /\ admin'.task = nextTask'
    BY <1>2 DEF InjectByHand
  <2>3. QED
    BY <2>1, <2>2, TaskMade
<1>3. ASSUME NEW a \in Agents, TimeOut(a)
      PROVE  Tokens'
  <2>1. UNCHANGED <<nextTask, loop, admin, given, recorded>>
    BY <1>3 DEF TimeOut, loopVars, histVars
  <2>2. Holding
    BY <2>1, HeldStill
  <2>3. CASE /\ meta' = [meta EXCEPT ![a] = NoTask]
             /\ settling' = [settling EXCEPT ![a] = @ \cup {[by |-> "watchdog", task |-> meta[a]]}]
    BY <2>1, <2>2, <2>3, PipeStarts
  <2>4. CASE UNCHANGED settling /\ \A b \in Agents : meta'[b] \in {meta[b], NoTask}
    BY <2>1, <2>2, <2>4, TokensStay
  <2>5. QED
    BY <1>0, <1>3, <2>3, <2>4 DEF TimeOut
<1>4. CASE InjectedByHand
  <2>1. admin.agent \in Agents /\ admin.task \in Tasks
    BY <1>4 DEF InjectedByHand, Typed, BookTypes
  <2>2. UNCHANGED <<nextTask, loop, recorded, settling>> /\ admin' = NoRequest
    BY <1>4 DEF InjectedByHand, loopVars
  <2>3. Holding /\ admin'.task = NoTask
    BY <2>2, ArenaAssumption DEF Holding, NoRequest, Typed, BoardTypes
  <2>4. Free(admin.task) /\ admin.task <= nextTask /\ \A k \in Loops : loop[k].task # admin.task
    BY <2>1 DEF Tokens, Token, InOneRound
  <2>5. /\ given' = [given EXCEPT ![admin.task] = @ \cup {admin.agent}]
        /\ meta' = meta \/ meta' = [meta EXCEPT ![admin.agent] = admin.task]
    BY <1>4 DEF InjectedByHand, Listed
  <2>6. QED
    BY <2>1, <2>2, <2>3, <2>4, <2>5, TaskGiven, NamesAndNumbers
<1>5. CASE \/ StartDispatcher \/ StopDispatcher \/ ListOverdue \/ UNCHANGED vars
           \/ \E a \in Agents : DeleteAgent(a)
  <2>1. UNCHANGED <<nextTask, admin, given, recorded, meta, settling>>
    BY <1>5 DEF StartDispatcher, StopDispatcher, ListOverdue, DeleteAgent, vars,
                agentVars, histVars
  <2>2. \A l \in Loops : loop'[l].task = loop[l].task
    <3>1. CASE StartDispatcher
      <4>1. PICK l \in Loops : loop' = [loop EXCEPT ![l].at = "idle"]
        BY <3>1 DEF StartDispatcher
      <4>2. QED
        BY <4>1 DEF Typed, LoopTypes, LoopRow
    <3>2. CASE ~StartDispatcher
      BY <1>5, <3>2 DEF StopDispatcher, ListOverdue, DeleteAgent, vars, loopVars
    <3>3. QED
      BY <3>1, <3>2
  <2>3. Holding
    BY <2>1, <2>2, ArenaAssumption DEF Holding, Typed, BoardTypes
  <2>4. QED
    BY <2>1, <2>3, TokensStay
<1>6. ASSUME NEW l \in Loops, Dispatch(l)
      PROVE  Tokens'
  BY <1>6, TokensDispatch
<1>7. ASSUME NEW a \in Agents, Process(a)
      PROVE  Tokens'
  BY <1>7, TokensProcess
<1>8. QED
  BY <1>1, <1>2, <1>3, <1>4, <1>5, <1>6, <1>7 DEF Next, Watch

LEMMA TokensHold == Spec => [](Typed /\ Tokens)
<1>1. Init => Typed /\ Tokens
  BY TypedInit, TokensInit
<1>2. Typed /\ Tokens /\ [Next]_vars => (Typed /\ Tokens)'
  BY TypedNext, TokensNext
<1>3. QED
  BY <1>1, <1>2, PTL DEF Spec

LEMMA TokenCounts == Typed /\ Tokens => OneExecutor /\ RecordedOnce
<1> SUFFICES ASSUME Typed, Tokens, NEW t \in Tasks
             PROVE  Cardinality(given[t]) <= 1 /\ recorded[t] <= 1
  BY DEF OneExecutor, RecordedOnce
<1>1. recorded[t] <= 1 /\ \A a, b \in given[t] : a = b
  BY DEF Tokens, Token
<1>2. CASE given[t] = {}
  BY <1>1, <1>2, FS_EmptySet
<1>3. CASE given[t] # {}
  <2>1. PICK a \in given[t] : given[t] = {a}
    BY <1>1, <1>3
  <2>2. Cardinality({a}) = 1
    BY FS_Singleton
  <2>3. QED
    BY <1>1, <2>1, <2>2
<1>4. QED
  BY <1>2, <1>3

\* One agent carries out each task (task_dispatcher.py, process_manager.py),
\* for any number of agents, dispatcher loops, crashes and requests by hand.
THEOREM OneAgentPerTask == Spec => []OneExecutor
BY TokensHold, TokenCounts, PTL

\* Its outcome is entered in the history once (callbacks.py), whoever of the
\* process, the tool limit, the watchdog and the exit reports it.
THEOREM OneOutcomePerTask == Spec => []RecordedOnce
BY TokensHold, TokenCounts, PTL
===============================================================================
