------------------------------ MODULE ArenaTasks ------------------------------
(***************************************************************************)
(* The arena: a dispatcher puts tasks on a board and offers each to every   *)
(* idle agent (task_dispatcher.py, core/callbacks.py); an agent is a child  *)
(* process that answers requests in their order (process_manager.py); a     *)
(* task ends by the process's answer, by the tool limit, by a timeout       *)
(* (arena_monitor.py) or by the end of the process.                         *)
(*                                                                         *)
(* A handler is cut at its awaits: the dispatcher's loops, the readers of   *)
(* the processes' output, the watchdog of timeouts and the administrator's  *)
(* requests are coroutines of one event loop.                               *)
(***************************************************************************)
EXTENDS Integers, Sequences, FiniteSets

CONSTANTS
    Agents,         \* names of agents
    Loops,          \* dispatcher loops that may exist side by side
    NoAgent, NoLoop,
    MaxTasks,       \* bound: tasks put on the board or injected by hand
    MaxAvailable    \* MAX_AVAILABLE_TASKS

ASSUME ArenaAssumption ==
    /\ MaxTasks \in Nat
    /\ MaxAvailable \in Nat \ {0}
    /\ NoAgent \notin Agents
    /\ NoLoop \notin Loops

Tasks  == 1..MaxTasks
NoTask == 0

VARIABLES
    present,    \* agents of the arena
    busy,       \* in_task
    meta,       \* pending task of an agent
    exe,        \* what the monitor has of an agent: no execution, a young or a late one
    proc,       \* the child process: up, exited (still listed), gone (not listed)
    reader,     \* the coroutine that reads the process's output
    inbox,      \* requests the process has not answered yet
    limit,      \* agents in _tool_limit_exceeded
    future,     \* the loop whose preview waits for the agent's next answer
    running,    \* the dispatcher's flag
    loop,       \* where each dispatcher loop is
    asked,      \* what each loop knows of its previews
    board,      \* tasks on the board
    nextTask,   \* tasks made so far
    settling,   \* pipelines of finished tasks, per agent
    overdue,    \* agents the timeout check has still to treat
    admin,      \* the task a request by hand is writing, and to whom
    given,      \* history: who was given each task
    recorded    \* history: how often the outcome of each task was recorded

agentVars == <<present, busy, meta, exe>>
procVars  == <<proc, reader, inbox, limit>>
loopVars  == <<running, loop, board>>
histVars  == <<given, recorded>>
vars == <<agentVars, procVars, loopVars, histVars, future, asked, nextTask, settling, overdue, admin>>

Off     == [at |-> "off", task |-> NoTask, agent |-> NoAgent]
NoRequest == [agent |-> NoAgent, task |-> NoTask]
Request == [kind : {"preview", "task"}, task : Tasks \cup {NoTask}]

TypeOK ==
    /\ present \subseteq Agents
    /\ busy \in [Agents -> BOOLEAN]
    /\ meta \in [Agents -> Tasks \cup {NoTask}]
    /\ exe \in [Agents -> {"none", "young", "late"}]
    /\ proc \in [Agents -> {"up", "exited", "gone"}]
    /\ reader \in [Agents -> {"reading", "settling", "backoff", "off"}]
    /\ inbox \in [Agents -> Seq(Request)]
    /\ limit \subseteq Agents
    /\ future \in [Agents -> Loops \cup {NoLoop}]
    /\ running \in BOOLEAN
    /\ loop \in [Loops -> [at : {"off", "idle", "announced", "asking", "injecting", "resting"},
                           task : Tasks \cup {NoTask}, agent : Agents \cup {NoAgent}]]
    /\ asked \in [Loops -> [Agents -> {"no", "waiting", "accepted", "refused", "blank"}]]
    /\ board \subseteq Tasks /\ Cardinality(board) <= MaxAvailable
    /\ nextTask \in 0..MaxTasks
    /\ settling \in [Agents -> SUBSET [by : {"reader", "watchdog"}, task : Tasks \cup {NoTask}]]
    /\ overdue \subseteq Agents
    /\ admin \in [agent : Agents \cup {NoAgent}, task : Tasks \cup {NoTask}]
    /\ given \in [Tasks -> SUBSET Agents]
    /\ recorded \in [Tasks -> Nat]

Init ==
    /\ present = Agents
    /\ busy = [a \in Agents |-> FALSE]
    /\ meta = [a \in Agents |-> NoTask]
    /\ exe = [a \in Agents |-> "none"]
    /\ proc = [a \in Agents |-> "up"]
    /\ reader = [a \in Agents |-> "reading"]
    /\ inbox = [a \in Agents |-> <<>>]
    /\ limit = {}
    /\ future = [a \in Agents |-> NoLoop]
    /\ running = FALSE
    /\ loop = [l \in Loops |-> Off]
    /\ asked = [l \in Loops |-> [a \in Agents |-> "no"]]
    /\ board = {}
    /\ nextTask = 0
    /\ settling = [a \in Agents |-> {}]
    /\ overdue = {}
    /\ admin = NoRequest
    /\ given = [t \in Tasks |-> {}]
    /\ recorded = [t \in Tasks |-> 0]

IdleAgents == {a \in present : ~busy[a]}

-------------------------------------------------------------------------------
(* The dispatcher *)

StartDispatcher ==
    /\ ~running
    /\ \E l \in Loops :
          /\ loop[l].at = "off"
          /\ loop' = [loop EXCEPT ![l].at = "idle"]
    /\ running' = TRUE
    /\ UNCHANGED <<agentVars, procVars, histVars, future, asked, board, nextTask, settling, overdue, admin>>

StopDispatcher ==
    /\ running
    /\ running' = FALSE
    /\ UNCHANGED <<agentVars, procVars, histVars, loop, future, asked, board, nextTask, settling, overdue, admin>>

InRound == {loop[l].task : l \in Loops}

\* Tasks that lay on the board for an hour leave it; a task of a round that is
\* under way is younger than that.
Expired(b) == \E old \in SUBSET (board \ InRound) : b = board \ old

\* mutant: the board's cap is one off
PutOnFullBoard(l) ==
    /\ loop[l].at = "idle"
    /\ \E left \in SUBSET board, pooled \in BOOLEAN :
          /\ Expired(left)
          /\ IF pooled /\ Cardinality(left) <= MaxAvailable /\ IdleAgents # {} /\ nextTask < MaxTasks
             THEN /\ nextTask' = nextTask + 1
                  /\ board' = left \cup {nextTask'}
                  /\ loop' = [loop EXCEPT ![l] = [@ EXCEPT !.at = "announced", !.task = nextTask']]
             ELSE /\ board' = left
                  /\ loop' = [loop EXCEPT ![l].at = "resting"]
                  /\ UNCHANGED nextTask
    /\ UNCHANGED <<agentVars, procVars, histVars, future, running, asked, settling, overdue, admin>>

\* _tick up to the broadcast of the new task; the pool may have none.
PutOnBoard(l) ==
    /\ loop[l].at = "idle"
    /\ \E left \in SUBSET board, pooled \in BOOLEAN :
          /\ Expired(left)
          /\ IF pooled /\ Cardinality(left) < MaxAvailable /\ IdleAgents # {} /\ nextTask < MaxTasks
             THEN /\ nextTask' = nextTask + 1
                  /\ board' = left \cup {nextTask'}
                  /\ loop' = [loop EXCEPT ![l] = [@ EXCEPT !.at = "announced", !.task = nextTask']]
             ELSE /\ board' = left
                  /\ loop' = [loop EXCEPT ![l].at = "resting"]
                  /\ UNCHANGED nextTask
    /\ UNCHANGED <<agentVars, procVars, histVars, future, running, asked, settling, overdue, admin>>

\* Every idle agent is asked; one without a process refuses at once.
Reachable(a) == proc[a] = "up"

AskAgents(l) ==
    /\ loop[l].at = "announced"
    /\ loop' = [loop EXCEPT ![l].at = IF IdleAgents = {} THEN "resting" ELSE "asking"]
    /\ asked' = [asked EXCEPT ![l] =
                    [a \in Agents |-> IF a \notin IdleAgents THEN "no"
                                      ELSE IF Reachable(a) THEN "waiting" ELSE "refused"]]
    /\ future' = [a \in Agents |-> IF a \in IdleAgents /\ Reachable(a) THEN l ELSE future[a]]
    /\ inbox' = [a \in Agents |->
                    IF a \in IdleAgents /\ Reachable(a)
                    THEN Append(inbox[a], [kind |-> "preview", task |-> loop[l].task]) ELSE inbox[a]]
    /\ UNCHANGED <<agentVars, proc, reader, limit, histVars, running, board, nextTask, settling, overdue, admin>>

\* mutant: a future that was dropped from the table is waited for
PreviewTimeoutRegistered(l, a) ==
    /\ asked[l][a] = "waiting"
    /\ future[a] = l
    /\ asked' = [asked EXCEPT ![l][a] = "refused"]
    /\ future' = [future EXCEPT ![a] = NoLoop]
    /\ UNCHANGED <<agentVars, procVars, loopVars, histVars, nextTask, settling, overdue, admin>>

\* A preview gives up after 90 seconds. It drops whatever future is registered.
PreviewTimeout(l, a) ==
    /\ asked[l][a] = "waiting"
    /\ asked' = [asked EXCEPT ![l][a] = "refused"]
    /\ future' = [future EXCEPT ![a] = NoLoop]
    /\ UNCHANGED <<agentVars, procVars, loopVars, histVars, nextTask, settling, overdue, admin>>

\* An empty answer counts as an acceptance.
Accepting == {"accepted", "blank"}

\* inject_task up to the drain of the pipe; a dead process leaves the table.
Written(a, t) ==
    IF proc[a] = "up"
    THEN inbox' = [inbox EXCEPT ![a] = Append(@, [kind |-> "task", task |-> t])] /\ UNCHANGED proc
    ELSE proc' = [proc EXCEPT ![a] = "gone"] /\ UNCHANGED inbox

\* The first acceptance gets the task: the request is written, then the pipe is drained.
Assign(l, a) ==
    /\ loop[l].at = "asking"
    /\ asked[l][a] \in Accepting
    /\ Written(a, loop[l].task)
    /\ IF proc[a] = "up"
       THEN loop' = [loop EXCEPT ![l].at = "injecting", ![l].agent = a] /\ UNCHANGED asked
       ELSE asked' = [asked EXCEPT ![l][a] = "refused"] /\ UNCHANGED loop
    /\ UNCHANGED <<agentVars, reader, limit, histVars, future, running, board, nextTask, settling, overdue, admin>>

\* mutant: begin_task comes only with the first event
ListedUnwatched(a, t) ==
    /\ busy' = [busy EXCEPT ![a] = TRUE]
    /\ meta' = [meta EXCEPT ![a] = t]
    /\ UNCHANGED exe

\* The books an injected task is entered in.
Listed(a, t) ==
    /\ busy' = [busy EXCEPT ![a] = TRUE]
    /\ meta' = [meta EXCEPT ![a] = t]
    /\ exe' = [exe EXCEPT ![a] = "young"]

\* mutant: the round goes on after an agent got the task
InjectedAsksOn(l) ==
    /\ loop[l].at = "injecting"
    /\ LET a == loop[l].agent
           t == loop[l].task
       IN  /\ IF a \in present THEN Listed(a, t) ELSE UNCHANGED <<busy, meta, exe>>
           /\ given' = [given EXCEPT ![t] = @ \cup {a}]
           /\ board' = board \ {t}
           /\ UNCHANGED future
           /\ asked' = [asked EXCEPT ![l] = [x \in Agents |-> IF x = a THEN "no" ELSE @[x]]]
           /\ loop' = [loop EXCEPT ![l] = [@ EXCEPT !.at = "asking", !.agent = NoAgent]]
    /\ UNCHANGED <<present, procVars, recorded, running, nextTask, settling, overdue, admin>>

\* After the drain: the task is booked, the other previews are cancelled.
Injected(l) ==
    /\ loop[l].at = "injecting"
    /\ LET a == loop[l].agent
           t == loop[l].task
       IN  /\ IF a \in present THEN Listed(a, t) ELSE UNCHANGED <<busy, meta, exe>>
           /\ given' = [given EXCEPT ![t] = @ \cup {a}]
           /\ board' = board \ {t}
           /\ future' = [x \in Agents |-> IF asked[l][x] = "waiting" THEN NoLoop ELSE future[x]]
           /\ asked' = [asked EXCEPT ![l] = [x \in Agents |-> "no"]]
           /\ loop' = [loop EXCEPT ![l] = [Off EXCEPT !.at = "resting"]]
    /\ UNCHANGED <<present, procVars, recorded, running, nextTask, settling, overdue, admin>>

\* The pipe broke while it was drained: the next acceptance is tried.
InjectFailed(l) ==
    /\ loop[l].at = "injecting"
    /\ proc[loop[l].agent] # "up"
    /\ asked' = [asked EXCEPT ![l][loop[l].agent] = "refused"]
    /\ loop' = [loop EXCEPT ![l].at = "asking", ![l].agent = NoAgent]
    /\ UNCHANGED <<agentVars, procVars, histVars, future, running, board, nextTask, settling, overdue, admin>>

\* Nobody accepted: the task stays on the board.
NobodyTakes(l) ==
    /\ loop[l].at = "asking"
    /\ \A a \in Agents : asked[l][a] \in {"no", "refused"}
    /\ loop' = [loop EXCEPT ![l] = [Off EXCEPT !.at = "resting"]]
    /\ asked' = [asked EXCEPT ![l] = [x \in Agents |-> "no"]]
    /\ UNCHANGED <<agentVars, procVars, histVars, future, running, board, nextTask, settling, overdue, admin>>

\* Between two ticks: a loop ends only if it finds the flag cleared.
NextTick(l) ==
    /\ loop[l].at = "resting"
    /\ loop' = [loop EXCEPT ![l] = [Off EXCEPT !.at = IF running THEN "idle" ELSE "off"]]
    /\ UNCHANGED <<agentVars, procVars, histVars, future, running, asked, board, nextTask, settling, overdue, admin>>

-------------------------------------------------------------------------------
(* The end of a task *)

\* mutant: the pending task is read but not popped
TaskDoneKeepsPending(a, by) ==
    IF a \in present /\ busy[a]
    THEN /\ settling' = [settling EXCEPT ![a] = @ \cup {[by |-> by, task |-> meta[a]]}]
         /\ UNCHANGED meta
         /\ exe' = [exe EXCEPT ![a] = "none"]
    ELSE UNCHANGED <<settling, meta, exe>>

\* on_task_done up to its first await; ignored if the agent is not in a task.
TaskDone(a, by) ==
    IF a \in present /\ busy[a]
    THEN /\ settling' = [settling EXCEPT ![a] = @ \cup {[by |-> by, task |-> meta[a]]}]
         /\ meta' = [meta EXCEPT ![a] = NoTask]
         /\ exe' = [exe EXCEPT ![a] = "none"]
    ELSE UNCHANGED <<settling, meta, exe>>

Removed(a) ==
    /\ present' = present \ {a}
    /\ proc' = [proc EXCEPT ![a] = "gone"]
    /\ limit' = limit \ {a}
    /\ inbox' = [inbox EXCEPT ![a] = <<>>]
    /\ future' = [future EXCEPT ![a] = NoLoop]
    /\ asked' = [l \in Loops |-> [asked[l] EXCEPT ![a] = IF future[a] = l THEN "blank" ELSE @]]

\* After a line the reader goes on only if its process is still listed.
ReadsOn(a) == IF proc[a] = "gone" THEN "off" ELSE "reading"

\* The judged outcome goes into the history; a pipeline without a task leaves none.
Recorded(t) == IF t = NoTask THEN recorded ELSE [recorded EXCEPT ![t] = @ + 1]

\* A second zero balance ends the agent.
Eliminated(a) == a \in present /\ Removed(a)

\* The pipeline records the outcome and may eliminate the agent; in_task is reset.
Settle(a) ==
    \E s \in settling[a], eliminated \in BOOLEAN :
        /\ settling' = [settling EXCEPT ![a] = @ \ {s}]
        /\ recorded' = Recorded(s.task)
        /\ IF eliminated
           THEN Eliminated(a)
           ELSE UNCHANGED <<present, proc, limit, inbox, future, asked>>
        /\ busy' = [busy EXCEPT ![a] = IF a \in present' THEN FALSE ELSE @]
        /\ reader' = [reader EXCEPT ![a] =
                         IF a \notin present' THEN "off" ELSE IF s.by = "reader" THEN ReadsOn(a) ELSE @]
    /\ UNCHANGED <<meta, exe, loopVars, given, nextTask, overdue, admin>>

\* A done or an error event of the oldest request.
Answer(a) ==
    /\ reader[a] = "reading"
    /\ inbox[a] # <<>>
    /\ inbox' = [inbox EXCEPT ![a] = Tail(@)]
    /\ IF a \in limit
       THEN /\ limit' = limit \ {a}
            /\ reader' = [reader EXCEPT ![a] = ReadsOn(a)]
            /\ UNCHANGED <<future, asked, settling, meta, exe>>
       ELSE IF future[a] # NoLoop
       THEN /\ \E verdict \in {"accepted", "refused", "blank"} :
                  asked' = [asked EXCEPT ![future[a]][a] = verdict]
            /\ future' = [future EXCEPT ![a] = NoLoop]
            /\ reader' = [reader EXCEPT ![a] = ReadsOn(a)]
            /\ UNCHANGED <<limit, settling, meta, exe>>
       ELSE /\ TaskDone(a, "reader")
            /\ reader' = [reader EXCEPT ![a] = IF settling' = settling THEN ReadsOn(a) ELSE "settling"]
            /\ UNCHANGED <<limit, future, asked>>
    /\ UNCHANGED <<present, busy, proc, loopVars, histVars, nextTask, overdue, admin>>

\* The process used too many tools: its task fails; the soft restart comes after (Exit).
ToolLimit(a) ==
    /\ reader[a] = "reading"
    /\ inbox[a] # <<>>
    /\ a \notin limit
    /\ limit' = limit \cup {a}
    /\ TaskDone(a, "reader")
    /\ reader' = [reader EXCEPT ![a] = IF settling' = settling THEN ReadsOn(a) ELSE "settling"]
    /\ UNCHANGED <<present, busy, proc, inbox, loopVars, histVars, future, asked, nextTask, overdue, admin>>

GrowLate(a) ==
    /\ exe[a] = "young"
    /\ exe' = [exe EXCEPT ![a] = "late"]
    /\ UNCHANGED <<present, busy, meta, procVars, loopVars, histVars, future, asked, nextTask, settling, overdue, admin>>

\* check_task_timeouts: the list is made once, then each agent in it is treated.
ListOverdue ==
    /\ overdue = {}
    /\ overdue' = {a \in Agents : exe[a] = "late"}
    /\ overdue' # {}
    /\ UNCHANGED <<agentVars, procVars, loopVars, histVars, future, asked, nextTask, settling, admin>>

WatchdogBusy == \E a \in Agents : \E s \in settling[a] : s.by = "watchdog"

\* mutant: the timeout looks at in_task before it ends the execution
TimeOutInTask(a) ==
    /\ a \in overdue
    /\ ~WatchdogBusy
    /\ overdue' = overdue \ {a}
    /\ IF a \in present /\ busy[a]
       THEN /\ meta' = [meta EXCEPT ![a] = NoTask]
            /\ exe' = [exe EXCEPT ![a] = "none"]
            /\ settling' = IF busy[a]
                           THEN [settling EXCEPT ![a] = @ \cup {[by |-> "watchdog", task |-> meta[a]]}]
                           ELSE settling
       ELSE UNCHANGED <<meta, exe, settling>>
    /\ UNCHANGED <<present, busy, procVars, loopVars, histVars, future, asked, nextTask, admin>>

TimeOut(a) ==
    /\ a \in overdue
    /\ ~WatchdogBusy
    /\ overdue' = overdue \ {a}
    /\ IF a \in present
       THEN /\ meta' = [meta EXCEPT ![a] = NoTask]
            /\ exe' = [exe EXCEPT ![a] = "none"]
            /\ settling' = IF busy[a]
                           THEN [settling EXCEPT ![a] = @ \cup {[by |-> "watchdog", task |-> meta[a]]}]
                           ELSE settling
       ELSE UNCHANGED <<meta, exe, settling>>
    /\ UNCHANGED <<present, busy, procVars, loopVars, histVars, future, asked, nextTask, admin>>

-------------------------------------------------------------------------------
(* Processes and agents *)

\* A crash, or the terminate of a soft restart.
Exit(a) ==
    /\ proc[a] = "up"
    /\ proc' = [proc EXCEPT ![a] = "exited"]
    /\ UNCHANGED <<agentVars, reader, inbox, limit, loopVars, histVars, future, asked, nextTask, settling, overdue, admin>>

\* on_process_exit: only a task that has used tools is recorded and frees its agent.
ProcessExited(a) ==
    IF a \in present /\ busy[a]
    THEN /\ meta' = [meta EXCEPT ![a] = NoTask]
         /\ exe' = [exe EXCEPT ![a] = "none"]
         /\ \E usedTools \in BOOLEAN :
               IF usedTools /\ exe[a] # "none" /\ meta[a] # NoTask
               THEN /\ busy' = [busy EXCEPT ![a] = FALSE]
                    /\ recorded' = Recorded(meta[a])
               ELSE UNCHANGED <<busy, recorded>>
    ELSE UNCHANGED <<meta, exe, busy, recorded>>

\* The reader finds the end of the output.
ReadEnd(a) ==
    /\ reader[a] = "reading"
    /\ proc[a] # "up"
    /\ reader' = [reader EXCEPT ![a] = "backoff"]
    /\ inbox' = [inbox EXCEPT ![a] = <<>>]
    /\ ProcessExited(a)
    /\ UNCHANGED <<present, proc, limit, loopVars, given, future, asked, nextTask, settling, overdue, admin>>

\* A new process with a reader of its own; what it had been asked is lost.
Spawned(a) ==
    /\ proc' = [proc EXCEPT ![a] = "up"]
    /\ reader' = [reader EXCEPT ![a] = "reading"]

Respawn(a) ==
    /\ reader[a] = "backoff"
    /\ \/ Spawned(a)
       \/ /\ reader' = [reader EXCEPT ![a] = "off"]   \* the spawn failed: no further try
          /\ UNCHANGED proc
    /\ UNCHANGED <<agentVars, inbox, limit, loopVars, histVars, future, asked, nextTask, settling, overdue, admin>>

DeleteAgent(a) ==
    /\ a \in present
    /\ Removed(a)
    /\ reader' = [reader EXCEPT ![a] = "off"]
    /\ UNCHANGED <<busy, meta, exe, loopVars, histVars, nextTask, settling, overdue, admin>>

\* POST /tasks/inject: any agent with a process, idle or not.
InjectByHand(a) ==
    /\ admin = NoRequest
    /\ nextTask < MaxTasks
    /\ proc[a] = "up"
    /\ nextTask' = nextTask + 1
    /\ admin' = [agent |-> a, task |-> nextTask']
    /\ Written(a, nextTask')
    /\ UNCHANGED <<agentVars, reader, limit, loopVars, histVars, future, asked, settling, overdue>>

InjectedByHand ==
    /\ admin # NoRequest
    /\ IF admin.agent \in present THEN Listed(admin.agent, admin.task) ELSE UNCHANGED <<busy, meta, exe>>
    /\ given' = [given EXCEPT ![admin.task] = @ \cup {admin.agent}]
    /\ admin' = NoRequest
    /\ UNCHANGED <<present, procVars, loopVars, recorded, future, asked, nextTask, settling, overdue>>

-------------------------------------------------------------------------------
Dispatch(l) ==
    \/ PutOnBoard(l)
    \/ AskAgents(l)
    \/ \E a \in Agents : PreviewTimeout(l, a) \/ Assign(l, a)
    \/ Injected(l)
    \/ InjectFailed(l)
    \/ NobodyTakes(l)
    \/ NextTick(l)

Watch == ListOverdue \/ \E a \in Agents : TimeOut(a)

Process(a) ==
    \/ Answer(a)
    \/ ToolLimit(a)
    \/ GrowLate(a)
    \/ Exit(a)
    \/ ReadEnd(a)
    \/ Respawn(a)

Next ==
    \/ StartDispatcher
    \/ StopDispatcher
    \/ \E l \in Loops : Dispatch(l)
    \/ Watch
    \/ \E a \in Agents :
          \/ Process(a)
          \/ Settle(a)
          \/ DeleteAgent(a)
          \/ InjectByHand(a)
    \/ InjectedByHand

Spec == Init /\ [][Next]_vars

\* The event loop runs every coroutine that can go on, and time passes. Agents
\* may stay silent, exit or be deleted; the administrator promises nothing.
FairSpec ==
    /\ Spec
    /\ \A l \in Loops : WF_vars(Dispatch(l))
    /\ WF_vars(Watch)
    /\ \A a \in Agents : WF_vars(Settle(a)) /\ WF_vars(GrowLate(a)) /\ WF_vars(ReadEnd(a))
    /\ WF_vars(InjectedByHand)

-------------------------------------------------------------------------------
(* Properties *)

\* A task of the board is carried out by one agent, whatever fails between the
\* first acceptance and the drained request, and however many loops run.
OneExecutor == \A t \in Tasks : Cardinality(given[t]) <= 1

\* The outcome of a task is entered in the history once, though its answer, the
\* tool limit, the timeout and the end of its process may all report it.
RecordedOnce == \A t \in Tasks : recorded[t] <= 1

\* An agent with a pending task is watched, and nothing else is: no task can
\* fall out of the watchdog's sight, and no execution times out without a task.
WatchedWhilePending == \A a \in Agents : (meta[a] # NoTask) <=> (exe[a] # "none")

\* No round of the dispatcher hangs: silent agents cost it 90 seconds, lost
\* futures and dead processes nothing.
RoundsEnd ==
    \A l \in Loops : loop[l].at \in {"announced", "asking", "injecting"} ~> loop[l].at = "resting"

\* An execution over its time is ended unless its agent left the arena.
LateIsEnded == \A a \in Agents : exe[a] = "late" /\ a \in present ~> exe[a] # "late" \/ a \notin present

\* "idempotent: already handled (e.g. the timeout came first)" (callbacks.py:765):
\* an agent's task is processed by one pipeline.
SettledOnce == \A a \in Agents : Cardinality(settling[a]) <= 1
===============================================================================
