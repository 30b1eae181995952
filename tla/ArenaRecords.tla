------------------------------ MODULE ArenaRecords ------------------------------
(***************************************************************************)
(* What the arena keeps on disk: the saved state in two copies              *)
(* (infra/persistence.py), the journals of tasks, refusals and departed     *)
(* agents with the files an older version left (infra/task_history.py,      *)
(* execution_log.py, eliminated_agents.py) and the letters between agents   *)
(* (infra/social_log.py), with the views that are made of them.             *)
(*                                                                         *)
(* A write is one action: nothing is awaited within it.  A process that     *)
(* ends between the two copies of the state is a save of which one copy     *)
(* is written.                                                              *)
(***************************************************************************)
EXTENDS Integers, Sequences, FiniteSets, SequencesExt

CONSTANTS
    ArenaAgents, TaskNames,  \* agents; texts of tasks
    MaxChanges,     \* bound: states of the arena that are saved
    MaxRecords,     \* bound: lines written to all journals
    MaxPost,        \* bound: letters
    NoRecord

VARIABLES
    arena,      \* the state in memory, None before it is loaded
    tables,     \* arena_state.db
    backup,     \* arena_state.json in the data directory
    legacy,     \* the one beside the program, from an older version
    changes,    \* history: the agents in every state of the arena
    complete,   \* history: the last state of which both copies were written
    books,      \* the journals
    written,    \* history: lines written to each journal by this version
    active,     \* tasks the arena knows to be worked on
    status,     \* history: what happened last to a task of an agent
    post,       \* history: all letters
    opened      \* the first letter in social_log.jsonl

storeVars == <<arena, tables, backup, legacy, changes, complete>>
bookVars  == <<books, written, active, status>>
postVars  == <<post, opened>>
recordVars == <<storeVars, bookVars, postVars>>

Books      == {"tasks", "refusals", "graves"}
TaskKinds  == {"assigned", "done", "partial"}
Entry      == [kind : TaskKinds \cup {"refused", "buried"}, agent : ArenaAgents, text : TaskNames \cup {NoRecord}]
SavedState == [n : 0 .. MaxChanges, who : SUBSET ArenaAgents]
EmptyState == [n |-> 0, who |-> {}]

\* There are agents, and a state of them may be saved; no file is no state, no
\* journal and no text.
ASSUME RecordsConstants ==
    /\ ArenaAgents # {} /\ MaxChanges \in Nat \ {0}
    /\ NoRecord \notin SavedState \cup Seq(Entry) \cup TaskNames

RecordsTypeOK ==
    /\ arena \in SavedState \cup {NoRecord} /\ tables \in SavedState
    /\ backup \in SavedState \cup {NoRecord} /\ legacy \in SavedState \cup {NoRecord}
    /\ changes \in Seq(SUBSET ArenaAgents) /\ complete \in 0 .. MaxChanges
    /\ \A j \in Books :
          /\ books[j].new = NoRecord \/ books[j].new \in Seq(Entry)
          /\ written[j] \in Seq(Entry)
    /\ active \subseteq ArenaAgents \X TaskNames
    /\ DOMAIN status \subseteq ArenaAgents \X TaskNames
    /\ opened \in 1 .. Len(post) + 1

RecordsInit ==
    /\ arena = NoRecord /\ tables = EmptyState
    /\ LET first == [n |-> 1, who |-> ArenaAgents]
       IN \/ backup = NoRecord /\ legacy = NoRecord /\ changes = <<>> /\ complete = 0
          \/ /\ \/ backup = first /\ legacy = NoRecord
                \/ backup = NoRecord /\ legacy = first
             /\ changes = <<ArenaAgents>> /\ complete = 1
    /\ \E left \in SUBSET Books :
          books = [j \in Books |->
                      [new |-> NoRecord,
                       old |-> IF j \in left
                               THEN <<[kind |-> CASE j = "tasks" -> "done"
                                                  [] j = "refusals" -> "refused"
                                                  [] OTHER -> "buried",
                                       agent |-> CHOOSE a \in ArenaAgents : TRUE,
                                       text |-> NoRecord]>>
                               ELSE NoRecord,
                       tried |-> FALSE]]
    /\ written = [j \in Books |-> <<>>]
    /\ active = {} /\ status = <<>>
    /\ post = <<>> /\ opened = 1

-----------------------------------------------------------------------------
(* The state.  It is saved by one transaction, then as a file that replaces *)
(* the backup; an error of either is logged and passed over.                *)

\* mutant: without agents the rows of the table are left
RowsLeft(image) ==
    [image EXCEPT !.who = IF @ = {} THEN tables.who ELSE @]

\* The transaction replaces all rows.
TableRows(image) == image

Stores(image) == tables' \in {TableRows(image), tables}

\* A new file is written aside and takes the name of the old one.
Copies(image) == backup' \in {image, backup}

SavesBoth(image) ==
    /\ Stores(image)
    /\ Copies(image)
    /\ complete' = IF tables' = TableRows(image) /\ backup' = image THEN image.n ELSE complete

\* An agent comes or leaves, or a balance changes.
ChangeState ==
    /\ arena # NoRecord /\ Len(changes) < MaxChanges
    /\ \E who \in SUBSET ArenaAgents :
          /\ changes' = Append(changes, who)
          /\ arena' = [n |-> Len(changes'), who |-> who]
    /\ SavesBoth(arena')
    /\ UNCHANGED <<legacy, bookVars, postVars>>

FromFile == IF backup # NoRecord THEN backup ELSE legacy

\* The table counts when it has agents and can be read.
ReadBack(readable) ==
    IF tables.who # {} /\ readable THEN tables
    ELSE IF FromFile # NoRecord THEN FromFile ELSE EmptyState

\* The process ends and starts again: what comes from a file goes to the table, and
\* all is saved again when there are agents.
LoadState(readable) ==
    /\ arena' = ReadBack(readable)
    /\ IF arena'.who # {} THEN SavesBoth(arena') ELSE UNCHANGED <<tables, backup, complete>>
    /\ UNCHANGED <<legacy, changes, postVars>>

-----------------------------------------------------------------------------
(* The journals.                                                           *)

\* mutant: the old file is copied over the new one
CopiedOver(b) ==
    IF b.tried THEN b
    ELSE [b EXCEPT !.tried = TRUE, !.new = IF b.old # NoRecord THEN b.old ELSE @]

\* The file of an older version is looked for once in the life of the process,
\* and taken when there is no new one yet.
TakenOver(b) ==
    IF b.tried THEN b
    ELSE [b EXCEPT !.tried = TRUE,
                   !.new = IF b.new = NoRecord /\ b.old # NoRecord THEN b.old ELSE @]

LineAdded(b, line) == [b EXCEPT !.new = IF @ = NoRecord THEN <<line>> ELSE Append(@, line)]

LinesOf(j) == IF books[j].new = NoRecord THEN <<>> ELSE books[j].new

BooksHaveRoom == Len(written["tasks"]) + Len(written["refusals"]) + Len(written["graves"]) < MaxRecords

\* The journal of tasks is written without a look at the old file.
Wrote(j, b, line) ==
    /\ BooksHaveRoom
    /\ books' = [books EXCEPT ![j] = LineAdded(b, line)]
    /\ written' = [written EXCEPT ![j] = Append(@, line)]

Journal(kind, a, t) == [kind |-> kind, agent |-> a, text |-> t]

Marked(a, t, what) ==
    status' = [p \in DOMAIN status \cup {<<a, t>>} |-> IF p = <<a, t>> THEN what ELSE status[p]]

AppendTaskAssigned(a, t) ==
    /\ \A x \in TaskNames : <<a, x>> \notin active
    /\ Wrote("tasks", books["tasks"], Journal("assigned", a, t))
    /\ active' = active \cup {<<a, t>>}
    /\ Marked(a, t, "assigned")
    /\ UNCHANGED <<storeVars, postVars>>

\* The judge has decided; the refusals of the text are counted for the line.
AppendTaskRecord(a, t) ==
    /\ <<a, t>> \in active
    /\ BooksHaveRoom
    /\ books' = [books EXCEPT !["tasks"] = LineAdded(@, Journal("done", a, t)),
                              !["refusals"] = TakenOver(@)]
    /\ written' = [written EXCEPT !["tasks"] = Append(@, Journal("done", a, t))]
    /\ active' = active \ {<<a, t>>}
    /\ Marked(a, t, "done")
    /\ UNCHANGED <<storeVars, postVars>>

\* The agent's process ends: what it did is kept if it used a tool.
AppendPartialTaskRecord(a, t) ==
    /\ <<a, t>> \in active
    /\ Wrote("tasks", books["tasks"], Journal("partial", a, t))
    /\ active' = active \ {<<a, t>>}
    /\ Marked(a, t, "partial")
    /\ UNCHANGED <<storeVars, postVars>>

AppendRefusal(a, t) ==
    /\ Wrote("refusals", TakenOver(books["refusals"]), Journal("refused", a, t))
    /\ UNCHANGED <<active, status, storeVars, postVars>>

AppendEliminated(a) ==
    /\ Wrote("graves", TakenOver(books["graves"]), Journal("buried", a, NoRecord))
    /\ UNCHANGED <<active, status, storeVars, postVars>>

\* Reading a journal migrates it.
Look(j) ==
    /\ ~books[j].tried
    /\ books' = [books EXCEPT ![j] = TakenOver(@)]
    /\ UNCHANGED <<written, active, status, storeVars, postVars>>

RestartRecords(readable) ==
    /\ LoadState(readable)
    /\ books' = [j \in Books |-> [books[j] EXCEPT !.tried = FALSE]]
    /\ active' = {}
    /\ UNCHANGED <<written, status>>

-----------------------------------------------------------------------------
(* What is read from the journals.                                         *)

\* Lines of all agents are read and those of others left out.
ClaimedBy(a) == {i \in DOMAIN LinesOf("tasks") : LinesOf("tasks")[i].agent = a}

CountOf(ls, t) == Cardinality({i \in DOMAIN ls : ls[i].text = t})

RefusalsOf(t) == CountOf(LinesOf("refusals"), t)

\* A task that is worked on, or the last line about it.
TaskRow(a, t) ==
    LET about == {i \in ClaimedBy(a) : LinesOf("tasks")[i].text = t}
    IN IF <<a, t>> \in active THEN "assigned"
       ELSE IF about = {} THEN NoRecord ELSE LinesOf("tasks")[Max(about)].kind

\* The last line of each task that is in hand or in the journal.
TaskList ==
    LET told == {<<LinesOf("tasks")[i].agent, LinesOf("tasks")[i].text>> : i \in DOMAIN LinesOf("tasks")}
    IN [p \in active \cup told |-> TaskRow(p[1], p[2])]

Named(j) == {LinesOf(j)[i].agent : i \in DOMAIN LinesOf(j)}

\* Those with a grave, then those who left lines and are not in the arena.
Departed ==
    Named("graves") \cup ((Named("tasks") \cup Named("refusals")) \ (IF arena = NoRecord THEN {} ELSE arena.who))

-----------------------------------------------------------------------------
(* Letters.  A letter's place in the history is its time.                  *)

AppendSocialMessage(a, b) ==
    /\ a # b /\ Len(post) < MaxPost
    /\ post' = Append(post, [from |-> a, to |-> b])
    /\ UNCHANGED <<opened, storeVars, bookVars>>

\* A file that has grown too large is put aside.
RotateIfNeeded ==
    /\ opened <= Len(post)
    /\ opened' = Len(post) + 1
    /\ UNCHANGED <<post, storeVars, bookVars>>

InFile == opened .. Len(post)

\* The last letters to an agent, for its next prompt.
RecentReceived(a, limit) ==
    LET got == {i \in InFile : post[i].to = a}
    IN {i \in got : Cardinality({k \in got : k > i}) < limit}

\* mutant: any letter to the sender counts as an answer
AnsweredEver(i, a) == \E k \in InFile : post[k].from = a /\ post[k].to = post[i].from

RepliedTo(i, a) == \E k \in InFile : k > i /\ post[k].from = a /\ post[k].to = post[i].from

\* Letters since then that have no answer.
PendingReplies(a, since) ==
    {i \in InFile : i >= since /\ post[i].to = a /\ ~RepliedTo(i, a)}

\* The writer of the last of them who is still there.
PickReplyTarget(a, since, there) ==
    LET open == {i \in PendingReplies(a, since) : post[i].from \in there}
    IN IF open = {} THEN NoRecord
       ELSE post[CHOOSE i \in open : \A k \in open : k <= i].from

-----------------------------------------------------------------------------
StoreNext == ChangeState \/ \E readable \in BOOLEAN : RestartRecords(readable)

JournalNext ==
    \/ \E a \in ArenaAgents, t \in TaskNames :
          \/ AppendTaskAssigned(a, t) \/ AppendTaskRecord(a, t)
          \/ AppendPartialTaskRecord(a, t) \/ AppendRefusal(a, t)
    \/ \E a \in ArenaAgents : AppendEliminated(a)
    \/ \E j \in Books : Look(j)
    \/ RestartRecords(TRUE)

PostNext ==
    \/ \E a, b \in ArenaAgents : AppendSocialMessage(a, b)
    \/ RotateIfNeeded

RecordsNext == StoreNext \/ JournalNext \/ PostNext

RecordsSpec == RecordsInit /\ [][RecordsNext]_recordVars

-----------------------------------------------------------------------------
(* Whatever write of a copy failed and wherever the process ended, what is  *)
(* loaded is one state of the arena, whole, and not older than the last one *)
(* of which both copies were written (infra/persistence.py:382-460).         *)
StateKept ==
    arena # NoRecord =>
        /\ arena.n >= complete
        /\ arena.n > 0 => arena.who = changes[arena.n]

(* No restart and no migration drops, doubles or reorders a line of a        *)
(* journal; what an older version left stands before it, except in a journal *)
(* of tasks that was written to before it was read                           *)
(* (infra/task_history.py:28-69, execution_log.py:21-34).                    *)
LinesKept ==
    \A j \in Books :
        LET old == IF books[j].old = NoRecord THEN <<>> ELSE books[j].old
        IN books[j].new # NoRecord =>
               \/ books[j].new = old \o written[j]
               \/ j = "tasks" /\ books[j].new = written[j]

(* The list of tasks shows for every agent and text what happened last, over *)
(* restarts too; no refusal is forgotten by the count that makes a task      *)
(* mandatory, and no agent that left a line in a journal but is gone is       *)
(* missing from the departed (api/routers/monitor.py:54-163,                 *)
(* infra/execution_log.py:61-86).                                            *)
ListIsCurrent ==
    /\ \A p \in DOMAIN status : p \in DOMAIN TaskList /\ TaskList[p] = status[p]
    /\ \A t \in TaskNames :
          RefusalsOf(t) = CountOf(written["refusals"], t)
    /\ \A j \in Books : \A i \in DOMAIN written[j] :
          written[j][i].agent \in Departed \cup (IF arena = NoRecord THEN {} ELSE arena.who)

(* An agent owes an answer to just those whose letter is the last one         *)
(* between the two, and answers the one who wrote last                       *)
(* (infra/social_log.py:109-174, services/agent_comms.py:153-183).           *)
AnswersOwed ==
    \A a \in ArenaAgents, since \in 1 .. Len(post) + 1 :
        LET Between(b) == {i \in InFile : {post[i].from, post[i].to} = {a, b}}
            owes == {b \in ArenaAgents : \E i \in Between(b) :
                        /\ i >= since /\ post[i].from = b
                        /\ \A k \in Between(b) : k <= i}
        IN /\ {post[i].from : i \in PendingReplies(a, since)} = owes
           /\ owes # {} =>
                 LET b == PickReplyTarget(a, since, ArenaAgents)
                 IN \A c \in owes : \E i \in Between(b) : \A k \in Between(c) : k <= i
           /\ \A n \in 1 .. MaxPost : Cardinality(RecentReceived(a, n)) <= n

RecordsAgree == StateKept /\ LinesKept /\ ListIsCurrent /\ AnswersOwed
===============================================================================
