----------------------------- MODULE Conversations -----------------------------
(***************************************************************************)
(* The conversations with one hosted agent (infra/claude_agent_runs.py,    *)
(* routers/coding_agent.py, services/claude_code_runner.py and             *)
(* claude_agent_sdk_runner.py): a run answers the run before it, resumes   *)
(* the session the Claude SDK kept of it or is given what was said, leaves *)
(* events that clients watch as a stream, and goes with its conversation.  *)
(*                                                                         *)
(* When runs are queued, started, cancelled and taken for dead is in       *)
(* HostedRuns; a run that is cancelled, times out or raises is one that    *)
(* fails here.  Runs of other accounts are left out.                       *)
(***************************************************************************)
EXTENDS Naturals, Sequences, FiniteSets, SequencesExt, FiniteSetsExt

CONSTANTS MaxRuns, MaxTexts,  \* bounds: runs; different texts of one run
          Sizes,              \* tokens of a round
          Seconds,            \* seconds that pass before a run is created
          TriggerLimit,       \* runs POST /trigger looks at
          HistoryRounds,      \* max_rounds
          Budget,             \* EVOTOWN_CLAUDE_HISTORY_TOKEN_BUDGET
          EventLimit,         \* events a stream lists
          Watched             \* runs a client may watch

ASSUME ConversationsAssumption ==
    /\ MaxRuns \in Nat \ {0} /\ MaxTexts \in Nat
    /\ Seconds \subseteq Nat /\ HistoryRounds \in Nat /\ EventLimit \in Nat

VARIABLES
    chats,    \* claude_agent_runs, numbered as they were created
    journal,  \* claude_agent_run_events
    acting,   \* the query of each run
    minds,    \* the rounds in the Claude SDK's sessions, each named after a run
    viewer,   \* a client's stream
    doomed    \* the runs a deletion is about to delete

talkVars == <<chats, journal, acting, minds, viewer, doomed>>

Numbers  == 1 .. Len(chats)
ChatRows == {r \in Numbers : chats[r].status # "deleted"}
Ongoing  == {r \in Numbers : chats[r].status \in {"queued", "running"}}
Ended    == {"succeeded", "failed"}

\* 0 stands for no run and no session.
TalkTypeOK ==
    /\ chats \in Seq([prev : 0 .. MaxRuns, at : 1 .. MaxRuns, size : Sizes,
                      status : Ended \cup {"queued", "running", "deleted"},
                      session : 0 .. MaxRuns, asked : 0 .. MaxRuns])
    /\ Len(chats) <= MaxRuns /\ Len(journal) = Len(chats) /\ Len(acting) = Len(chats)
    /\ \A r \in Numbers : acting[r].query \in {"none", "resume", "fresh", "over"}
    /\ DOMAIN minds = 1 .. MaxRuns
    /\ doomed \subseteq Numbers

NoQuery == [query |-> "none", buffer |-> <<>>, said |-> {}, past |-> <<>>, from |-> 0,
         session |-> 0, ok |-> FALSE]

\* There may be a run with a session already.
TalkInit ==
    /\ \/ chats = <<>> /\ journal = <<>> /\ acting = <<>>
       \/ /\ \E size \in Sizes :
                chats = <<[prev |-> 0, at |-> 1, size |-> size, status |-> "succeeded",
                           session |-> 1, asked |-> 0]>>
          /\ journal = <<<<>>>>
          /\ acting = <<[NoQuery EXCEPT !.query = "over", !.ok = TRUE, !.session = 1]>>
    /\ minds = [s \in 1 .. MaxRuns |-> IF s <= Len(chats) THEN <<s>> ELSE <<>>]
    /\ viewer = [run |-> 0, phase |-> "list", last |-> 0, queue |-> <<>>, sent |-> <<>>]
    /\ doomed = {}

-----------------------------------------------------------------------------
(* Events.                                                                 *)

NextSeq(log) == 1 + Max({0} \cup {log[i].seq : i \in DOMAIN log})

Entered(log, kind, by, text) ==
    Append(log, [seq |-> NextSeq(log), kind |-> kind, by |-> by, text |-> text])

Noted(log, kind) == Entered(log, kind, "", 0)

\* The events at some places, in their order.
Only(log, places) ==
    [n \in 1 .. Cardinality(places) |->
        log[CHOOSE i \in places : Cardinality({j \in places : j <= i}) = n]]

TextsAt(log) == {i \in DOMAIN log : log[i].kind = "text"}

Cleared(log) == Only(log, DOMAIN log \ TextsAt(log))

-----------------------------------------------------------------------------
(* Conversations.  One is named by any of its runs.                        *)

\* The runs of a set that each answer the one before them, up to r.
Line(runs, r) ==
    LET line[q \in 0 .. r] == IF q \in runs THEN Append(line[chats[q].prev], q) ELSE <<>>
    IN  line[r]

Beginning(listed, r) == Line(listed, r)[1]

Conversation(listed, s) ==
    LET start == Beginning(listed, s)
    IN  IF s \in listed THEN {r \in listed : Beginning(listed, r) = start} ELSE {}

Newest(n) ==
    {set \in SUBSET ChatRows :
        /\ Cardinality(set) = Min({n, Cardinality(ChatRows)})
        /\ \A r \in set, q \in ChatRows \ set : chats[r].at >= chats[q].at}

\* created_at has seconds.
NewRun(prev, asked) ==
    \E second \in Seconds, size \in Sizes :
        LET at == IF chats = <<>> THEN 1 ELSE chats[Len(chats)].at + second
        IN  /\ Len(chats) < MaxRuns
            /\ chats' = Append(chats, [prev |-> prev, at |-> at, size |-> size,
                                       status |-> "queued", session |-> 0, asked |-> asked])
            /\ journal' = Append(journal, Noted(<<>>, "run.queued"))
            /\ acting' = Append(acting, NoQuery)
            /\ UNCHANGED <<minds, viewer, doomed>>

\* A client of the console names the run to answer, perhaps one deleted meanwhile.
CreateAfter(prev) == NewRun(prev, 0)

\* mutant: the last of the listed runs, of whatever conversation
LatestAny(listed, s) ==
    LET runs == IF s \in listed THEN listed ELSE {}
    IN  {r \in runs : \A q \in runs : chats[r].at >= chats[q].at}

Latest(listed, s) ==
    LET runs == Conversation(listed, s)
    IN  {r \in runs : \A q \in runs : chats[r].at >= chats[q].at}

\* POST /trigger continues a conversation that is among the newest runs, or starts one.
\* asked is history: the conversation, unless one was being deleted.
Trigger(s) ==
    \E listed \in Newest(TriggerLimit) :
        \/ \E prev \in Latest(listed, s) : NewRun(prev, IF doomed = {} THEN s ELSE 0)
        \/ Latest(listed, s) = {} /\ NewRun(0, 0)

-----------------------------------------------------------------------------
(* What an agent is told.                                                  *)

Recent(rounds, n) == SubSeq(rounds, Len(rounds) - n + 1, Len(rounds))

\* The succeeded runs before r, up to one that did not succeed.
Past(r) ==
    LET all == Line({q \in ChatRows : chats[q].status = "succeeded"}, chats[r].prev)
    IN  Recent(all, Min({HistoryRounds, Len(all)}))

\* As many of the newest rounds as fit, or a part of the newest one.
Bounded(rounds) ==
    LET tokens(n) == FoldLeft(LAMBDA sum, q : sum + chats[q].size, 0, Recent(rounds, n))
        most == Max({0} \cup {n \in 1 .. Len(rounds) : tokens(n) <= Budget})
    IN  Recent(rounds, IF most = 0 /\ rounds # <<>> THEN 1 ELSE most)

Resumed(r) ==
    IF chats[r].prev \in ChatRows THEN chats[chats[r].prev].session ELSE 0

\* mutant: the history is sent as well when a session is resumed
ToldAgain(r, query) == Append(acting[r].past, r)

\* The rounds a query sends: with a session that is resumed, the new one only.
Told(r, query) ==
    IF query = "resume" THEN <<r>> ELSE Append(acting[r].past, r)

StartQuery(r) ==
    /\ chats[r].status = "queued"
    /\ chats' = [chats EXCEPT ![r].status = "running"]
    /\ acting' = [acting EXCEPT ![r].query = IF Resumed(r) # 0 THEN "resume" ELSE "fresh",
                                ![r].from = Resumed(r),
                                ![r].past = Bounded(Past(r))]
    /\ journal' = [journal EXCEPT ![r] = Noted(@, "context.history")]
    /\ UNCHANGED <<minds, viewer, doomed>>

Querying(r) == chats[r].status = "running" /\ acting[r].query \in {"resume", "fresh"}

-----------------------------------------------------------------------------
(* What it answers.                                                        *)

\* While a session is being resumed its texts are held back.
Emitted(r, text) ==
    /\ acting' = [acting EXCEPT ![r].said = @ \cup {text},
                                ![r].buffer = IF acting[r].query = "resume"
                                              THEN Append(@, text) ELSE @]
    /\ journal' = IF acting[r].query = "resume" THEN journal
                  ELSE [journal EXCEPT ![r] = Entered(@, "text", "fresh", text)]

\* A text that was emitted is not emitted again.
Say(r, text) ==
    /\ Querying(r) /\ text \notin acting[r].said
    /\ Emitted(r, text)
    /\ UNCHANGED <<chats, minds, viewer, doomed>>

ToolFails(r) ==
    /\ Querying(r) /\ \A i \in DOMAIN journal[r] : journal[r][i].kind # "tool_result"
    /\ journal' = [journal EXCEPT ![r] = Noted(@, "tool_result")]
    /\ UNCHANGED <<chats, acting, minds, viewer, doomed>>

\* A session whose query breaks off may have got the prompt.
Heard(r) ==
    {minds} \cup IF Querying(r) /\ acting[r].query = "resume"
                 THEN {[minds EXCEPT ![acting[r].from] = @ \o Told(r, "resume")]} ELSE {}

Flushed(log, buffer) ==
    log \o [i \in DOMAIN buffer |->
               [seq |-> NextSeq(log) + i - 1, kind |-> "text", by |-> "resume", text |-> buffer[i]]]

\* mutant: what was held back is shown all the same
ResumeFailsLoudly(r) ==
    /\ Querying(r) /\ acting[r].query = "resume"
    /\ acting' = [acting EXCEPT ![r].query = "fresh", ![r].buffer = <<>>, ![r].said = {}]
    /\ journal' = [journal EXCEPT ![r] = Flushed(Cleared(Noted(@, "context.fallback")),
                                                acting[r].buffer)]
    /\ minds' \in Heard(r)
    /\ UNCHANGED <<chats, viewer, doomed>>

\* The session is lost or full.
ResumeFails(r) ==
    /\ Querying(r) /\ acting[r].query = "resume"
    /\ acting' = [acting EXCEPT ![r].query = "fresh", ![r].buffer = <<>>, ![r].said = {}]
    /\ journal' = [journal EXCEPT ![r] = Cleared(Noted(@, "context.fallback"))]
    /\ minds' \in Heard(r)
    /\ UNCHANGED <<chats, viewer, doomed>>

\* The query ends, perhaps without a result, which names the session.  The SDK goes
\* on with the session it resumed, or with a copy.
QueryEnds(r, ok, session) ==
    /\ Querying(r)
    /\ session \in IF acting[r].query = "resume" THEN {r, acting[r].from} ELSE {r}
    /\ LET known == IF acting[r].query = "resume" THEN minds[acting[r].from] ELSE <<>>
       IN  minds' = [minds EXCEPT ![session] = known \o Told(r, acting[r].query)]
    /\ journal' = [journal EXCEPT ![r] = Flushed(@, acting[r].buffer)]
    /\ \E named \in IF ok THEN {session} ELSE {session, 0} :
          acting' = [acting EXCEPT ![r].query = "over", ![r].ok = ok, ![r].buffer = <<>>,
                                   ![r].session = named]
    /\ UNCHANGED <<chats, viewer, doomed>>

\* No SDK is installed: a summary is all there is.
DryRun(r) ==
    /\ Querying(r) /\ acting[r].said = {} /\ acting[r].query = "fresh" /\ acting[r].from = 0
    /\ acting' = [acting EXCEPT ![r].query = "over", ![r].ok = TRUE]
    /\ UNCHANGED <<chats, journal, minds, viewer, doomed>>

\* derive_run_completion
Outcome(r) ==
    IF acting[r].ok \/ TextsAt(journal[r]) # {} THEN "succeeded" ELSE "failed"

CompleteRun(r) ==
    /\ chats[r].status = "running" /\ acting[r].query = "over"
    /\ LET silent == TextsAt(journal[r]) = {} /\ acting[r].session = 0
           last == IF Outcome(r) = "failed" THEN Noted(journal[r], "run.error")
                   ELSE IF silent THEN Entered(journal[r], "text", "summary", 0)
                   ELSE journal[r]
       IN  journal' = [journal EXCEPT ![r] = Noted(last, "run.ended")]
    /\ chats' = [chats EXCEPT ![r].status = Outcome(r), ![r].session = acting[r].session]
    /\ UNCHANGED <<acting, minds, viewer, doomed>>

\* An error, a cancellation or a timeout.
Fail(r) ==
    /\ r \in Ongoing
    /\ chats' = [chats EXCEPT ![r].status = "failed"]
    /\ journal' = [journal EXCEPT ![r] = Noted(Noted(@, "run.error"), "run.ended")]
    /\ minds' \in Heard(r)
    /\ UNCHANGED <<acting, viewer, doomed>>

-----------------------------------------------------------------------------
(* Deletion: runs under way are cancelled one by one, and waited for.      *)

StartDelete(s) ==
    /\ doomed = {}
    /\ doomed' = Conversation(ChatRows, s)
    /\ doomed' # {}
    /\ UNCHANGED <<chats, journal, acting, minds, viewer>>

FinishDelete ==
    /\ doomed # {} /\ doomed \cap Ongoing = {}
    /\ chats' = [r \in Numbers |-> IF r \in doomed
                               THEN [chats[r] EXCEPT !.status = "deleted"] ELSE chats[r]]
    /\ journal' = [r \in Numbers |-> IF r \in doomed THEN <<>> ELSE journal[r]]
    /\ doomed' = {}
    /\ UNCHANGED <<acting, minds, viewer>>

-----------------------------------------------------------------------------
(* GET /agent-runs/{run_id}/stream lists the events, sends the new ones     *)
(* while others may be written, and only then looks whether the run ended. *)

Watch(r) ==
    /\ viewer.run = 0 /\ r \in ChatRows \cap Watched
    /\ viewer' = [viewer EXCEPT !.run = r]
    /\ UNCHANGED <<chats, journal, acting, minds, doomed>>

List ==
    /\ viewer.run # 0 /\ viewer.phase = "list"
    /\ LET log == journal[viewer.run]
           listed == 1 .. Min({EventLimit, Len(log)})
       IN  viewer' = [viewer EXCEPT !.phase = "send",
                         !.queue = Only(log, {i \in listed : log[i].seq > viewer.last})]
    /\ UNCHANGED <<chats, journal, acting, minds, doomed>>

SendEvent ==
    /\ viewer.phase = "send" /\ viewer.queue # <<>>
    /\ viewer' = [viewer EXCEPT !.queue = Tail(@), !.last = Head(viewer.queue).seq,
                                !.sent = Append(@, Head(viewer.queue))]
    /\ UNCHANGED <<chats, journal, acting, minds, doomed>>

LookWhetherDone ==
    /\ viewer.phase = "send" /\ viewer.queue = <<>>
    /\ viewer' = [viewer EXCEPT !.phase = IF chats[viewer.run].status \in Ended
                                          THEN "done" ELSE "list"]
    /\ UNCHANGED <<chats, journal, acting, minds, doomed>>

Answering ==
    \E r \in Numbers :
        \/ StartQuery(r) \/ ResumeFails(r) \/ DryRun(r) \/ CompleteRun(r)
        \/ \E ok \in BOOLEAN, session \in Numbers : QueryEnds(r, ok, session)

AnswerNext == (\E prev \in 0 .. Len(chats) : CreateAfter(prev)) \/ Answering

GroupNext ==
    \/ \E prev \in 0 .. Len(chats) : CreateAfter(prev)
    \/ \E s \in Numbers : Trigger(s) \/ StartDelete(s)
    \/ FinishDelete
    \/ \E r \in Numbers : Fail(r)

WatchNext ==
    \/ \E r \in Numbers :
        \/ Watch(r) \/ ToolFails(r)
        \/ \E text \in 1 .. MaxTexts : Say(r, text)
    \/ List \/ SendEvent \/ LookWhetherDone

TalkNext == Answering \/ GroupNext \/ WatchNext

TalkSpec == TalkInit /\ [][TalkNext]_talkVars

-----------------------------------------------------------------------------
(* The answer in a run's events is that of one query, each text once, and  *)
(* what a client was shown is their beginning, in their order              *)
(* (claude_agent_sdk_runner.py:227-325, coding_agent.py:809-823).          *)
OneReply ==
    /\ \A r \in Numbers :
          \A i, j \in TextsAt(journal[r]) :
             /\ journal[r][i].by = journal[r][j].by
             /\ journal[r][i].text = journal[r][j].text => i = j
    /\ viewer.run \in ChatRows => IsPrefix(viewer.sent, journal[viewer.run])

(* No session of the SDK is told a round twice, and the first rounds of a  *)
(* new one each answer the one before (claude_code_runner.py:328-446,      *)
(* 1039-1055).                                                             *)
ToldOnce ==
    /\ \A s \in DOMAIN minds : IsInjective(minds[s])
    /\ \A r \in Numbers : LET told == Append(acting[r].past, r)
                      IN  acting[r].past # <<>> =>
                             \A i \in 2 .. Len(told) : chats[told[i]].prev = told[i - 1]

(* A run that was triggered for a conversation belongs to it as long as    *)
(* there are both, unless a deletion was under way then                    *)
(* (coding_agent.py:592-607).                                              *)
Continues ==
    \A r \in ChatRows :
        chats[r].asked \in ChatRows =>
            Beginning(ChatRows, r) = Beginning(ChatRows, chats[r].asked)

ConversationsHold == OneReply /\ ToldOnce /\ Continues
===============================================================================
