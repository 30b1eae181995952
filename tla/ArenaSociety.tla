----------------------------- MODULE ArenaSociety -----------------------------
(***************************************************************************)
(* The society of the arena (domain/arena.py): agents with a balance and a *)
(* loyalty, teams that are formed, reorganized and dissolved, letters      *)
(* between agents, the pipeline of a finished task as far as it changes    *)
(* these, and what a restart restores (infra/persistence.py).              *)
(*                                                                         *)
(* Everything runs in one event loop: an action is what runs between two   *)
(* awaits.  A call of the language model that is under way is a member of  *)
(* thoughts.  What is saved after a further await is saved by Checkpoint.  *)
(***************************************************************************)
EXTENDS Integers, Sequences, FiniteSets, SequencesExt

CONSTANTS
    MaxAgents,      \* bound: agents ever created; their ids are handed out in order
    MaxTeams,       \* bound: team ids (uuids) in use at one time
    MaxTasks,       \* bound: tasks that are finished
    Initial, LastStand, MaxBalance, \* balances at the start, of a last stand, bound
    CostStay, TopRatio,     \* fee of staying in a team; 100 * max_team_ratio
    Rewards, Gifts, \* judge's rewards, rewards of evolution
    Interval,       \* tasks between two reorganizations
    LoyaltyMax, LoyaltyDelta,
    Chores,         \* the background tasks that a finished task may start
    MaxLetters, MaxLore,    \* sizes of a mailbox and of a team's shared pools
    NoTeam

ArenaIds == 1 .. MaxAgents
TeamIds == 1 .. MaxTeams

VARIABLES
    roster,     \* agents of the arena
    lastId,     \* _agent_counter
    teams,      \* teams in the order they were made
    tally,      \* _global_task_counter
    stage,      \* where the pipeline of an agent's finished task is
    thoughts,   \* background tasks
    letters,    \* mailboxes: who wrote
    owed,       \* <<a, b>>: the last letter between a and b is from a
    disk        \* the saved state

societyVars == <<roster, lastId, teams, tally, stage, thoughts, letters, owed, disk>>

Newcomer == [balance |-> Initial, solo |-> FALSE, team |-> NoTeam,
             loyalty |-> LoyaltyMax, stood |-> FALSE]

\* completion below 5, below 7, or above.
Scores == {"fail", "pass", "high"}

AtRest == [at |-> "none", score |-> "fail"]

Team == [id : TeamIds, members : Seq(ArenaIds), lore : Seq(ArenaIds)]

SocietyTypeOK ==
    /\ lastId \in 0 .. MaxAgents
    /\ DOMAIN roster \subseteq 1 .. lastId
    /\ \A a \in DOMAIN roster :
          roster[a] \in [balance : Int, solo : BOOLEAN, team : TeamIds \cup {NoTeam},
                         loyalty : 0 .. LoyaltyMax, stood : BOOLEAN]
    /\ teams \in Seq(Team)
    /\ \A i, j \in DOMAIN teams : teams[i].id = teams[j].id => i = j
    /\ \A i \in DOMAIN teams : Len(teams[i].lore) <= MaxLore
    /\ tally \in 0 .. MaxTasks
    /\ stage \in [ArenaIds -> [at : {"none", "paid", "stood", "dying"}, score : Scores]]
    /\ \A a \in ArenaIds : Len(letters[a]) <= MaxLetters

Agent == [balance : Int, solo : BOOLEAN, team : TeamIds \cup {NoTeam}, loyalty : Int,
          stood : BOOLEAN]

\* Numbers are numbers, two teams can be told from each other, and no id is none.
ASSUME SocietyConstants ==
    /\ {Initial, LastStand, CostStay, LoyaltyMax} \cup Rewards \cup Gifts \subseteq Int
    /\ \A event \in {"success", "fail", "given", "received"} : LoyaltyDelta[event] \in Int
    /\ MaxAgents \in Nat /\ MaxTeams \in Nat \ {0, 1} /\ NoTeam \notin TeamIds

Snapshot == [roster |-> roster, lastId |-> lastId, teams |-> teams, tally |-> tally]

SocietyInit ==
    /\ roster = <<>> /\ lastId = 0 /\ teams = <<>> /\ tally = 0
    /\ stage = [a \in ArenaIds |-> AtRest]
    /\ thoughts = {}
    /\ letters = [a \in ArenaIds |-> <<>>]
    /\ owed = {}
    /\ disk = Snapshot

-----------------------------------------------------------------------------
(* Agents and teams as one value, for what changes both.                   *)

Society == [roster |-> roster, teams |-> teams]

\* What stands at these places, in its order.
AtPlaces(s, places) ==
    [n \in 1 .. Cardinality(places) |->
        s[CHOOSE i \in places : Cardinality({j \in places : j <= i}) = n]]

PlacesOf(s, S) == {k \in DOMAIN s : s[k] \in S}

Present(w, t) == AtPlaces(t.members, PlacesOf(t.members, DOMAIN w.roster))

Merit(w, as) == FoldLeft(LAMBDA sum, a : sum + w.roster[a].balance, 0, as)

TeamsOf(ts, a) == {i \in DOMAIN ts : a \in ToSet(ts[i].members)}

\* team_id is written back from the lists of members.
Enrolled(rs, ts) ==
    [a \in DOMAIN rs |-> [rs[a] EXCEPT !.team =
        IF TeamsOf(ts, a) = {} THEN @ ELSE ts[Min(TeamsOf(ts, a))].id]]

TeamIdsOf(ts) == {ts[i].id : i \in DOMAIN ts}

\* Ids that are new beside the teams that stay.
FreshIds(stay, n) ==
    {ids \in [1 .. n -> TeamIds \ TeamIdsOf(stay)] :
        \A k, l \in 1 .. n : ids[k] = ids[l] => k = l}

\* n new teams that are dealt the agents in turn.
Dealt(stay, n, order) ==
    LET ids == CHOOSE ids \in FreshIds(stay, n) : TRUE
    IN [k \in 1 .. n |-> [id |-> ids[k], lore |-> <<>>,
           members |-> [j \in 1 .. (Len(order) - k) \div n + 1 |-> order[k + (j - 1) * n]]]]

Homeless(rs) == [a \in DOMAIN rs |-> [rs[a] EXCEPT !.team = NoTeam]]

Willing(rs) == {a \in DOMAIN rs : ~rs[a].solo}

\* assign_teams: the teams there were are dissolved.
Assigned(rs, n, order) ==
    LET ts == Dealt(<<>>, n, order) IN [roster |-> Enrolled(Homeless(rs), ts), teams |-> ts]

(* The check for a desertion of a disloyal member reads arena.teams, which   *)
(* ArenaState does not have (belief_engine.py:142): it fails before anything *)
(* changes, its callers pass over that, and nobody ever leaves a team by it. *)
Defected(w, a) == w

(* The teams below the general average are dissolved; of the others those  *)
(* over the size limit lose their poorest members, and the rest pay.       *)
Everyone(w) == SetToSortSeq(DOMAIN w.roster, <)

Strong(w, t) ==
    LET ms == Present(w, t)
    IN ms # <<>> /\ Merit(w, ms) * Len(Everyone(w)) >= Merit(w, Everyone(w)) * Len(ms)

MaxSize(w) == LET n == (Len(Everyone(w)) * TopRatio) \div 100 IN IF n < 1 THEN 1 ELSE n

Poorer(w, ms, i, j) ==
    LET b(k) == w.roster[ms[k]].balance IN b(i) < b(j) \/ (b(i) = b(j) /\ i < j)

Excess(w, t) ==
    LET ms == Present(w, t)
    IN {ms[j] : j \in {k \in DOMAIN ms :
            Cardinality({i \in DOMAIN ms : Poorer(w, ms, i, k)}) < Len(ms) - MaxSize(w)}}

Survivors(w) == AtPlaces(w.teams, {i \in DOMAIN w.teams : Strong(w, w.teams[i])})

Payers(w) ==
    LET strong == Survivors(w)
    IN UNION {ToSet(Present(w, strong[i])) \ Excess(w, strong[i]) : i \in DOMAIN strong}

Expelled(w) == (UNION {ToSet(Present(w, w.teams[i])) : i \in DOMAIN w.teams}) \ Payers(w)

\* Those who would join a team again.
Refugees(w) == Expelled(w) \cap Willing(w.roster)

Charged(b) == IF b < CostStay THEN 0 ELSE b - CostStay

(* Mutant: the exiled stay in the list of their team.                      *)
KeptWhole(w, t) == t

Kept(w, t) ==
    [t EXCEPT !.members = AtPlaces(t.members, PlacesOf(t.members, ToSet(t.members) \ Excess(w, t)))]

KeptTeams(w) == [i \in DOMAIN Survivors(w) |-> Kept(w, Survivors(w)[i])]

\* The first refugees join a team each, and the others found new ones.
JoinedTeams(kept, order) ==
    [i \in DOMAIN kept |->
        IF i <= Len(order) THEN [kept[i] EXCEPT !.members = Append(@, order[i])] ELSE kept[i]]

Unplaced(kept, order) == SubSeq(order, Len(kept) + 1, Len(order))

Founding(rest) ==
    IF Len(rest) < 2 THEN 0 ELSE IF Len(rest) \div 3 < 2 THEN 2 ELSE Len(rest) \div 3

Paid(w) ==
    [a \in DOMAIN w.roster |->
        IF a \in Payers(w) THEN [w.roster[a] EXCEPT !.balance = Charged(@)]
        ELSE IF a \in Expelled(w) THEN [w.roster[a] EXCEPT !.team = NoTeam] ELSE w.roster[a]]

Reorganized(w, order) ==
    LET kept == KeptTeams(w)
        rest == Unplaced(kept, order)
        ts == JoinedTeams(kept, order) \o Dealt(kept, Founding(rest), rest)
    IN [roster |-> Enrolled(Paid(w), ts), teams |-> ts]

\* There are ids for the new teams.
HasIds(kept, order) == FreshIds(kept, Founding(Unplaced(kept, order))) # {}

-----------------------------------------------------------------------------
(* Agents.                                                                 *)

Become(w) == roster' = w.roster /\ teams' = w.teams

\* An error of saving is logged and passed over.
SavesAs(image) == disk' \in {image, disk}

Saved == SavesAs([roster |-> roster', lastId |-> lastId', teams |-> teams', tally |-> tally'])

NewAgent ==
    /\ lastId < MaxAgents
    /\ lastId' = lastId + 1
    /\ roster' = [a \in DOMAIN roster \cup {lastId + 1} |->
                    IF a \in DOMAIN roster THEN roster[a] ELSE Newcomer]
    /\ UNCHANGED <<teams, tally, stage, thoughts, letters, owed, disk>>

\* remove_agent leaves the id in the lists of its team.
RosterWithout(a) == [b \in DOMAIN roster \ {a} |-> roster[b]]

DeleteAgent(a) ==
    /\ a \in DOMAIN roster
    /\ roster' = RosterWithout(a)
    /\ UNCHANGED <<lastId, teams, tally, stage, thoughts, letters, owed, disk>>

SetPreference(a, solo) ==
    /\ a \in DOMAIN roster
    /\ roster' = [roster EXCEPT ![a].solo = solo]
    /\ UNCHANGED <<lastId, teams, tally, stage, thoughts, letters, owed>>
    /\ Saved

EvolutionReward(a, r) ==
    /\ a \in DOMAIN roster
    /\ roster[a].balance + r <= MaxBalance
    /\ roster' = [roster EXCEPT ![a].balance = @ + r]
    /\ UNCHANGED <<lastId, teams, tally, stage, thoughts, letters, owed>>
    /\ Saved

-----------------------------------------------------------------------------
(* Teams.                                                                  *)

AssignTeams(n) ==
    /\ Cardinality(Willing(roster)) >= n
    /\ MaxTeams >= n
    /\ \E order \in SetToSeqs(Willing(roster)) : Become(Assigned(roster, n, order))
    /\ UNCHANGED <<lastId, tally, stage, thoughts, letters, owed, disk>>

DissolveTeams ==
    /\ Become([roster |-> Homeless(roster), teams |-> <<>>])
    /\ UNCHANGED <<lastId, tally, stage, thoughts, letters, owed, disk>>

Reorganize ==
    /\ teams # <<>> /\ DOMAIN roster # {}
    /\ \E order \in SetToSeqs(Refugees(Society)) :
          HasIds(KeptTeams(Society), order) /\ Become(Reorganized(Society, order))

ReorganizeByHand ==
    /\ Reorganize
    /\ UNCHANGED <<lastId, tally, stage, thoughts, letters, owed>>
    /\ Saved

\* After the sweep for desertions, which fail.
ReorganizeWhenDue ==
    /\ <<"reorganize">> \in thoughts
    /\ IF teams = <<>> \/ DOMAIN roster = {} THEN UNCHANGED <<roster, teams>> ELSE Reorganize
    /\ thoughts' = thoughts \ {<<"reorganize">>}
    /\ UNCHANGED <<lastId, tally, stage, letters, owed>>
    /\ Saved

Felt(loyalty, event) ==
    LET l == loyalty + LoyaltyDelta[event]
    IN IF l < 0 THEN 0 ELSE IF l > LoyaltyMax THEN LoyaltyMax ELSE l

\* The merit moves before the save, the loyalty after it.
Rescue(donor, target, amount) ==
    /\ {donor, target} \subseteq DOMAIN roster
    /\ roster[donor].team # NoTeam /\ roster[donor].team = roster[target].team
    /\ roster[donor].balance >= amount
    /\ LET moved == [[roster EXCEPT ![donor].balance = @ - amount]
                        EXCEPT ![target].balance = @ + amount]
       IN /\ moved[target].balance <= MaxBalance
          /\ SavesAs([Snapshot EXCEPT !.roster = moved])
          /\ roster' = [[moved EXCEPT ![donor].loyalty = Felt(@, "given")]
                          EXCEPT ![target].loyalty = Felt(@, "received")]
    /\ UNCHANGED <<lastId, teams, tally, stage, thoughts, letters, owed>>

-----------------------------------------------------------------------------
(* The pipeline of a finished task.                                        *)

Pay(a, r, score) ==
    /\ a \in DOMAIN roster
    /\ stage[a] = AtRest
    /\ tally + Cardinality({b \in ArenaIds : stage[b].at = "paid"}) < MaxTasks
    /\ roster[a].balance + r \in -MaxBalance .. MaxBalance
    /\ roster' = [roster EXCEPT ![a].balance = @ + r]
    /\ stage' = [stage EXCEPT ![a] = [at |-> "paid", score |-> score]]
    /\ UNCHANGED <<lastId, teams, tally, thoughts, letters, owed, disk>>

Pooled(shared, a) ==
    LET longer == Append(shared, a)
    IN IF Len(longer) > MaxLore THEN Tail(longer) ELSE longer

\* What an agent adds to the pools of its team.
Shared(ts, a) ==
    [i \in DOMAIN ts |->
        IF a \in DOMAIN roster /\ roster[a].team = ts[i].id
        THEN [ts[i] EXCEPT !.lore = Pooled(@, a)] ELSE ts[i]]

\* Of the tasks that are started those that will run.
SocialTasks(a, score, kinds) ==
    {k \in {<<"belief", a, score>>, <<"decision", a>>} \cup
          (IF score = "fail" THEN {} ELSE {<<"write", a>>}) \cup
          (IF score = "high" THEN {<<"wisdom", a>>} ELSE {}) : k[1] \in kinds}

Due(count) ==
    IF teams # <<>> /\ count % Interval = 0 THEN {<<"reorganize">>} ELSE {}

Ruined(a) == a \in DOMAIN roster /\ roster[a].balance <= 0

\* Recorded and saved, then counted, then looked at for elimination: a first
\* time it is saved from it, at its last words it is not.
Record(a, kinds) ==
    /\ stage[a].at = "paid"
    /\ tally' = tally + 1
    /\ UNCHANGED <<lastId, letters, owed>>
    /\ teams' = IF "skill" \in kinds THEN Shared(teams, a) ELSE teams
    /\ IF Ruined(a) /\ ~roster[a].stood
       THEN /\ roster' = [roster EXCEPT ![a].stood = TRUE, ![a].balance = LastStand]
            /\ Saved
       ELSE /\ UNCHANGED roster
            /\ SavesAs(Snapshot)
    /\ stage' = [stage EXCEPT ![a] =
                    IF ~Ruined(a) THEN AtRest
                    ELSE IF roster[a].stood THEN [@ EXCEPT !.at = "dying"]
                    ELSE [@ EXCEPT !.at = "stood"]]
    /\ thoughts' = thoughts \cup Due(tally + 1) \cup
                    (IF Ruined(a) THEN {} ELSE SocialTasks(a, stage[a].score, kinds))

\* After the news of a last stand, or the last words.
GoOn(a, kinds) ==
    /\ stage[a].at \in {"stood", "dying"}
    /\ roster' = IF stage[a].at = "dying" THEN RosterWithout(a) ELSE roster
    /\ stage' = [stage EXCEPT ![a] = AtRest]
    /\ thoughts' = thoughts \cup SocialTasks(a, stage[a].score, kinds)
    /\ UNCHANGED <<lastId, teams, tally, letters, owed, disk>>

-----------------------------------------------------------------------------
(* The background tasks of an agent.                                       *)

Belief(a, score) ==
    /\ <<"belief", a, score>> \in thoughts
    /\ thoughts' = thoughts \ {<<"belief", a, score>>}
    /\ IF a \notin DOMAIN roster THEN UNCHANGED <<roster, teams>>
       ELSE Become(Defected([Society EXCEPT !.roster[a].loyalty =
                        Felt(@, IF score = "fail" THEN "fail" ELSE "success")], a))
    /\ UNCHANGED <<lastId, tally, stage, letters, owed, disk>>

\* The model may answer nothing of use; the record that was read before the
\* call is the one that is written.
Decide(a) ==
    /\ <<"decision", a>> \in thoughts
    /\ thoughts' = thoughts \ {<<"decision", a>>}
    /\ \/ UNCHANGED <<roster, disk>>
       \/ /\ a \in DOMAIN roster
          /\ \E solo \in BOOLEAN : roster' = [roster EXCEPT ![a].solo = solo]
          /\ SavesAs([Snapshot EXCEPT !.roster = roster'])
    /\ UNCHANGED <<lastId, teams, tally, stage, letters, owed>>

Wisdom(a) ==
    /\ <<"wisdom", a>> \in thoughts
    /\ thoughts' = thoughts \ {<<"wisdom", a>>}
    /\ \/ teams' = Shared(teams, a)
       \/ UNCHANGED teams
    /\ UNCHANGED <<roster, lastId, tally, stage, letters, owed, disk>>

\* To one whose letter is not answered, else to a team mate, else to anyone.
Addressees(a) ==
    LET waiting == {b \in DOMAIN roster : <<b, a>> \in owed}
        mates == (UNION {ToSet(teams[i].members) : i \in
                    {k \in DOMAIN teams : a \in DOMAIN roster /\ teams[k].id = roster[a].team}}) \ {a}
    IN IF waiting # {} THEN waiting
       ELSE IF mates # {} THEN mates ELSE DOMAIN roster \ {a}

Write(a) ==
    /\ <<"write", a>> \in thoughts
    /\ IF \E b \in Addressees(a) : {a, b} \subseteq DOMAIN roster
       THEN \E b \in Addressees(a) :
               thoughts' = (thoughts \ {<<"write", a>>}) \cup
                           {<<"letter", x, b>> : x \in {a} \cap DOMAIN roster}
       ELSE thoughts' = thoughts \ {<<"write", a>>}
    /\ UNCHANGED <<roster, lastId, teams, tally, stage, letters, owed, disk>>

Deliver(a, b) ==
    /\ <<"letter", a, b>> \in thoughts
    /\ thoughts' = thoughts \ {<<"letter", a, b>>}
    /\ \/ UNCHANGED <<letters, owed>>
       \/ /\ b \in DOMAIN roster
          /\ letters' = [letters EXCEPT ![b] =
                LET box == Append(@, a)
                IN IF Len(box) > MaxLetters THEN Tail(box) ELSE box]
          /\ owed' = (owed \ {<<b, a>>}) \cup {<<a, b>>}
    /\ UNCHANGED <<roster, lastId, teams, tally, stage, disk>>

\* The prompt of a task takes all letters out of the box.
ReadLetters(a) ==
    /\ a \in DOMAIN roster /\ letters[a] # <<>>
    /\ letters' = [letters EXCEPT ![a] = <<>>]
    /\ UNCHANGED <<roster, lastId, teams, tally, stage, thoughts, owed, disk>>

-----------------------------------------------------------------------------
(* Saving and restarting.                                                  *)

Checkpoint ==
    /\ disk # Snapshot
    /\ UNCHANGED <<roster, lastId, teams, tally, stage, thoughts, letters, owed>>
    /\ Saved

\* A balance of 0 reads as none and becomes the default; a last stand is not
\* among the columns.
Restored(row) ==
    [row EXCEPT !.balance = IF @ = 0 THEN Initial ELSE @, !.stood = FALSE, !.team = NoTeam]

CutTeams(ids) ==
    [i \in DOMAIN disk.teams |->
        [disk.teams[i] EXCEPT !.members =
            AtPlaces(disk.teams[i].members, PlacesOf(disk.teams[i].members, ids))]]

RestoredTeams(ids) ==
    AtPlaces(CutTeams(ids), {i \in DOMAIN CutTeams(ids) : CutTeams(ids)[i].members # <<>>})

\* The process ends at any moment.  An agent whose process does not start is
\* not there afterwards; the teams are made anew when none is left.
RestartArena(ids) ==
    LET rs == [a \in ids |-> Restored(disk.roster[a])]
        ts == RestoredTeams(ids)
    IN /\ IF ts = <<>> /\ Cardinality(Willing(rs)) >= 2
          THEN \E order \in SetToSeqs(Willing(rs)) : Become(Assigned(rs, 2, order))
          ELSE Become([roster |-> Enrolled(rs, ts), teams |-> ts])
       /\ lastId' = disk.lastId /\ tally' = disk.tally
       /\ stage' = [a \in ArenaIds |-> AtRest]
       /\ thoughts' = {}
       /\ letters' = [a \in ArenaIds |-> <<>>]
       /\ UNCHANGED owed
       /\ IF ids = {} THEN UNCHANGED disk ELSE Saved

-----------------------------------------------------------------------------
PipelineNext(a, kinds) ==
    \/ \E r \in Rewards, s \in Scores : (s = "fail" <=> r < 0) /\ Pay(a, r, s)
    \/ Record(a, kinds)
    \/ GoOn(a, kinds)

ThoughtsNext(a) ==
    \/ \E s \in Scores : Belief(a, s)
    \/ Decide(a)
    \/ Wisdom(a)
    \/ Write(a)
    \/ \E b \in ArenaIds : Deliver(a, b)
    \/ ReadLetters(a)

TeamsNext(touched) ==
    \/ \E n \in 2 .. MaxTeams : AssignTeams(n)
    \/ DissolveTeams
    \/ ReorganizeByHand
    \/ ReorganizeWhenDue
    \/ \E a \in ArenaIds, b \in touched : Rescue(a, b, 1)

RosterNext(a) ==
    \/ DeleteAgent(a)
    \/ \E solo \in BOOLEAN : SetPreference(a, solo)
    \/ \E r \in Gifts : EvolutionReward(a, r)

RestartNext ==
    \/ Checkpoint
    \/ \E ids \in SUBSET DOMAIN disk.roster : RestartArena(ids)

SocietyNext ==
    \/ NewAgent
    \/ \E a \in ArenaIds : RosterNext(a) \/ ThoughtsNext(a) \/
                       \E kinds \in SUBSET Chores : PipelineNext(a, kinds)
    \/ TeamsNext(ArenaIds)
    \/ RestartNext

SocietySpec == SocietyInit /\ [][SocietyNext]_societyVars

-----------------------------------------------------------------------------
(* The lists of members and the agents' team_id agree through formation,    *)
(* reorganization, removal and restart: an agent is once in the list of its *)
(* own team and in no other (domain/arena.py:290-420).                      *)
MembersAgree ==
    \A a \in DOMAIN roster :
        /\ roster[a].team \in TeamIdsOf(teams) \cup {NoTeam}
        /\ \A i \in DOMAIN teams :
              Cardinality({k \in DOMAIN teams[i].members : teams[i].members[k] = a}) =
                  IF roster[a].team = teams[i].id THEN 1 ELSE 0
===============================================================================
