------------------------------- MODULE AgentSkills -------------------------------
(***************************************************************************)
(* The skills of hosted agents: which are assigned to an agent, which are  *)
(* installed in its workspace (infra/agent_skills.py), and what a run of   *)
(* the agent is offered and gets installed                                 *)
(* (services/claude_code_runner.py).                                       *)
(*                                                                         *)
(* The skills market appears as it is read from here: the version of a     *)
(* skill, what its latest version requires, and where its files are.  It   *)
(* changes at any time, as SkillMarket says.                               *)
(***************************************************************************)
EXTENDS Integers, Sequences, FiniteSets, SequencesExt, FiniteSetsExt

CONSTANTS SkillIds, Holders,    \* the agents
          Versions,
          DepSets,            \* sets of skills a version may require
          Places,             \* where the files of a skill may be: subset of
                              \* {"nowhere", "builtin", "remote", "package"}
          MaxDepth,           \* _MAX_DEP_DEPTH
          Absent,             \* not in the market, not installed
          Unversioned         \* a SKILL.md that says no version

VARIABLES
    marketRow,    \* the version of each skill's row, or Absent
    requires,     \* what its latest version requires
    place,        \* where its files are
    content,      \* the version their SKILL.md says
    assigned,     \* agent_skills: the skills of each agent
    installed,    \* what the SKILL.md under .evotown/skills of each agent says
    offered       \* skills_manifest.json of the agent's last run

skillVars == <<marketRow, requires, place, content, assigned, installed, offered>>

SkillsInit ==
    /\ marketRow = [s \in SkillIds |-> Absent]
    /\ requires = [s \in SkillIds |-> {}]
    /\ place = [s \in SkillIds |-> "nowhere"]
    /\ content = [s \in SkillIds |-> Unversioned]
    /\ assigned = [a \in Holders |-> {}]
    /\ installed = [a \in Holders |-> [s \in SkillIds |-> Absent]]
    /\ offered = [a \in Holders |-> {}]

-----------------------------------------------------------------------------
(* Dependencies: depth first, each skill once, to MaxDepth.  A walk has how *)
(* many levels may still be entered, the ids to look at, and what was found. *)
Walks == (0 .. MaxDepth + 1) \X Seq(SkillIds) \X Seq(SkillIds)

ResolveFrom[walk \in Walks] ==
    LET left == walk[1]
        ids == walk[2]
        visited == walk[3]
    IN  IF left = 0 \/ ids = <<>> THEN visited
        ELSE LET s == Head(ids)
                 below == IF s \in ToSet(visited) THEN visited
                          ELSE ResolveFrom[<<left - 1, SetToSeq(requires[s]), Append(visited, s)>>]
             IN  ResolveFrom[<<left, Tail(ids), below>>]

ResolveDependencies(S) == ResolveFrom[<<MaxDepth + 1, SetToSeq(S), <<>>>>]

-----------------------------------------------------------------------------
(* Files.  The old ones are removed before the new ones are found; a       *)
(* remote source may fail (the skills in down).                            *)

Found(s, down) == place[s] # "nowhere" /\ ~(place[s] = "remote" /\ s \in down)

UpToDate(files, s) == files[s] \notin {Absent, Unversioned} /\ files[s] = marketRow[s]

Deploy(files, s, force, down) ==
    IF marketRow[s] = Absent \/ (UpToDate(files, s) /\ ~force) THEN files
    ELSE [files EXCEPT ![s] = IF Found(s, down) THEN content[s] ELSE Absent]

(* A replaced assignment leaves the files of what it removes.              *)
SetAgentSkills(a, S, force, mode, down) ==
    /\ assigned' = [assigned EXCEPT ![a] = IF mode = "append" THEN @ \cup S ELSE S]
    /\ installed' = [installed EXCEPT ![a] =
           FoldLeft(LAMBDA files, s : Deploy(files, s, force, down), @, ResolveDependencies(S))]
    /\ UNCHANGED <<marketRow, requires, place, content, offered>>

Undeploy(a, s) ==
    /\ assigned' = [assigned EXCEPT ![a] = @ \ {s}]
    /\ installed' = [installed EXCEPT ![a][s] = Absent]
    /\ UNCHANGED <<marketRow, requires, place, content, offered>>

(* An agent writes skills of its own there.                                *)
AgentWrites(a, s, v) ==
    /\ installed' = [installed EXCEPT ![a][s] = v]
    /\ UNCHANGED <<marketRow, requires, place, content, assigned, offered>>

-----------------------------------------------------------------------------
(* A run offers the skills that are assigned, with what they require, or   *)
(* those of them that the request selects.  It installs the selected ones  *)
(* again, assigned or not, and looks for no remote source.                 *)

RunManifest(a) == {s \in ToSet(ResolveDependencies(assigned[a])) : marketRow[s] # Absent}

Materialized(files, selected) ==
    [s \in SkillIds |->
        IF s \notin selected THEN files[s]
        ELSE IF place[s] \in {"builtin", "package"} THEN content[s] ELSE Absent]

PrepareRun(a, selected) ==
    /\ offered' = [offered EXCEPT ![a] =
                      IF selected = {} THEN RunManifest(a) ELSE RunManifest(a) \cap selected]
    /\ installed' = [installed EXCEPT ![a] = Materialized(@, selected)]
    /\ UNCHANGED <<marketRow, requires, place, content, assigned>>

(* The market: a version of s is published, its files move or vanish.      *)
MarketChanges(s, v, deps, p, c) ==
    /\ marketRow' = [marketRow EXCEPT ![s] = v]
    /\ requires' = [requires EXCEPT ![s] = deps]
    /\ place' = [place EXCEPT ![s] = p]
    /\ content' = [content EXCEPT ![s] = c]
    /\ UNCHANGED <<assigned, installed, offered>>

HolderNext(a, S) ==
    \/ \E T \in SUBSET S :
          \/ PrepareRun(a, T)
          \/ \E force \in BOOLEAN, mode \in {"replace", "append"}, down \in {{}, SkillIds} :
                SetAgentSkills(a, T, force, mode, down)
    \/ \E s \in S :
          \/ Undeploy(a, s)
          \/ \E v \in Versions \cup {Unversioned} : AgentWrites(a, s, v)

VersionNext(s, deps) ==
    \E v \in Versions \cup {Absent}, p \in Places :
       \E c \in {v, Unversioned} \ {Absent} : MarketChanges(s, v, deps, p, c)

SkillsNext ==
    \/ \E a \in Holders : HolderNext(a, SkillIds)
    \/ \E s \in SkillIds, deps \in DepSets : VersionNext(s, deps)

SkillsSpec == SkillsInit /\ [][SkillsNext]_skillVars

-----------------------------------------------------------------------------
SkillsTypeOK ==
    /\ marketRow \in [SkillIds -> Versions \cup {Absent}]
    /\ requires \in [SkillIds -> DepSets \cup {{}}]
    /\ place \in [SkillIds -> Places \cup {"nowhere"}]
    /\ content \in [SkillIds -> Versions \cup {Unversioned}]
    /\ assigned \in [Holders -> SUBSET SkillIds]
    /\ installed \in [Holders -> [SkillIds -> Versions \cup {Absent, Unversioned}]]
    /\ offered \in [Holders -> SUBSET SkillIds]

(* What is found for some skills is all they require, through any number   *)
(* of others and in the presence of cycles, each once                      *)
(* (agent_skills.py:90-131).  MaxDepth must not be less than the number of *)
(* skills.                                                                 *)
Required(S) ==
    {s \in SkillIds : \A T \in SUBSET SkillIds :
        S \subseteq T /\ (\A t \in T : requires[t] \subseteq T) => s \in T}

ResolvesAll ==
    \A S \in SUBSET SkillIds :
        LET found == ResolveDependencies(S)
        IN  ToSet(found) = Required(S) /\ Len(found) = Cardinality(ToSet(found))
===============================================================================
