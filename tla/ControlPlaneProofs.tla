--------------------------- MODULE ControlPlaneProofs ---------------------------
(***************************************************************************)
(* What MCControlPlane runs, for any constants of which its parts are      *)
(* parts, is of each component that it extends a behaviour: a part's step  *)
(* is a step of its component, and every other step leaves the component   *)
(* as it is.  So what the components' proofs show holds of the behaviours  *)
(* that are model-checked, and of those of any other size.                 *)
(***************************************************************************)
EXTENDS MCControlPlane, RegistryProofs, KnowledgeProofs, ArenaProofs

-----------------------------------------------------------------------------
(* Steps.                                                                  *)

LEMMA IngestMoves == [MCNext]_vars => [IngestNext]_ingestVars
<1>1. IngestPart => IngestNext
  BY DEF IngestPart
<1>2. QED
  BY <1>1 DEF MCNext, vars

LEMMA PoolMoves == [MCNext]_vars => [PoolNext]_poolVars
<1>1. PoolPart => PoolNext
  BY PartsAreOfComponents DEF PoolPart, PoolNext
<1>2. QED
  BY <1>1 DEF MCNext, vars

LEMMA SomeSkillsMove ==
    ASSUME NEW s \in Skills, NEW S \in SUBSET Skills, SkillNext(s, S)
    PROVE  SkillNext(s, Skills)
<1>1. SUBSET S \subseteq SUBSET Skills
  OBVIOUS
<1>2. QED
  BY <1>1 DEF SkillNext

LEMMA MarketMoves == [MCNext]_vars => [MarketNext]_marketVars
<1>1. MarketPart => MarketNext
  BY SomeSkillsMove, PartsAreOfComponents DEF MarketPart, MarketNext
<1>2. QED
  BY <1>1 DEF MCNext, vars

LEMMA SomeKindsMove ==
    ASSUME NEW r, NEW K \in SUBSET Kinds, RequestNext(r, K)
    PROVE  RequestNext(r, Kinds)
BY Zenon DEF RequestNext

LEMMA GatewayMoves == [MCNext]_vars => [GatewayNext]_gatewayVars
<1>1. FewKinds \subseteq MCKinds
  BY DEF FewKinds, MCKinds
<1>2. GatewayPart => GatewayNext
  BY <1>1, SomeKindsMove, PartsAreOfComponents DEF GatewayPart, GatewayNext
<1>3. QED
  BY <1>2 DEF MCNext, vars

LEMMA AccountsMoves == [MCNext]_vars => [AccountsNext]_accountVars
<1>1. AccountsPart => AccountsNext
  BY DEF AccountsPart
<1>2. QED
  BY <1>1 DEF MCNext, vars

LEMMA AgentsMoves == [MCNext]_vars => [AgentsNext]_agentVars
<1>1. AgentsPart => AgentsNext
  BY DEF AgentsPart
<1>2. QED
  BY <1>1 DEF MCNext, vars

LEMMA SkillsMove == [MCNext]_vars => [SkillsNext]_skillVars
<1>1. ASSUME NEW S \in SUBSET SkillIds, HolderNext(a1, S)
      PROVE  HolderNext(a1, SkillIds)
  <2>1. SUBSET S \subseteq SUBSET SkillIds
    OBVIOUS
  <2>2. QED
    BY <1>1, <2>1 DEF HolderNext
<1>2. SkillsPart => SkillsNext
  BY <1>1, PartsAreOfComponents DEF SkillsPart, SkillsNext
<1>3. QED
  BY <1>2 DEF MCNext, vars

LEMMA SomeFilesMove ==
    ASSUME NEW p, NEW a
    PROVE  /\ PathNext(p, {}) => PathNext(p, Dims)
           /\ ShopNext(a, {}) => ShopNext(a, Dims)
BY DEF PathNext, ShopNext

LEMMA SomeStatusesMove ==
    ASSUME NEW s, ServiceNext(s, {"online"}, {"internal"})
    PROVE  ServiceNext(s, ServiceStatuses, Sources)
BY PartsAreOfComponents DEF ServiceNext

LEMMA McpMoves == [MCNext]_vars => [McpNext]_mcpVars
<1>1. ASSUME McpPart, part = "mcp"
      PROVE  McpNext
  BY <1>1, SomeFilesMove, SomeStatusesMove, PartsAreOfComponents
     DEF McpPart, McpNext, CatalogNext, CallNext
<1>2. ASSUME McpPart, part = "outside"
      PROVE  McpNext
  BY <1>2, SomeFilesMove, PartsAreOfComponents
     DEF McpPart, McpNext, CatalogNext, CallNext
<1>3. ASSUME McpPart, part = "granting"
      PROVE  McpNext
  BY <1>3, PartsAreOfComponents DEF McpPart, McpNext, CallNext
<1>4. McpPart => McpNext
  BY <1>1, <1>2, <1>3 DEF McpPart
<1>5. QED
  BY <1>4 DEF MCNext, vars

LEMMA KnowledgeMoves == [MCNext]_vars => [KnowledgeNext]_knowledgeVars
<1>1. KnowledgePart => KnowledgeNext
  BY DEF KnowledgePart, KnowledgeNext
<1>2. QED
  BY <1>1 DEF MCNext, vars

LEMMA BridgeMoves == [MCNext]_vars => [BridgeNext]_bridgeVars
<1>1. BridgePart => BridgeNext
  BY DEF BridgePart, BridgeNext
<1>2. QED
  BY <1>1 DEF MCNext, vars

LEMMA TalkMoves == [MCNext]_vars => [TalkNext]_talkVars
<1>1. TalkPart => TalkNext
  BY DEF TalkPart, TalkNext, AnswerNext, GroupNext
<1>2. QED
  BY <1>1 DEF MCNext, vars

LEMMA SomeChoresMove ==
    ASSUME NEW a, NEW kinds \in SUBSET Chores, PipelineNext(a, kinds)
    PROVE  \E ks \in SUBSET Chores : PipelineNext(a, ks)
OBVIOUS

LEMMA SomeRescuesMove ==
    ASSUME NEW B \in SUBSET ArenaIds, TeamsNext(B)
    PROVE  TeamsNext(ArenaIds)
BY Zenon DEF TeamsNext

LEMMA SocietyMoves == [MCNext]_vars => [SocietyNext]_societyVars
<1> DEFINE few  == {"belief"}
           more == {"write", "wisdom", "decision", "skill"}
<1>1. /\ few \in SUBSET Chores /\ more \in SUBSET Chores /\ {} \in SUBSET Chores
      /\ 1 \in ArenaIds /\ {} \in SUBSET ArenaIds /\ {1} \in SUBSET ArenaIds
  BY PartsAreOfComponents
<1>2. ASSUME NEW B \in SUBSET ArenaIds, TeamsNext(B)
      PROVE  SocietyNext
  BY <1>2, SomeRescuesMove DEF SocietyNext
<1>3. ASSUME NEW a \in ArenaIds, NEW kinds \in SUBSET Chores, PipelineNext(a, kinds)
      PROVE  SocietyNext
  BY <1>3, SomeChoresMove DEF SocietyNext
<1>4. ASSUME NEW a \in ArenaIds, RosterNext(a) \/ ThoughtsNext(a)
      PROVE  SocietyNext
  BY <1>4 DEF SocietyNext
<1>5. NewAgent \/ RestartNext => SocietyNext
  BY DEF SocietyNext
<1>6. DeleteAgent(1) => SocietyNext
  BY <1>1, <1>4 DEF RosterNext
<1> HIDE DEF few, more
<1>7. ASSUME SocietyPart, part = "teams"
      PROVE  SocietyNext
  BY <1>7, <1>2, <1>4, <1>5 DEF SocietyPart
<1>8. ASSUME SocietyPart, part = "tasks"
      PROVE  SocietyNext
  BY <1>8, <1>1, <1>2, <1>3, <1>4, <1>5 DEF SocietyPart, few
<1>9. ASSUME SocietyPart, part = "letters"
      PROVE  SocietyNext
  BY <1>9, <1>1, <1>2, <1>3, <1>4, <1>5 DEF SocietyPart, more
<1>10. ASSUME SocietyPart, part = "restarts"
      PROVE  SocietyNext
  BY <1>10, <1>1, <1>2, <1>3, <1>5, <1>6 DEF SocietyPart
<1>11. SocietyPart => SocietyNext
  BY <1>7, <1>8, <1>9, <1>10 DEF SocietyPart
<1>12. QED
  BY <1>11 DEF MCNext, vars

LEMMA RecordsMove == [MCNext]_vars => [RecordsNext]_recordVars
<1>1. RecordsPart => RecordsNext
  BY DEF RecordsPart, RecordsNext
<1>2. QED
  BY <1>1 DEF MCNext, vars

LEMMA SupplyMoves == [MCNext]_vars => [SupplyNext]_supplyVars
<1>1. SupplyPart => SupplyNext
  BY DEF SupplyPart
<1>2. QED
  BY <1>1 DEF MCNext, vars

-----------------------------------------------------------------------------
(* Behaviours.                                                             *)

\* Every behaviour of MCControlPlane is a behaviour of each component that it
\* extends: of the engines' ingest (engine_ingest.py), the task pool
\* (task_pool.py), accounts (accounts.py, oidc.py), hosted agents (agents.py) and
\* their skills (agent_skills.py), conversations (claude_agent_runs.py), MCP services
\* (mcp_registry.py), the skills market (skill_market.py), the gateway (gateway.py),
\* its Responses bridge (responses_bridge.py), knowledge (knowledge.py), the arena's
\* society (domain/arena.py), its records (persistence.py) and its supply of tasks
\* (task_dispatcher.py).
THEOREM PartsAreBehaviours ==
    MCSpec => /\ IngestSpec /\ PoolSpec /\ AccountsSpec /\ AgentsSpec
              /\ SkillsSpec /\ TalkSpec /\ McpSpec /\ MarketSpec /\ GatewaySpec
              /\ KnowledgeSpec /\ BridgeSpec
              /\ SocietySpec /\ RecordsSpec /\ SupplySpec
<1>1. MCInit => /\ IngestInit /\ PoolInit /\ AccountsInit /\ AgentsInit
                /\ SkillsInit /\ TalkInit /\ McpInit /\ MarketInit /\ GatewayInit
                /\ KnowledgeInit /\ BridgeInit
                /\ SocietyInit /\ RecordsInit /\ SupplyInit
  BY DEF MCInit
<1>2. MCSpec => IngestSpec /\ PoolSpec
  BY <1>1, IngestMoves, PoolMoves, PTL DEF MCSpec, IngestSpec, PoolSpec
<1>3. MCSpec => AccountsSpec /\ AgentsSpec
  BY <1>1, AccountsMoves, AgentsMoves, PTL DEF MCSpec, AccountsSpec, AgentsSpec
<1>4. MCSpec => SkillsSpec /\ TalkSpec /\ McpSpec
  BY <1>1, SkillsMove, TalkMoves, McpMoves, PTL DEF MCSpec, SkillsSpec, TalkSpec, McpSpec
<1>5. MCSpec => MarketSpec /\ GatewaySpec
  BY <1>1, MarketMoves, GatewayMoves, PTL DEF MCSpec, MarketSpec, GatewaySpec
<1>6. MCSpec => KnowledgeSpec /\ BridgeSpec
  BY <1>1, KnowledgeMoves, BridgeMoves, PTL DEF MCSpec, KnowledgeSpec, BridgeSpec
<1>7. MCSpec => SocietySpec /\ RecordsSpec /\ SupplySpec
  BY <1>1, SocietyMoves, RecordsMove, SupplyMoves, PTL
     DEF MCSpec, SocietySpec, RecordsSpec, SupplySpec
<1>8. QED
  BY <1>2, <1>3, <1>4, <1>5, <1>6, <1>7, PTL

\* A person of the identity provider has one account, and the key an agent
\* presents was issued to it, whatever the parts do (oidc.py:188-206,
\* agents.py:132-147).
THEOREM IdentitiesAreKept == MCSpec => []IdentitiesHold
<1>1. OneAccountPerSub /\ KeyIsKnown => IdentitiesHold
  BY DEF IdentitiesHold
<1>2. MCSpec => AccountsSpec /\ AgentsSpec
  BY PartsAreBehaviours
<1>3. QED
  BY <1>1, <1>2, OneAccountEach, AgentsKeysAreKnown, PTL

\* What each component promises of engines' outcomes and of forbidden steps
\* (engine_ingest.py), claims (task_pool.py), conversations (claude_agent_runs.py,
\* claude_code_runner.py), published skills and what they require
\* (skill_market.py), answers (gateway.py), handlers (mcp_registry.py), the index
\* and chunks of documents (knowledge.py) and bridged requests and streams
\* (responses_bridge.py) holds in every behaviour that is model-checked.
THEOREM PartsAreSafe ==
    MCSpec => [](/\ OutcomeWasReported /\ ForbiddenIsNotLogged /\ ClaimsExclude
                 /\ ConversationsHold /\ PublishedAsSubmitted /\ DepsAcyclic
                 /\ OneAnswer /\ HandlerIsCurrent /\ KnowledgeAgrees
                 /\ BridgeAgrees)
<1>1. MCSpec => []OutcomeWasReported /\ []ForbiddenIsNotLogged
  BY PartsAreBehaviours, ControlPlaneConstants, OutcomesWereReported,
     NothingForbiddenIsLogged, PTL
<1>2. MCSpec => []ClaimsExclude
  BY PartsAreBehaviours, ControlPlaneConstants, ClaimsAreExclusiveAndAlone, PTL
<1>3. MCSpec => []PublishedAsSubmitted /\ []DepsAcyclic
  BY PartsAreBehaviours, ControlPlaneConstants, MarketPublishesSubmitted, MarketDepsAcyclic, PTL
<1>4. MCSpec => []OneAnswer /\ []HandlerIsCurrent
  BY PartsAreBehaviours, ControlPlaneConstants, GatewayAnswersOnce, McpRunsProduction, PTL
<1>5. MCSpec => []ConversationsHold
  BY PartsAreBehaviours, ConversationsAreKept, PTL
<1>6. MCSpec => []KnowledgeAgrees
  BY PartsAreBehaviours, KnowledgeIsCurrent, PTL
<1>7. MCSpec => []BridgeAgrees
  BY PartsAreBehaviours, BridgeTellsOneResponse, PTL
<1>8. QED
  BY <1>1, <1>2, <1>3, <1>4, <1>5, <1>6, <1>7, PTL

\* An agent is once in the members of its own team and in no other
\* (domain/arena.py:290-420), what the arena keeps on disk comes back whole and is
\* read as it was written (persistence.py:382-460, task_history.py, social_log.py),
\* and no invented task is on offer twice (task_dispatcher.py:541-660), whatever
\* the parts do.
THEOREM ArenaIsKept == MCSpec => []ArenaAgrees
<1>1. MembersAgree /\ RecordsAgree /\ OfferedOnce => ArenaAgrees
  BY DEF ArenaAgrees
<1>2. MCSpec => SocietySpec /\ RecordsSpec /\ SupplySpec
  BY PartsAreBehaviours
<1>3. QED
  BY <1>1, <1>2, MembersAreInTheirTeam, RecordsAreKept, OffersAreSingle, PTL

\* No published skill requires itself through others, and what an agent's skills
\* require is found, once each (internal_skill_deploy/handler.py:66-106,
\* agent_skills.py:90-131).
THEOREM DepsAreResolved == MCSpec => []DepsResolve
<1>1. DepsAcyclic /\ ResolvesAll => DepsResolve
  BY DEF DepsResolve
<1>2. MCSpec => []DepsAcyclic
  BY PartsAreBehaviours, ControlPlaneConstants, MarketDepsAcyclic, PTL
<1>3. MCSpec => []ResolvesAll
  BY PartsAreBehaviours, ControlPlaneConstants, DependenciesResolve, PTL
<1>4. QED
  BY <1>1, <1>2, <1>3, PTL

=================================================================================
