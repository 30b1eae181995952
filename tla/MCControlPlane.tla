---------------------------- MODULE MCControlPlane ----------------------------
(***************************************************************************)
(* The components of the control plane that share no state with another:   *)
(* engines and policies, the task pool, accounts, hosted agents and their  *)
(* skills and conversations, MCP services, the skills market, the gateway  *)
(* and its Responses bridge, knowledge, and the arena's society, records   *)
(* and task supply, whose constants have one value each.  A behaviour is a *)
(* behaviour of the part that the initial state picks; the others stay as  *)
(* they are.  A part may be less than a component can do: which of its     *)
(* tables move is then said beside its next-state relation.                *)
(***************************************************************************)
EXTENDS EngineIngest, TaskPool, Accounts, HostedAgents, AgentSkills, Conversations, McpRegistry,
        SkillMarket, Gateway, Knowledge, ResponsesBridge, ArenaSociety, ArenaRecords, TaskSupply,
        TLC

CONSTANTS Parts,
          e1, r1, p1, p2,          \* an engine, its run, two policies
          k1, k2, w1, w2, u1,      \* two tasks, two workers, a submitter
          s1, s2, s3, s4,          \* two skills, one from outside, one of the catalog
          q1, q2,                  \* two requests
          root, org, x1, t1, f1, f2, \* organisations, a subject, a session, keys
          a1, a2,                  \* two agents
          Void

VARIABLE part

-----------------------------------------------------------------------------
(* Values of constants that a .cfg cannot write.                           *)

\* A policy that forbids a tool, one that asks before it, and one that blocks secrets.
PolicyRow(category, deny, allow, ask, block) ==
    [category |-> category, on |-> TRUE, deny |-> deny, allow |-> allow, ask |-> ask,
     roots |-> {}, max |-> 0, block |-> block]

ToolRow(deny, allow, ask) == PolicyRow("tool", deny, allow, ask, FALSE)

Forbids == ToolRow({<<"rm">>}, {}, {})

MCPolicyRows == {Forbids, ToolRow({}, {}, {<<"rm">>})}

MCDefaultPolicies == p1 :> PolicyRow("security", {<<"key">>}, {}, {}, TRUE)

Context(kind, what) == [kind |-> kind, what |-> what, size |-> 0, roots |-> {}]

MCRunEngine == r1 :> e1

MCStepContexts == {Context("tool", <<"shell", "rm">>)}

MCEndTexts == {Context("text", <<"key">>)}

\* Hermes workers.
MCIdentity == w1 :> "sysadmin" @@ w2 :> "sysadmin"

MCScopeSets == {{"console.write"}, {"agent.run"}}

MCReleases == <<"mcp" :> "old" @@ "skill" :> "old", "mcp" :> "new">>

MCDepSets == SUBSET {s1, s2, s3}

MCIdOf == "a/b" :> "a_b" @@ "c/d" :> "c_d"

MCBundles == {{s4}}

\* "best" is m1, or m2 if it fails; "auto" is m2 or both.
RouteRow(alias, target, auto, fallbacks) ==
    [alias |-> alias, target |-> target, team |-> None, account |-> None, priority |-> 100,
     on |-> TRUE, auto |-> auto, order |-> <<>>, fallbacks |-> fallbacks,
     tiers |-> [fast |-> <<"m2">>, balanced |-> <<>>, strong |-> <<"m1">>]]

MCRouteRows == {RouteRow("best", "m1", FALSE, <<"m2">>), RouteRow("best", "m2", TRUE, <<"m3">>)}

ModelRow(on, anthropic, vision) ==
    [on |-> on, openai |-> TRUE, anthropic |-> anthropic, vision |-> vision, default |-> FALSE]

MCModelRows == {ModelRow(TRUE, FALSE, TRUE), ModelRow(FALSE, FALSE, FALSE)}

MCKinds == [api : {"chat", "anthropic", "responses"}, stream : BOOLEAN]

\* Of a space, of a source, and one whose id both have a document for.
MCAddresses == {<<"native", "z">>, <<"native", "x">>, <<p1, "y">>}

MCDocOf == <<"native", "z">> :> "d2" @@ <<"native", "x">> :> "d1" @@ <<p1, "y">> :> "d1"

MCNativeOf == "space" :> "native" @@ "other" :> p2

PageLine(kind, n) == [kind |-> kind, chars |-> n]

\* Texts of up to six lines.
MCPages ==
    UNION {[1 .. n -> {PageLine("heading", 2), PageLine("blank", 0), PageLine("text", 1),
                       PageLine("text", 4)}] : n \in 0 .. 6}

Item(type, c) == [type |-> type, call |-> c]

MCItems == {Item("user", ""), Item("reasoning", "")} \cup
           {Item(type, c) : type \in {"function_call", "function_call_output"}, c \in {"c1", "c2"}}

\* The arena's numbers.
MCRewards == {-2, 1}

MCLoyalty == "success" :> 1 @@ "fail" :> -2 @@ "given" :> 1 @@ "received" :> 2

\* Two invented texts that pass for the same.
MCAlike == {{"i1", "i2"}}

-----------------------------------------------------------------------------
(* The parts of the components.                                            *)

ASSUME PartsAreOfComponents ==
    /\ {k1, k2} \subseteq Tasks /\ w1 \in Workers /\ u1 \in Submitters
    /\ {s1, s2, s3, s4} \subseteq Skills
    /\ {q1, q2} \subseteq Requests
    /\ {s1, s2} \subseteq SkillIds /\ a1 \in Holders /\ {s2} \in DepSets
    /\ "a/b" \in Paths /\ {"a_b", "c_d", "deploy", "ext"} \subseteq Ids /\ a1 \in Callers
    /\ "online" \in ServiceStatuses /\ "internal" \in Sources
    /\ MCKinds \subseteq Kinds
    /\ {1, 2} \subseteq ArenaIds /\ {a1, a2} \subseteq ArenaAgents
    /\ {"belief", "write", "wisdom", "decision", "skill"} \subseteq Chores

\* A step is no end of a run; policies and skills are finitely many; a worker has
\* a name, and what is set by hand is a status; what is authored or required are
\* skills, and no more of them than a walk through what they require may enter.
ASSUME ControlPlaneConstants ==
    /\ StepKinds \cap {"run.completed", "complete"} = {}
    /\ IsFiniteSet(PolicyIds) /\ IsFiniteSet(DOMAIN DefaultPolicies)
    /\ CreateLimit \in Nat /\ SetByHand \subseteq Statuses
    /\ \A w \in Workers : Identity[w] # Nobody
    /\ McpConstants
    /\ Authored \subseteq Skills /\ IsFiniteSet(Skills)
    /\ IsFiniteSet(SkillIds) /\ MaxDepth \in Nat /\ Cardinality(SkillIds) <= MaxDepth + 1
    /\ DepSets \subseteq SUBSET SkillIds

\* Reports under tokens that change; reports under policies that change.
IngestPart ==
    \/ /\ part = "ingest" /\ IngestNext
       /\ \A p \in DOMAIN policies' : p = p1 /\ policies'[p] \in {MCDefaultPolicies[p1], Forbids}
    \/ part = "policed" /\ IngestNext /\ issued' < MaxTokens

\* Two Hermes workers and an administrator about one task; by themselves about
\* two; one beside a submitter whose requests are counted and an administrator.
PoolPart ==
    \/ part = "pool" /\ (TaskNext(k1) \/ ByHandNext(k1) \/ \E w \in Workers : WorkerNext(w))
    \/ part = "pair" /\ ((\E t \in Tasks : TaskNext(t)) \/ (\E w \in Workers : WorkerNext(w)))
    \/ /\ part = "submit"
       /\ SubmitterNext(u1) \/ WorkerNext(w1) \/ \E t \in Tasks : TaskNext(t) \/ ByHandNext(t)

\* Two skills that agents develop; one that also comes from outside; one of the
\* starter catalog.
MarketPart ==
    \/ part = "market" /\ \E s \in {s1, s2} : SkillNext(s, {s1, s2})
    \/ part = "catalog" /\ (SkillNext(s3, {s3}) \/ ShelvesNext)
    \/ part = "starter" /\ (SkillNext(s4, {s4}) \/ ShelvesNext)

\* One request of any kind while routes and models change; two requests of one key.
FewKinds == {[api |-> "responses", stream |-> FALSE], [api |-> "chat", stream |-> TRUE],
             [api |-> "responses", stream |-> TRUE]}

GatewayPart ==
    \/ /\ part = "call"
       /\ \/ RequestNext(q1, MCKinds)
          \/ GatewayRestart
          \/ AdministerRoutes /\ UNCHANGED <<call, log, heard>>
    \/ part = "calls" /\ (GatewayRestart \/ \E r \in Requests : RequestNext(r, FewKinds))

\* People who log in by single sign-on; a key that administers.
AccountsPart ==
    \/ part = "staff" /\ AccountsNext /\ UNCHANGED <<orgs, keys>>
    \/ part = "keys" /\ AccountsNext /\ UNCHANGED <<sessions, logins>>

\* Two agents and their keys; an agent, its template and two releases.
AgentsPart ==
    \/ /\ part = "agents" /\ AgentsNext
       /\ \A a \in DOMAIN agents' : agents'[a].template = NoTemplate
       /\ UNCHANGED <<templates, profiles, release>>
    \/ /\ part = "templates" /\ AgentsNext
       /\ agents'[a1] = agents[a1] /\ profiles'[a1] = profiles[a1]
       /\ f2 \notin DOMAIN agentKeys' /\ \A m \in members' : m[1] # a1

\* Three skills that may require each other; two skills that an agent installs.
SkillsPart ==
    \/ /\ part = "deps"
       /\ \E s \in SkillIds, deps \in DepSets : VersionNext(s, deps)
       /\ marketRow' = marketRow /\ content' = content
    \/ /\ part = "install"
       /\ HolderNext(a1, {s1, s2}) \/ \E s \in {s1, s2} : VersionNext(s, {s2})

\* A run that may resume the one before it and is watched; three runs that answer
\* each other; the conversations of four.
TalkPart ==
    \/ /\ part = "talk" /\ TalkNext
       /\ Len(chats') <= 2 /\ \A r \in DOMAIN chats' : chats'[r].at = r /\ chats'[r].size = 1
    \/ /\ part = "minds" /\ AnswerNext
       /\ Len(chats') <= 3 /\ \A r \in DOMAIN chats' : chats'[r].at = r
    \/ /\ part = "groups" /\ GroupNext
       /\ \A r \in DOMAIN chats' : chats'[r].size = 1

\* A service that agents develop in two directories, one from outside, and
\* calls; the grants to an agent.
McpPart ==
    \/ /\ part = "mcp"
       /\ \/ PathNext("a/b", {}) \/ ShopNext(a1, {}) \/ LoaderRestart
          \/ ServiceNext("a_b", {"online"}, {"internal"})
          \/ \E s \in {"a_b", "deploy"} : UseNext(a1, s)
    \/ /\ part = "outside"
       /\ \/ ShopNext(a1, {}) \/ LoaderRestart
          \/ \E s \in {"ext", "deploy"} : ServiceNext(s, ServiceStatuses, Sources) \/ UseNext(a1, s)
    \/ part = "granting" /\ (GrantNext \/ \E s \in {"c_d", "deploy"} : UseNext(a1, s))

\* A space with a document; a space and a source whose documents get one id; two
\* spaces with folders; a text that is cut.
KnowledgePart ==
    \/ /\ part = "library" /\ KnowledgeNext
       /\ DOMAIN documents' \subseteq {"d2"} /\ DOMAIN library' \subseteq {"native"}
       /\ DOMAIN spaces' \subseteq {"space"} /\ DOMAIN folders' \subseteq {"f1"}
    \/ /\ part = "colons" /\ KnowledgeNext
       /\ DOMAIN documents' \subseteq {"d1"} /\ DOMAIN library' \subseteq {p1, "native"}
       /\ DOMAIN spaces' \subseteq {"space"} /\ folders' = <<>>
    \/ /\ part = "folders" /\ KnowledgeNext
       /\ documents' = <<>> /\ DOMAIN library' \subseteq {p2, "native"}
    \/ part = "chunks" /\ Split

\* Requests with two calls; streams.
BridgePart ==
    \/ part = "convert" /\ Convert
    \/ part = "stream" /\ BridgeNext

\* Agents that form teams; agents that finish a task; two that write to each
\* other; two that restart, of which one is deleted by hand.
SocietyPart ==
    \/ /\ part = "teams" /\ UNCHANGED disk
       /\ NewAgent \/ TeamsNext(ArenaIds) \/ \E a \in ArenaIds : RosterNext(a)
    \/ /\ part = "tasks" /\ UNCHANGED disk
       /\ \/ NewAgent \/ TeamsNext({})
          \/ \E a \in ArenaIds : PipelineNext(a, {"belief"}) \/ ThoughtsNext(a)
    \/ /\ part = "letters" /\ UNCHANGED disk
       /\ \/ NewAgent \/ TeamsNext({})
          \/ \E a \in ArenaIds : \/ PipelineNext(a, {"write", "wisdom", "decision", "skill"})
                                 \/ ThoughtsNext(a)
       /\ lastId' <= 2
    \/ /\ part = "restarts"
       /\ NewAgent \/ TeamsNext({1}) \/ PipelineNext(1, {}) \/ RestartNext \/ DeleteAgent(1)
       /\ lastId' <= 2

\* The saved state of two agents; the journals of one; letters among three.
RecordsPart ==
    \/ /\ part = "store" /\ StoreNext
       /\ changes' # changes => Last(changes') \subseteq {a1, a2}
    \/ /\ part = "journals" /\ JournalNext
       /\ \A j \in Books : written'[j] # written[j] => Last(written'[j]).agent = a1
    \/ part = "post" /\ PostNext

SupplyPart == part = "supply" /\ SupplyNext

-----------------------------------------------------------------------------
MCInit ==
    /\ part \in Parts
    /\ IngestInit /\ PoolInit /\ AccountsInit /\ AgentsInit /\ McpInit /\ MarketInit /\ GatewayInit
    /\ SkillsInit
    /\ SocietyInit
    /\ BridgeInit /\ (part # "convert" => asked = <<>>)
    /\ KnowledgeInit /\ (part # "chunks" => page = <<>>)
    /\ RecordsInit /\ (part # "store" => changes = <<>>)
    /\ part # "journals" => \A j \in Books : books[j].old = NoRecord
    /\ SupplyInit
    /\ TalkInit /\ (part = "talk" <=> chats # <<>>)
    /\ \A r \in DOMAIN chats : chats[r].size = 1
    /\ part # "call" => routes = <<>>
    /\ part # "agents" => members = {}

MCNext ==
    \/ /\ IngestPart
       /\ UNCHANGED <<part, poolVars, marketVars, gatewayVars, accountVars, agentVars,
                      mcpVars, skillVars, societyVars, bridgeVars, knowledgeVars, recordVars,
                      supplyVars, talkVars>>
    \/ /\ PoolPart
       /\ UNCHANGED <<part, ingestVars, marketVars, gatewayVars, accountVars, agentVars,
                      mcpVars, skillVars, societyVars, bridgeVars, knowledgeVars, recordVars,
                      supplyVars, talkVars>>
    \/ /\ MarketPart
       /\ UNCHANGED <<part, ingestVars, poolVars, gatewayVars, accountVars, agentVars,
                      mcpVars, skillVars, societyVars, bridgeVars, knowledgeVars, recordVars,
                      supplyVars, talkVars>>
    \/ /\ GatewayPart
       /\ UNCHANGED <<part, ingestVars, poolVars, marketVars, accountVars, agentVars,
                      mcpVars, skillVars, societyVars, bridgeVars, knowledgeVars, recordVars,
                      supplyVars, talkVars>>
    \/ /\ AccountsPart
       /\ UNCHANGED <<part, ingestVars, poolVars, marketVars, gatewayVars, agentVars,
                      mcpVars, skillVars, societyVars, bridgeVars, knowledgeVars, recordVars,
                      supplyVars, talkVars>>
    \/ /\ AgentsPart
       /\ UNCHANGED <<part, ingestVars, poolVars, marketVars, gatewayVars, accountVars,
                      mcpVars, skillVars, societyVars, bridgeVars, knowledgeVars, recordVars,
                      supplyVars, talkVars>>
    \/ /\ McpPart
       /\ UNCHANGED <<part, ingestVars, poolVars, marketVars, gatewayVars, accountVars,
                      agentVars, skillVars, societyVars, bridgeVars, knowledgeVars,
                      recordVars, supplyVars, talkVars>>
    \/ /\ SkillsPart
       /\ UNCHANGED <<part, ingestVars, poolVars, marketVars, gatewayVars, accountVars,
                      agentVars, mcpVars, societyVars, bridgeVars, knowledgeVars, recordVars,
                      supplyVars, talkVars>>
    \/ /\ SocietyPart
       /\ UNCHANGED <<part, ingestVars, poolVars, marketVars, gatewayVars, accountVars,
                      agentVars, mcpVars, skillVars, bridgeVars, knowledgeVars, recordVars,
                      supplyVars, talkVars>>
    \/ /\ BridgePart
       /\ UNCHANGED <<part, ingestVars, poolVars, marketVars, gatewayVars, accountVars,
                      agentVars, mcpVars, skillVars, societyVars, knowledgeVars, recordVars,
                      supplyVars, talkVars>>
    \/ /\ KnowledgePart
       /\ UNCHANGED <<part, ingestVars, poolVars, marketVars, gatewayVars, accountVars,
                      agentVars, mcpVars, skillVars, societyVars, bridgeVars, recordVars,
                      supplyVars, talkVars>>
    \/ /\ RecordsPart
       /\ UNCHANGED <<part, ingestVars, poolVars, marketVars, gatewayVars, accountVars,
                      agentVars, mcpVars, skillVars, societyVars, bridgeVars, knowledgeVars,
                      supplyVars, talkVars>>
    \/ /\ SupplyPart
       /\ UNCHANGED <<part, ingestVars, poolVars, marketVars, gatewayVars, accountVars,
                      agentVars, mcpVars, skillVars, societyVars, bridgeVars, knowledgeVars,
                      recordVars, talkVars>>
    \/ /\ TalkPart
       /\ UNCHANGED <<part, ingestVars, poolVars, marketVars, gatewayVars, accountVars,
                      agentVars, mcpVars, skillVars, societyVars, bridgeVars, knowledgeVars,
                      recordVars, supplyVars>>

vars == <<part, ingestVars, poolVars, marketVars, gatewayVars, accountVars, agentVars, mcpVars,
          skillVars, societyVars, bridgeVars, knowledgeVars, recordVars, supplyVars, talkVars>>

MCSpec == MCInit /\ [][MCNext]_vars

-----------------------------------------------------------------------------
(* The types of the tables of every part (engine_ingest.py:30-112,         *)
(* task_pool.py:67-91, skill_market.py:69-191).                            *)
TypesOK ==
    /\ part \in {"ingest", "policed"} => IngestTypeOK
    /\ part \in {"pool", "pair", "submit"} => PoolTypeOK
    /\ part \in {"market", "catalog", "starter"} => MarketTypeOK
    /\ part \in {"call", "calls"} => GatewayTypeOK
    /\ part \in {"staff", "keys"} => AccountsTypeOK
    /\ part \in {"agents", "templates"} => AgentsTypeOK
    /\ part \in {"mcp", "granting", "outside"} => McpTypeOK
    /\ part \in {"deps", "install"} => SkillsTypeOK
    /\ part \in {"teams", "tasks", "letters", "restarts"} => SocietyTypeOK
    /\ part \in {"convert", "stream"} => BridgeTypeOK
    /\ part \in {"library", "colons", "folders"} => KnowledgeTypeOK
    /\ part \in {"store", "journals", "post"} => RecordsTypeOK
    /\ part = "supply" => SupplyTypeOK
    /\ part \in {"talk", "minds", "groups"} => TalkTypeOK

(* A person of the identity provider has one account (oidc.py:188-206),    *)
(* and the key an agent presents was issued to it (agents.py:132-147).     *)
IdentitiesHold == OneAccountPerSub /\ KeyIsKnown

(* No published skill requires itself through others, and what an agent's   *)
(* skills require is found, once each (internal_skill_deploy/handler.py:    *)
(* 66-106, agent_skills.py:90-131).                                        *)
DepsResolve ==
    /\ DepsAcyclic
    /\ part = "deps" => ResolvesAll

(* An agent is once in the members of its own team and in no other         *)
(* (domain/arena.py:290-420); what the arena keeps on disk comes back whole *)
(* and is read as it was written (persistence.py:382-460, task_history.py,  *)
(* social_log.py); and no invented task is on offer twice                   *)
(* (task_dispatcher.py:541-660).                                           *)
ArenaAgrees ==
    /\ MembersAgree
    /\ part \in {"store", "journals", "post"} => RecordsAgree
    /\ part = "supply" => OfferedOnce
===============================================================================
