------------------------------ MODULE HostedAgents ------------------------------
(***************************************************************************)
(* The agents the platform hosts (infra/agents.py), their members, their   *)
(* API keys, the templates of their identity (infra/agent_templates.py)    *)
(* and the profile each keeps in its workspace                             *)
(* (infra/workspace_profile.py).                                           *)
(*                                                                         *)
(* Agents, templates and keys are rows of two databases and files, written *)
(* one statement after another.  Nothing runs between the statements of    *)
(* one call, but the process may stop there.  An identity (soul, paradigm, *)
(* standards) is one text.                                                 *)
(***************************************************************************)
EXTENDS Integers, Sequences, FiniteSets

CONSTANTS AgentIds,
          LegacyAgents,     \* of AgentIds: made before agents had several members
          People,           \* accounts
          AgentKeyIds,
          TemplateIds,      \* of department templates
          Texts,            \* identities that administrators write
          Releases,         \* a sequence: the built-in templates of each release of
                            \* the code, a function from their ids to a text
          RouteAliases,     \* the number of route aliases that are enabled
          Admin, NoTemplate, NoKey, NoText

VARIABLES
    agents,       \* a function on the agents that have a row
    members,      \* agent_members: the set of <<agent, account, role>>
    agentKeys,    \* gateway_api_keys of agents: a function on the keys that have a row
    templates,    \* agent_identity_templates: a function on the rows
    profiles,     \* the files of each agent: profile.json and AGENT_PROFILE.md
    release       \* of the code that runs

agentVars == <<agents, members, agentKeys, templates, profiles, release>>

AgentRow(policy, t) ==
    [status |-> "active", policy |-> policy, template |-> t, key |-> NoKey, legacy |-> FALSE]

NoProfile == [json |-> NoText, md |-> NoText]

AgentsInit ==
    /\ agents = [a \in LegacyAgents |-> [AgentRow("all", NoTemplate) EXCEPT !.legacy = TRUE]]
    /\ members \in SUBSET {<<a, p, "member">> : a \in LegacyAgents, p \in People}
    /\ agentKeys = [k \in {} |-> {}]
    /\ templates = [t \in {} |-> {}]
    /\ profiles = [a \in AgentIds |-> NoProfile]
    /\ release = 1

-----------------------------------------------------------------------------
(* Templates.  Every access to the table first brings the built-in ones up *)
(* to the release of the code.                                             *)

Builtins == UNION {DOMAIN Releases[r] : r \in DOMAIN Releases}

BuiltinRow(t) == [category |-> "personal", text |-> Releases[release][t], seed |-> release]

Seeded ==
    LET shipped == DOMAIN Releases[release]
        kept == {t \in DOMAIN templates :
                    ~(templates[t].category = "personal" /\ t \in Builtins \ shipped)}
    IN  [t \in kept \cup shipped |->
            IF t \in shipped /\ (t \in kept => templates[t].seed # release)
            THEN BuiltinRow(t) ELSE templates[t]]

ListTemplates ==
    /\ templates' = Seeded
    /\ UNCHANGED <<agents, members, agentKeys, profiles, release>>

CreateTemplate(t, text) ==
    /\ t \notin DOMAIN templates
    /\ templates' = [u \in DOMAIN Seeded \cup {t} |->
                        IF u = t THEN [category |-> "department", text |-> text, seed |-> 0]
                        ELSE Seeded[u]]
    /\ UNCHANGED <<agents, members, agentKeys, profiles, release>>

(* The category may change too, to personal as well.                       *)
UpdateTemplate(t, text, category) ==
    /\ t \in DOMAIN Seeded /\ Seeded[t].category # "personal"
    /\ templates' = [Seeded EXCEPT ![t].text = text, ![t].category = category]
    /\ UNCHANGED <<agents, members, agentKeys, profiles, release>>

DeleteTemplate(t) ==
    /\ t \in DOMAIN Seeded /\ Seeded[t].category # "personal"
    /\ templates' = [u \in DOMAIN Seeded \ {t} |-> Seeded[u]]
    /\ UNCHANGED <<agents, members, agentKeys, profiles, release>>

(* The template's text replaces that of the agents that have a profile.    *)
(* AGENT_PROFILE.md keeps the old one.                                     *)
SyncTemplate(t, A) ==
    /\ t \in DOMAIN Seeded
    /\ templates' = Seeded
    /\ profiles' = [a \in AgentIds |->
                       IF a \in A /\ profiles[a].json # NoText
                       THEN [profiles[a] EXCEPT !.json = Seeded[t].text] ELSE profiles[a]]
    /\ UNCHANGED <<agents, members, agentKeys, release>>

-----------------------------------------------------------------------------
(* Agents.                                                                 *)

(* Starting makes every member of a legacy agent its owner.                *)
Migrated(table) ==
    {<<m[1], m[2], IF m[1] \in LegacyAgents THEN "owner" ELSE m[3]>> : m \in table}

(* Mutant: the agent's row is written before the key is known.             *)
AgentFirst == "agents"

(* The key is written to accounts.db and then to the agent's row.          *)
FirstWrite == "accounts"

KeysWith(a, k, whole) ==
    IF whole \/ FirstWrite = "accounts"
    THEN [j \in DOMAIN agentKeys \cup {k} |->
             IF j = k THEN [owner |-> a, live |-> TRUE] ELSE agentKeys[j]]
    ELSE agentKeys

AgentsWith(rows, a, k, whole) ==
    IF whole \/ FirstWrite = "agents" THEN [rows EXCEPT ![a].key = k] ELSE rows

FreshKeys == AgentKeyIds \ DOMAIN agentKeys

AliasesAllow(policy) == policy = "routes_only" => RouteAliases > 0

KnownTemplate(t) == t \in {NoTemplate} \cup Builtins \cup DOMAIN Seeded

(* The row, the owner, the profile of the template, the key, the key in    *)
(* the row.  The call ends after the fifth step; the process may stop      *)
(* after any.                                                              *)
CreateAgent(a, p, policy, t, steps) ==
    /\ a \notin DOMAIN agents /\ AliasesAllow(policy) /\ KnownTemplate(t)
    /\ LET rows == [b \in DOMAIN agents \cup {a} |-> IF b = a THEN AgentRow(policy, t) ELSE agents[b]]
           owned == IF steps > 1 THEN members \cup {<<a, p, "owner">>} ELSE members
       IN  /\ IF steps > 3
              THEN \E k \in FreshKeys :
                      /\ agentKeys' = KeysWith(a, k, steps = 5)
                      /\ agents' = AgentsWith(rows, a, k, steps = 5)
              ELSE agents' = rows /\ UNCHANGED agentKeys
           /\ members' = IF steps = 5 THEN owned ELSE Migrated(owned)
    /\ profiles' = IF steps > 2 /\ t \in DOMAIN Seeded
                   THEN [profiles EXCEPT ![a].json = Seeded[t].text] ELSE profiles
    /\ templates' = IF t = NoTemplate THEN templates ELSE Seeded
    /\ UNCHANGED release

(* get_agent_key, asked by the bridge and before a run, issues the key an  *)
(* agent lacks.  A key that was revoked is not replaced.                   *)
GetAgentKey(a, whole) ==
    /\ a \in DOMAIN agents /\ agents[a].key = NoKey
    /\ \E k \in FreshKeys :
          agentKeys' = KeysWith(a, k, whole) /\ agents' = AgentsWith(agents, a, k, whole)
    /\ members' = IF whole THEN members ELSE Migrated(members)
    /\ UNCHANGED <<templates, profiles, release>>

RevokeAgentKey(k) ==
    /\ k \in DOMAIN agentKeys
    /\ agentKeys' = [agentKeys EXCEPT ![k].live = FALSE]
    /\ UNCHANGED <<agents, members, templates, profiles, release>>

CanAccess(who, a) ==
    a \in DOMAIN agents /\ (who = Admin \/ \E m \in members : m[1] = a /\ m[2] = who)

UpdateAgent(who, a, status, policy) ==
    /\ CanAccess(who, a) /\ AliasesAllow(policy)
    /\ agents' = [agents EXCEPT ![a].status = status, ![a].policy = policy]
    /\ UNCHANGED <<members, agentKeys, templates, profiles, release>>

BindAccount(a, p) ==
    /\ a \in DOMAIN agents /\ \A m \in members : <<m[1], m[2]>> # <<a, p>>
    /\ members' = members \cup {<<a, p, "member">>}
    /\ UNCHANGED <<agents, agentKeys, templates, profiles, release>>

UnbindAccount(a, p) ==
    /\ \E m \in members : m[1] = a /\ m[2] = p
    /\ members' = {m \in members : m[1] # a \/ m[2] # p}
    /\ UNCHANGED <<agents, agentKeys, templates, profiles, release>>

(* The profile of an agent made from a template is the administrators'.    *)
(* The process may stop between the two files.                             *)
SaveProfile(who, a, text, whole) ==
    /\ CanAccess(who, a) /\ (agents[a].template = NoTemplate \/ who = Admin)
    /\ profiles' = [profiles EXCEPT ![a].json = text, ![a].md = IF whole THEN text ELSE @]
    /\ members' = IF whole THEN members ELSE Migrated(members)
    /\ UNCHANGED <<agents, agentKeys, templates, release>>

AgentsRestart ==
    /\ members' = Migrated(members)
    /\ release' \in {release} \cup ({release + 1} \cap DOMAIN Releases)
    /\ UNCHANGED <<agents, agentKeys, templates, profiles>>

-----------------------------------------------------------------------------
AgentsNext ==
    \/ \E a \in AgentIds :
          \/ \E p \in People :
                \/ BindAccount(a, p) \/ UnbindAccount(a, p)
                \/ \E policy \in {"all", "routes_only"},
                      t \in {NoTemplate} \cup Builtins \cup TemplateIds, steps \in 1 .. 5 :
                      CreateAgent(a, p, policy, t, steps)
          \/ \E whole \in BOOLEAN :
                \/ GetAgentKey(a, whole)
                \/ \E who \in People \cup {Admin}, text \in Texts : SaveProfile(who, a, text, whole)
          \/ \E who \in People \cup {Admin}, s \in {"active", "archived", "deleted"},
                policy \in {"all", "routes_only"} : UpdateAgent(who, a, s, policy)
    \/ \E k \in AgentKeyIds : RevokeAgentKey(k)
    \/ \E t \in TemplateIds \cup Builtins :
          \/ DeleteTemplate(t)
          \/ \E A \in SUBSET AgentIds : SyncTemplate(t, A)
          \/ \E text \in Texts, c \in {"department", "personal"} : UpdateTemplate(t, text, c)
    \/ \E t \in TemplateIds, text \in Texts : CreateTemplate(t, text)
    \/ ListTemplates
    \/ AgentsRestart

-----------------------------------------------------------------------------
(* The rows, and that a built-in template is what a release shipped.       *)
AgentsTypeOK ==
    /\ DOMAIN agents \subseteq AgentIds
    /\ \A a \in DOMAIN agents :
          /\ agents[a].status \in {"active", "archived", "deleted"}
          /\ agents[a].policy \in {"all", "routes_only"}
          /\ agents[a].template \in {NoTemplate} \cup Builtins \cup TemplateIds
          /\ agents[a].key \in AgentKeyIds \cup {NoKey}
    /\ \A m \in members :
          m[1] \in DOMAIN agents /\ m[2] \in People /\ m[3] \in {"owner", "member"}
    /\ \A k \in DOMAIN agentKeys :
          agentKeys[k].owner \in DOMAIN agents /\ agentKeys[k].live \in BOOLEAN
    /\ \A t \in DOMAIN templates :
          IF t \in Builtins THEN templates[t].text = Releases[templates[t].seed][t]
          ELSE t \in TemplateIds /\ templates[t].text \in Texts /\ templates[t].seed = 0
    /\ release \in DOMAIN Releases

(* Wherever the process stopped, the key an agent presents is one that was *)
(* issued to this agent: accounts.db knows it, as no other agent's         *)
(* (agents.py:132-147, 244-250).                                           *)
KeyIsKnown ==
    \A a \in DOMAIN agents :
        agents[a].key # NoKey =>
            agents[a].key \in DOMAIN agentKeys /\ agentKeys[agents[a].key].owner = a
===============================================================================
