------------------------------ MODULE McpRegistry ------------------------------
(***************************************************************************)
(* The registry of MCP services (infra/mcp_registry.py), its console and   *)
(* calls (api/routers/mcp_services.py, mcp_bridge.py), the loader of       *)
(* handlers (services/mcp_loader.py) and the submission of a service by an *)
(* agent (mcp_system/internal_mcp_deploy).                                 *)
(*                                                                         *)
(* A handler is a file with a time, and its code.  Agents write handlers   *)
(* in a development directory, with any time (a file that is unpacked or   *)
(* copied keeps its own), or in their workspaces; there the time tells the *)
(* code, and no handler of another place has it.  Every call runs without  *)
(* an await, statement by statement on the disk; the process may stop      *)
(* between two.  Schemas, tables, texts and the usage log are left out.    *)
(***************************************************************************)
EXTENDS Integers, Sequences, FiniteSets, SequencesExt

CONSTANTS Callers,        \* agents
          Roles,
          Paths,          \* mcp_path: category and name
          Approved,       \* of Paths: reviewed before the behaviour starts
          IdOf,           \* service id of each path; several may have one id
          SystemIds,      \* the services the platform ships
          ExternalIds,
          Deployer,       \* system-internal_mcp_deploy
          Dims, Values,   \* data dimensions and their values
          ServiceStatuses, Sources, \* that the console sets
          Deployed,       \* ids under which it deploys workspaces
          Codes, Times,   \* of files in development: sets of positive integers
          ShopCodes,      \* of files in workspaces
          MaxReviews,     \* bound on the versions submitted
          NoPath, All     \* All: the value "*"

VARIABLES
    services,     \* mcp_services: a function on the ids that have a row
    reviews,      \* mcp_service_versions in the order of submission
    dev, shop,    \* the handler and manifest in each development directory,
                  \* in each agent's workspace
    prod,         \* mcp-services: the handler in each directory
    handlers,     \* _handler_cache: the file each service was loaded from
    tools,        \* _external_tools_cache: services whose list is kept
    grants,       \* agent_mcp_policies that are enabled: <<agent, service>>
    roles, roleMembers, roleGrants,
    roleDims,     \* agent_role_dimensions: a function on <<role, dimension>>
    dims,         \* system_dimension_registry
    permissionsPy,\* the dimensions in the generated permissions.py
    mcpJson,      \* agents whose workspace has a .mcp.json
    ran           \* the last handler that ran, and the one on disk then

catalogVars == <<services, reviews, dev, shop, prod, handlers, tools>>
grantVars == <<grants, roles, roleMembers, roleGrants, roleDims, dims, permissionsPy, mcpJson>>
mcpVars == <<catalogVars, grantVars, ran>>

Ids == {IdOf[p] : p \in Paths} \cup SystemIds \cup ExternalIds

\* Paths are no ids; files have a time and a code.
McpConstants ==
    /\ Paths \cap Ids = {} /\ Approved \subseteq Paths /\ Deployed \subseteq Ids
    /\ Times \subseteq Nat \ {0} /\ Times # {}
    /\ ShopCodes \subseteq Nat \ {0}

Row(status, source, path, d) == [status |-> status, source |-> source, path |-> path, dims |-> d]

NoFile == [code |-> 0, time |-> 0, dims |-> {}]

ReviewedFile == [code |-> Min(Codes), time |-> Min(Times), dims |-> Dims]

McpInit ==
    /\ services = [s \in SystemIds \cup {IdOf[p] : p \in Approved} |->
                      IF s \in SystemIds THEN Row("online", "system", NoPath, {})
                      ELSE Row("online", "internal", CHOOSE p \in Approved : IdOf[p] = s, Dims)]
    /\ reviews = <<>>
    /\ dev = [p \in Paths |-> IF p \in Approved THEN ReviewedFile ELSE NoFile]
    /\ shop = [a \in Callers |-> NoFile]
    /\ prod = [d \in Paths \cup Ids |-> IF d \in Approved THEN ReviewedFile ELSE NoFile]
    /\ handlers = [s \in Ids |-> NoFile]
    /\ tools = {} /\ grants = {} /\ roles = {} /\ roleMembers = {} /\ roleGrants = {}
    /\ roleDims = [x \in {} |-> {}]
    /\ dims = {} /\ permissionsPy = {} /\ mcpJson = {}
    /\ ran = [code |-> 0, onDisk |-> 0]

-----------------------------------------------------------------------------
(* What an agent may call.                                                 *)

Online(s) == s \in DOMAIN services /\ services[s].status = "online"

ListPoliciesForAgent(a) ==
    {s \in Ids : Online(s) /\
        \/ <<a, s>> \in grants
        \/ \E r \in roles : <<r, a>> \in roleMembers /\ <<r, s>> \in roleGrants}

(* A role's "*" gives no value; a dimension that is no longer registered   *)
(* neither.                                                                *)
ResolveMcpPermissions(a, s) ==
    {x \in (services[s].dims \cap dims) \X (Values \cup {All}) :
        \E r \in Roles : /\ <<r, a>> \in roleMembers /\ <<r, x[1]>> \in DOMAIN roleDims
                         /\ roleDims[<<r, x[1]>>] # {All} /\ x[2] \in roleDims[<<r, x[1]>>]}

MayCall(a, s) ==
    /\ s \in ListPoliciesForAgent(a)
    /\ services[s].dims # {} => ResolveMcpPermissions(a, s) # {}

-----------------------------------------------------------------------------
(* The loader.                                                             *)

HandlerFile(s) ==
    IF s \in SystemIds THEN [code |-> Min(Codes), time |-> 0, dims |-> {}]
    ELSE IF s \in DOMAIN services /\ services[s].path # NoPath THEN prod[services[s].path]
    ELSE prod[s]

(* A handler that was loaded is used as long as the file has its time.     *)
GetHandler(s) ==
    LET file == HandlerFile(s)
    IN  IF handlers[s].code # 0 /\ handlers[s].time = file.time THEN handlers[s] ELSE file

Exists(file) == file.code # 0

Runs(s) ==
    /\ services[s].source # "external" /\ Exists(HandlerFile(s))
    /\ handlers' = [handlers EXCEPT ![s] = GetHandler(s)]
    /\ ran' = [code |-> GetHandler(s).code, onDisk |-> HandlerFile(s).code]

CallMcp(a, s) ==
    /\ s # Deployer /\ MayCall(a, s) /\ Runs(s)
    /\ UNCHANGED <<services, reviews, dev, shop, prod, tools, grantVars>>

(* Asking for the tools of an external service keeps the list; after a     *)
(* while it is asked for again.                                            *)
FetchExternalTools(a, s) ==
    /\ s \in ListPoliciesForAgent(a) /\ services[s].source = "external"
    /\ tools' = tools \cup {s}
    /\ UNCHANGED <<services, reviews, dev, shop, prod, handlers, grantVars, ran>>

ToolsExpire(s) ==
    /\ s \in tools
    /\ tools' = tools \ {s}
    /\ UNCHANGED <<services, reviews, dev, shop, prod, handlers, grantVars, ran>>

Nothing == [s \in Ids |-> NoFile]

(* Mutant: only the console's own deployment clears what was loaded.       *)
KeepsLoaded(s) == handlers' = handlers /\ tools' = tools

ClearHandlerCache(s) ==
    /\ handlers' = [handlers EXCEPT ![s] = NoFile]
    /\ tools' = tools \ {s}

ProcessStops == handlers' = Nothing /\ tools' = {}

LoaderRestart ==
    /\ ProcessStops
    /\ UNCHANGED <<services, reviews, dev, shop, prod, grantVars, ran>>

-----------------------------------------------------------------------------
(* Submission and review.                                                  *)

AgentWritesDev(p, c, t, d) ==
    /\ dev' = [dev EXCEPT ![p] = [code |-> c, time |-> t, dims |-> d]]
    /\ UNCHANGED <<services, reviews, shop, prod, handlers, tools, grantVars, ran>>

AgentWritesShop(a, c, d) ==
    /\ shop' = [shop EXCEPT ![a] = [code |-> c, time |-> -c, dims |-> d]]
    /\ UNCHANGED <<services, reviews, dev, prod, handlers, tools, grantVars, ran>>

Pending(s) == {i \in DOMAIN reviews : reviews[i].service = s /\ reviews[i].status = "pending"}

Review(s, d) == [service |-> s, status |-> "pending", dims |-> d]

WithRow(s, row) == [t \in DOMAIN services \cup {s} |-> IF t = s THEN row ELSE services[t]]

PathTaken(p) == \E t \in DOMAIN services : services[t].path = p

(* A first submission registers the service and then the version.          *)
Submit(a, p, whole) ==
    LET s == IdOf[p]
    IN  /\ MayCall(a, Deployer) /\ Exists(dev[p]) /\ Len(reviews) < MaxReviews
        /\ IF s \in DOMAIN services
           THEN /\ whole /\ Pending(s) = {} /\ services[s].source = "internal"
                /\ UNCHANGED services
           ELSE /\ ~PathTaken(p)
                /\ services' = WithRow(s, Row("pending", "internal", p, dev[p].dims))
        /\ IF whole
           THEN /\ reviews' = Append(reviews, Review(s, dev[p].dims))
                /\ handlers' = [handlers EXCEPT ![Deployer] = GetHandler(Deployer)]
                /\ UNCHANGED tools
           ELSE ProcessStops /\ UNCHANGED reviews
        /\ UNCHANGED <<dev, shop, prod, grantVars, ran>>

(* The handler of the registered path is copied as it is now; then the     *)
(* row, then the version, then the cache.                                  *)
Approve(s, steps) ==
    /\ s \in DOMAIN services /\ services[s].path # NoPath /\ Exists(dev[services[s].path])
    /\ prod' = [prod EXCEPT ![services[s].path] = dev[services[s].path]]
    /\ \E v \in IF Pending(s) = {} THEN {0} ELSE Pending(s) :
          /\ services' = IF steps = 1 THEN services
                         ELSE [services EXCEPT ![s].status = "online",
                                               ![s].dims = IF v = 0 THEN @ ELSE reviews[v].dims]
          /\ reviews' = IF steps < 3 \/ v = 0 THEN reviews
                        ELSE [reviews EXCEPT ![v].status = "approved"]
    /\ IF steps = 4 THEN ClearHandlerCache(s) ELSE ProcessStops
    /\ UNCHANGED <<dev, shop, grantVars, ran>>

Reject(s, whole) ==
    /\ s \in DOMAIN services
    /\ \E v \in Pending(s) : reviews' = [reviews EXCEPT ![v].status = "rejected"]
    /\ services' = IF whole /\ services[s].status = "pending"
                   THEN [services EXCEPT ![s].status = "offline"] ELSE services
    /\ IF whole THEN UNCHANGED <<handlers, tools>> ELSE ProcessStops
    /\ UNCHANGED <<dev, shop, prod, grantVars, ran>>

(* The console deploys the handler of a workspace under any id: the files  *)
(* are replaced, then the row, with no path and no dimensions.  A last     *)
(* statement on columns that new databases lack changes nothing here.      *)
DeployMcp(a, s, steps) ==
    /\ Exists(shop[a]) /\ shop[a].dims \subseteq permissionsPy
    /\ prod' = [prod EXCEPT ![s] = IF steps = 1 THEN NoFile ELSE shop[a]]
    /\ services' = IF steps = 3 THEN WithRow(s, Row("online", "internal", NoPath, {})) ELSE services
    /\ IF steps = 3 THEN UNCHANGED <<handlers, tools>> ELSE ProcessStops
    /\ UNCHANGED <<reviews, dev, shop, grantVars, ran>>

-----------------------------------------------------------------------------
(* Services and roles in the console.                                      *)

(* Ids are new.                                                            *)
CreateService(s, source) ==
    /\ s \notin DOMAIN services /\ \A g \in grants \cup roleGrants : g[2] # s
    /\ services' = WithRow(s, Row("online", source, NoPath, {}))
    /\ UNCHANGED <<reviews, dev, shop, prod, handlers, tools, grantVars, ran>>

UpdateService(s, status, source) ==
    /\ s \in DOMAIN services
    /\ services' = [services EXCEPT ![s].status = status,
                                    ![s].source = IF @ = "system" THEN @ ELSE source]
    /\ UNCHANGED <<reviews, dev, shop, prod, handlers, tools, grantVars, ran>>

(* The row, the agents' policies, the roles', the versions, the cache and  *)
(* then the directories.                                                   *)
DeleteService(s, steps) ==
    /\ s \in DOMAIN services /\ services[s].source # "system"
    /\ services' = [t \in DOMAIN services \ {s} |-> services[t]]
    /\ grants' = IF steps > 1 THEN {g \in grants : g[2] # s} ELSE grants
    /\ roleGrants' = IF steps > 2 THEN {g \in roleGrants : g[2] # s} ELSE roleGrants
    /\ reviews' = IF steps > 3 THEN SelectSeq(reviews, LAMBDA v : v.service # s) ELSE reviews
    /\ IF steps = 6 THEN ClearHandlerCache(s) ELSE ProcessStops
    /\ LET path == services[s].path
       IN  /\ dev' = [p \in Paths |-> IF steps > 4 /\ p = path THEN NoFile ELSE dev[p]]
           /\ prod' = [d \in Paths \cup Ids |->
                          IF steps = 6 /\ d \in {path, s} THEN NoFile ELSE prod[d]]
    /\ UNCHANGED <<shop, roles, roleMembers, roleDims, dims, permissionsPy, mcpJson, ran>>

Flip(set, x) == {set \cup {x}, set \ {x}}

SetPolicy(a, s) ==
    /\ grants' \in IF s \in DOMAIN services THEN Flip(grants, <<a, s>>) ELSE {grants \ {<<a, s>>}}
    /\ UNCHANGED <<catalogVars, roles, roleMembers, roleGrants, roleDims, dims, permissionsPy, mcpJson, ran>>

SetRolePolicy(r, s) ==
    /\ roleGrants' \in IF s \in DOMAIN services /\ r \in roles THEN Flip(roleGrants, <<r, s>>)
                       ELSE {roleGrants \ {<<r, s>>}}
    /\ UNCHANGED <<catalogVars, grants, roles, roleMembers, roleDims, dims, permissionsPy, mcpJson, ran>>

CreateRole(r) ==
    /\ r \notin roles /\ \A m \in roleMembers \cup roleGrants \cup DOMAIN roleDims : m[1] # r
    /\ roles' = roles \cup {r}
    /\ UNCHANGED <<catalogVars, grants, roleMembers, roleGrants, roleDims, dims, permissionsPy, mcpJson, ran>>

(* The role's dimensions stay.                                             *)
DeleteRole(r, steps) ==
    /\ r \in roles
    /\ roles' = roles \ {r}
    /\ roleMembers' = IF steps > 1 THEN {m \in roleMembers : m[1] # r} ELSE roleMembers
    /\ roleGrants' = IF steps > 2 THEN {g \in roleGrants : g[1] # r} ELSE roleGrants
    /\ IF steps = 3 THEN UNCHANGED <<handlers, tools>> ELSE ProcessStops
    /\ UNCHANGED <<services, reviews, dev, shop, prod, grants, roleDims, dims, permissionsPy, mcpJson, ran>>

SetRoleMembers(r, A) ==
    /\ r \in roles
    /\ roleMembers' = {m \in roleMembers : m[1] # r} \cup {<<r, a>> : a \in A}
    /\ UNCHANGED <<catalogVars, grants, roles, roleGrants, roleDims, dims, permissionsPy, mcpJson, ran>>

SetRoleDimension(r, d, values) ==
    /\ r \in roles /\ d \in dims
    /\ roleDims' = [x \in DOMAIN roleDims \cup {<<r, d>>} |->
                       IF x = <<r, d>> THEN values ELSE roleDims[x]]
    /\ UNCHANGED <<catalogVars, grants, roles, roleMembers, roleGrants, dims, permissionsPy, mcpJson, ran>>

(* The batch takes dimensions nobody registered.                           *)
SetRoleDimensionsBatch(r, D, values) ==
    /\ r \in roles
    /\ roleDims' = [x \in {y \in DOMAIN roleDims : y[1] # r} \cup ({r} \X D) |->
                       IF x[1] = r THEN values ELSE roleDims[x]]
    /\ UNCHANGED <<catalogVars, grants, roles, roleMembers, roleGrants, dims, permissionsPy, mcpJson, ran>>

(* Writing permissions.py may fail, which is not told.                     *)
ChangeDimensions(d) ==
    /\ dims' \in Flip(dims, d)
    /\ permissionsPy' \in {dims', permissionsPy}
    /\ UNCHANGED <<catalogVars, grants, roles, roleMembers, roleGrants, roleDims, mcpJson, ran>>

(* Before a run: the file stays when the agent has lost its services.      *)
WriteContextFiles(a) ==
    /\ mcpJson' = IF ListPoliciesForAgent(a) # {} THEN mcpJson \cup {a} ELSE mcpJson
    /\ UNCHANGED <<catalogVars, grants, roles, roleMembers, roleGrants, roleDims, dims, permissionsPy, ran>>

-----------------------------------------------------------------------------
Granted == SUBSET (Values \cup {All})

(* What agents develop, in a directory or in a workspace.                  *)
PathNext(p, dimensions) ==
    \/ \E a \in Callers, whole \in BOOLEAN : Submit(a, p, whole)
    \/ \E c \in Codes, t \in Times, d \in SUBSET dimensions : AgentWritesDev(p, c, t, d)

ShopNext(a, dimensions) ==
    \E c \in ShopCodes, d \in SUBSET dimensions : AgentWritesShop(a, c, d)

(* One service; what its row may become by hand is said.                   *)
ServiceNext(s, statuses, sources) ==
    \/ \E a \in Callers : FetchExternalTools(a, s)
    \/ \E a \in Callers, steps \in 1 .. 3 : s \in Deployed /\ DeployMcp(a, s, steps)
    \/ ToolsExpire(s)
    \/ \E steps \in 1 .. 4 : Approve(s, steps)
    \/ \E whole \in BOOLEAN : Reject(s, whole)
    \/ \E status \in statuses, source \in sources : UpdateService(s, status, source)
    \/ \E steps \in 1 .. 6 : DeleteService(s, steps)
    \/ \E source \in sources : s \in ExternalIds /\ CreateService(s, source)

CatalogNext ==
    \/ \E p \in Paths : PathNext(p, Dims)
    \/ \E a \in Callers : ShopNext(a, Dims)
    \/ \E s \in Ids : ServiceNext(s, ServiceStatuses, Sources)
    \/ LoaderRestart

UseNext(a, s) == CallMcp(a, s) \/ SetPolicy(a, s)

CallNext == \E a \in Callers, s \in Ids : UseNext(a, s)

GrantNext ==
    \/ \E r \in Roles :
          \/ CreateRole(r)
          \/ \E s \in Ids : SetRolePolicy(r, s)
          \/ \E steps \in 1 .. 3 : DeleteRole(r, steps)
          \/ \E A \in SUBSET Callers : SetRoleMembers(r, A)
          \/ \E d \in Dims, values \in Granted : SetRoleDimension(r, d, values)
          \/ \E D \in SUBSET Dims, values \in Granted : SetRoleDimensionsBatch(r, D, values)
    \/ \E d \in Dims : ChangeDimensions(d)
    \/ \E a \in Callers : WriteContextFiles(a)

-----------------------------------------------------------------------------
McpTypeOK ==
    /\ DOMAIN services \subseteq Ids
    /\ \A s \in DOMAIN services :
          /\ services[s].status \in ServiceStatuses \cup {"pending", "online", "offline"}
          /\ services[s].source \in Sources \cup {"internal", "system"}
          /\ services[s].path # NoPath => IdOf[services[s].path] = s
          /\ services[s].dims \subseteq Dims
    /\ \A i \in DOMAIN reviews : reviews[i].status \in {"pending", "approved", "rejected"}
    /\ roleMembers \subseteq Roles \X Callers /\ roleGrants \subseteq Roles \X Ids
    /\ DOMAIN roleDims \subseteq Roles \X Dims
    /\ permissionsPy \subseteq Dims

(* A call runs the code that is in production then, whichever of review,   *)
(* deployment, deletion and restart put it there after another was loaded  *)
(* (mcp_loader.py:108-128, mcp_services.py:843-846).                       *)
HandlerIsCurrent == ran.code = ran.onDisk
===============================================================================
