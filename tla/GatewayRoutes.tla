----------------------------- MODULE GatewayRoutes -----------------------------
(***************************************************************************)
(* How the model gateway turns the model a client names into a chain of    *)
(* upstream models (infra/gateway_routes.py, infra/gateway_auto.py,        *)
(* infra/gateway_models.py, infra/gateway_upstream.py and the routers of   *)
(* routes and models).                                                     *)
(*                                                                         *)
(* A route is a record [alias, target, team, account, priority, on, auto,  *)
(* tiers, order, fallbacks]: fallbacks is <<>> too when enable_fallback is *)
(* off, tiers maps each tier to its enabled models, best score first, and  *)
(* order is tier_fallback_order or <<>>.  A prompt is [size, tools], its   *)
(* size relative to the two thresholds.                                    *)
(***************************************************************************)
EXTENDS Integers, Sequences, FiniteSets, SequencesExt

CONSTANTS RouteIds,
          RouteRows,     \* the routes an administrator may write
          Models,
          ModelRows,     \* the rows of upstream models: [on, openai, anthropic, vision, default]
          LiteLLM,       \* LITELLM_BASE_URL is set: models without a row are callable
          MaxHops,       \* max_fallback_hops
          Unset          \* no team, no account

VARIABLES
    routes,    \* gateway_model_routes: a function on the ids that have a row
    upstream   \* gateway_upstream_models: a function on the models that have a row

routeVars == <<routes, upstream>>

RoutesInit ==
    /\ routes \in UNION {[ids -> RouteRows] : ids \in SUBSET RouteIds}
    /\ upstream = [m \in {} |-> {}]

-----------------------------------------------------------------------------
(* Matching: an account's own route, else its team's, else a global one;   *)
(* of several the one with the least priority number.                      *)

InScope(row, scope, account, team) ==
    CASE scope = "account" -> account # Unset /\ row.account = account
      [] scope = "team" -> team # Unset /\ row.account = Unset /\ row.team = team
      [] scope = "global" -> row.account = Unset /\ row.team = Unset

Candidates(alias, scope, account, team) ==
    {row \in {routes[i] : i \in DOMAIN routes} :
        row.on /\ row.alias = alias /\ InScope(row, scope, account, team)}

Scopes == <<"account", "team", "global">>

(* The routes that may answer: more than one only if the time of their     *)
(* last update decides.                                                    *)
MatchRoute(alias, account, team) ==
    LET found == SelectSeq(Scopes, LAMBDA s : Candidates(alias, s, account, team) # {})
        rows == Candidates(alias, Head(found), account, team)
    IN  IF found = <<>> THEN {}
        ELSE {r \in rows : \A q \in rows : r.priority <= q.priority}

-----------------------------------------------------------------------------
(* Automatic routes.                                                       *)

Tiers == <<"fast", "balanced", "strong">>

Tier(prompt) ==
    IF prompt.tools \/ prompt.size = "large" THEN "strong"
    ELSE IF prompt.size = "small" THEN "fast" ELSE "balanced"

(* The first occurrence of each.                                           *)
Distinct(seq) ==
    FoldLeft(LAMBDA acc, x : IF Contains(acc, x) THEN acc ELSE Append(acc, x), <<>>, seq)

(* A tier and the stronger ones after it, unless the route has an order.   *)
TierOrder(tier, order) ==
    IF order = <<>> THEN SubSeq(Tiers, CHOOSE i \in 1 .. 3 : Tiers[i] = tier, 3)
    ELSE Distinct(<<tier>> \o order)

AutoChain(row, prompt) ==
    LET order == TierOrder(Tier(prompt), row.order)
    IN  Distinct(FlattenSeq([i \in DOMAIN order |-> row.tiers[order[i]]]))

(* A named model and its fallbacks, cut to the hops that are allowed.      *)
BuildChain(primary, fallbacks) ==
    LET chain == Distinct(<<primary>> \o fallbacks)
    IN  SubSeq(chain, 1, IF Len(chain) <= MaxHops + 1 THEN Len(chain) ELSE MaxHops + 1)

(* The chain of a route: an automatic one is not cut.                      *)
ChainOf(row, prompt) ==
    IF (row.auto \/ row.alias = "auto") /\ AutoChain(row, prompt) # <<>>
    THEN Distinct(AutoChain(row, prompt) \o row.fallbacks)
    ELSE BuildChain(row.target, row.fallbacks)

(* resolve_model_chain; a name without a route stands for itself.          *)
Chains(name, account, team, prompt) ==
    LET matched == MatchRoute(name, account, team)
    IN  IF matched = {} THEN {<<name>>} ELSE {ChainOf(row, prompt) : row \in matched}

-----------------------------------------------------------------------------
(* The call of one model: its row's endpoint, or LiteLLM if it has none.   *)
(* A disabled row counts as none.                                          *)
Callable(m, protocol) ==
    IF m \in DOMAIN upstream /\ upstream[m].on
    THEN IF protocol = "anthropic" THEN upstream[m].anthropic ELSE upstream[m].openai
    ELSE LiteLLM

-----------------------------------------------------------------------------
(* Administration.                                                         *)

WriteRoute(i, row) ==
    /\ routes' = [j \in DOMAIN routes \cup {i} |-> IF j = i THEN row ELSE routes[j]]
    /\ UNCHANGED upstream

DeleteRoute(i) ==
    /\ i \in DOMAIN routes
    /\ routes' = [j \in DOMAIN routes \ {i} |-> routes[j]]
    /\ UNCHANGED upstream

(* A name that is taken is refused, also when its row is disabled.         *)
CreateModel(m, row) ==
    /\ m \notin DOMAIN upstream
    /\ upstream' = [n \in DOMAIN upstream \cup {m} |-> IF n = m THEN row ELSE upstream[n]]
    /\ UNCHANGED routes

(* A model that is no vision model any more is not the default one.        *)
UpdateModel(m, row) ==
    /\ m \in DOMAIN upstream
    /\ upstream' = [upstream EXCEPT ![m] =
            [row EXCEPT !.default = row.vision /\ upstream[m].default]]
    /\ UNCHANGED routes

DeleteModel(m) ==
    /\ m \in DOMAIN upstream
    /\ upstream' = [n \in DOMAIN upstream \ {m} |-> upstream[n]]
    /\ UNCHANGED routes

SetVisionDefault(m) ==
    /\ m \in DOMAIN upstream /\ upstream[m].vision /\ upstream[m].on
    /\ upstream' = [n \in DOMAIN upstream |-> [upstream[n] EXCEPT !.default = n = m]]
    /\ UNCHANGED routes

AdministerRoutes ==
    \/ \E i \in RouteIds : (\E row \in RouteRows : WriteRoute(i, row)) \/ DeleteRoute(i)
    \/ \E m \in Models :
        \/ \E row \in ModelRows : CreateModel(m, row) \/ UpdateModel(m, row)
        \/ DeleteModel(m) \/ SetVisionDefault(m)

RoutesTypeOK ==
    /\ DOMAIN routes \subseteq RouteIds
    /\ \A i \in DOMAIN routes : routes[i] \in RouteRows
    /\ DOMAIN upstream \subseteq Models
    /\ \A m \in DOMAIN upstream : [upstream[m] EXCEPT !.default = FALSE] \in ModelRows
    /\ Cardinality({m \in DOMAIN upstream : upstream[m].default}) <= 1
===============================================================================
