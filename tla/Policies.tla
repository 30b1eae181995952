------------------------------ MODULE Policies ------------------------------
(***************************************************************************)
(* The enterprise policies (infra/policies.py, routers/policies.py) and    *)
(* their evaluation (domain/policy/evaluator.py, infra/policy_engine.py).  *)
(*                                                                         *)
(* A policy is a record of its category, whether it is enabled, and its    *)
(* rules: deny, allow and ask (deny_*, allow_*, require_approval_* or the  *)
(* corresponding lists of the category), roots, max (bytes, 0 for no       *)
(* limit) and block (block_secret_in_artifacts).  Tools, hosts and paths   *)
(* are sequences of their segments; a text is the sequence of the secret   *)
(* patterns it contains; an artifact is <<extension>> and its size.        *)
(***************************************************************************)
EXTENDS Integers, Sequences, FiniteSets, SequencesExt

CONSTANTS PolicyIds,
          PolicyRows,       \* the policies an administrator may write
          DefaultPolicies   \* _DEFAULT_POLICIES: a function on some of PolicyIds

VARIABLE policies           \* the table: a function on the ids that have a row

PolicyInit == policies = DefaultPolicies

Enabled == {policies[p] : p \in {q \in DOMAIN policies : policies[q].on}}

-----------------------------------------------------------------------------
(* Matching.                                                               *)

(* A tool is listed under its name, with or without its server's prefix.   *)
ToolListed(tool, list) == \E t \in list : IsSuffix(t, tool)

(* "*.x" is x and everything below it.                                     *)
HostMatches(host, pattern) ==
    IF Head(pattern) = "*" THEN IsSuffix(Tail(pattern), host) ELSE host = pattern

HostListed(host, list) == \E p \in list : HostMatches(host, p)

(* A glob whose "**" stand at its ends only, as those of the defaults do.  *)
PathMatches(path, glob) ==
    LET open == Head(glob) = "**"
        core == SelectSeq(glob, LAMBDA s : s # "**")
        loose == Last(glob) = "**"
    IN  \E i \in 0 .. Len(path) - Len(core) :
            /\ SubSeq(path, i + 1, i + Len(core)) = core
            /\ open \/ i = 0
            /\ IF loose THEN i + Len(core) < Len(path) ELSE i + Len(core) = Len(path)

PathListed(path, list) == \E g \in list : PathMatches(path, g)

-----------------------------------------------------------------------------
(* The verdict of one policy: "none" when it has no hit.                   *)

EvalTool(p, ctx) ==
    IF ctx.what = <<>> THEN "none"
    ELSE IF ToolListed(ctx.what, p.deny) THEN "blocked"
    ELSE IF p.allow # {} /\ ~ToolListed(ctx.what, p.allow) THEN "blocked"
    ELSE IF ToolListed(ctx.what, p.ask) THEN "warned" ELSE "none"

DefaultRoots == {<<"~", ".evotown", "workspace">>, <<"~", ".openclaw", "workspace">>}

EvalWorkspace(p, ctx) ==
    LET given == p.roots \cup ctx.roots
        roots == IF given = {} THEN DefaultRoots ELSE given
    IN  IF ctx.what = <<>> THEN "none"
        ELSE IF PathListed(ctx.what, p.deny) THEN "blocked"
        ELSE IF \A r \in roots : ~IsPrefix(r, ctx.what) THEN "blocked"
        ELSE IF ctx.kind = "file_write" /\ PathListed(ctx.what, p.ask)
        THEN "warned" ELSE "none"

EvalNetwork(p, ctx) ==
    IF ctx.what = <<>> THEN "none"
    ELSE IF HostListed(ctx.what, p.deny) THEN "blocked"
    ELSE IF p.allow # {} /\ ~HostListed(ctx.what, p.allow) THEN "blocked"
    ELSE IF HostListed(ctx.what, p.ask) THEN "warned" ELSE "none"

EvalArtifact(p, ctx) ==
    IF p.max > 0 /\ ctx.size > p.max THEN "blocked"
    ELSE IF ctx.what # <<>> /\ ctx.what \in p.deny THEN "blocked"
    ELSE IF p.allow # {} /\ ctx.what # <<>> /\ ctx.what \notin p.allow
    THEN "blocked" ELSE "none"

EvalText(p, ctx) ==
    IF \A i \in DOMAIN ctx.what : <<ctx.what[i]>> \notin p.deny THEN "none"
    ELSE IF p.block THEN "blocked" ELSE "warned"

(* A policy has a say in the kinds of action of its category only.         *)
Verdict(p, ctx) ==
    CASE ctx.kind = "tool" /\ p.category = "tool" -> EvalTool(p, ctx)
      [] ctx.kind \in {"file_read", "file_write"} /\ p.category = "workspace" ->
            EvalWorkspace(p, ctx)
      [] ctx.kind = "network" /\ p.category = "network" -> EvalNetwork(p, ctx)
      [] ctx.kind = "artifact" /\ p.category = "artifact" -> EvalArtifact(p, ctx)
      [] ctx.kind = "text" /\ p.category \in {"security", "artifact"} -> EvalText(p, ctx)
      [] OTHER -> "none"

-----------------------------------------------------------------------------
(* The evaluation: every enabled policy, the severest hit wins.            *)

Rank == [none |-> -1, allowed |-> 0, warned |-> 1, needs_review |-> 2, blocked |-> 3]

(* Mutant: the last hit wins, as without the comparison of ranks.          *)
LastAction(current, new) == new

MergeAction(current, new) == IF Rank[new] > Rank[current] THEN new ELSE current

Hits(ctx) == {Verdict(p, ctx) : p \in Enabled} \ {"none"}

Action(ctx) ==
    FoldSet(LAMBDA p, current : IF Verdict(p, ctx) = "none" THEN current
                                ELSE MergeAction(current, Verdict(p, ctx)),
            "allowed", Enabled)

Allowed(ctx) == Action(ctx) \in {"allowed", "warned"}

(* What the policies say when each is read for itself: something is        *)
(* forbidden if one of them forbids it.                                    *)
Forbidden(ctx) == \E p \in Enabled : Verdict(p, ctx) = "blocked"

-----------------------------------------------------------------------------
(* The table.                                                              *)

(* PUT /policies/{id}.                                                     *)
UpsertPolicy(p, row) ==
    policies' = [q \in DOMAIN policies \cup {p} |-> IF q = p THEN row ELSE policies[q]]

(* PUT /policies deletes every row and writes the new ones one by one; an  *)
(* entry with a blank id ends it with the rows before that entry written.  *)
ReplacePolicies(new) == policies' = new

(* A restart writes the defaults that have no row (INSERT OR IGNORE).      *)
SeedDefaults ==
    policies' = [q \in DOMAIN policies \cup DOMAIN DefaultPolicies |->
                    IF q \in DOMAIN policies THEN policies[q] ELSE DefaultPolicies[q]]

ChangePolicies ==
    \/ \E p \in PolicyIds, row \in PolicyRows : UpsertPolicy(p, row)
    \/ \E ids \in SUBSET PolicyIds : \E new \in [ids -> PolicyRows] : ReplacePolicies(new)
    \/ SeedDefaults
=============================================================================
