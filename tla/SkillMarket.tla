----------------------------- MODULE SkillMarket -----------------------------
(***************************************************************************)
(* The private skills market (infra/skill_market.py, infra/skill_catalog.py*)
(* and their routers, services/mcp_system/skill_creator and                *)
(* internal_skill_deploy): skills are drafted and edited in an agent's     *)
(* workspace, submitted, reviewed and published; packages are uploaded,    *)
(* candidates of connectors and of the ecosystem catalog promoted, and     *)
(* bundles of approved skills published.                                   *)
(*                                                                         *)
(* A version is its number; Default is what the column current_version     *)
(* holds before any approval ('1.0.0').  The content of a directory is the *)
(* number of edits it has seen, or "package", "remote", "starter".         *)
(***************************************************************************)
EXTENDS Naturals, FiniteSets

CONSTANTS Skills,
          Authored,    \* skills some agent develops in its workspace
          Starters,    \* builtin skills of the starter catalog
          External,    \* skills a connector or the ecosystem proposes, or an upload brings
          Reviewed,    \* skills submitted to the review of candidates
          Bundles,     \* the sets an administrator may publish as the bundle
          MaxVersion, MaxEdits,
          None

VARIABLES
    skill,     \* skills: a function on the skills that have a row
    versions,  \* skill_versions: a function on pairs <<skill, version>>
    latest,    \* latest[s]: the version of s whose row was written last
    workspace, \* workspace[s]: the content of skills/{name} of its author
    snapshot,  \* skill-snapshots: a function on pairs <<skill, version>>
    published, \* custom-skills: the content and version of s, or None
    package,   \* skill_package_files: the version uploaded for s, or None
    candidate, \* skill_candidates: a function on candidate ids
    bundle,    \* skills of the default bundle
    submitted, \* history: the content a version was submitted with
    again      \* history: versions reviewed twice, or recorded by an upload

marketVars == <<skill, versions, latest, workspace, snapshot, published, package,
                candidate, bundle, submitted, again>>

Default == 1

SkillStatuses == {"draft", "pending", "approved", "rejected", "deprecated"}

StarterRow == [status |-> "approved", current |-> Default, url |-> "builtin", custom |-> FALSE]

(* f with x mapped to y, whether or not it was in the domain.              *)
With(f, x, y) == [z \in DOMAIN f \cup {x} |-> IF z = x THEN y ELSE f[z]]

Removed(f, x) == [z \in DOMAIN f \ {x} |-> f[z]]

(* The first start: the starters are approved and in the default bundle.   *)
MarketInit ==
    /\ skill = [s \in Starters |-> StarterRow]
    /\ versions = [p \in {} |-> None]
    /\ latest = [s \in {} |-> None]
    /\ workspace = [s \in Authored |-> None]
    /\ snapshot = [p \in {} |-> None]
    /\ published = [s \in Skills |-> None]
    /\ package = [s \in Skills |-> None]
    /\ candidate = [c \in {} |-> None]
    /\ bundle = Starters
    /\ submitted = [p \in {} |-> None]
    /\ again = {}

Known(s) == s \in DOMAIN skill

Status(s, status) == [skill EXCEPT ![s].status = status]

files == <<workspace, snapshot, published, package>>

history == <<submitted, again>>

-----------------------------------------------------------------------------
(* Drafts and their development.                                           *)

(* create_draft_skill: a row that exists becomes a draft again, under the  *)
(* author that is given; the administrators' endpoint gives none.          *)
CreateDraft(s, author) ==
    /\ skill' = With(skill, s,
            IF Known(s) THEN [skill[s] EXCEPT !.status = "draft", !.custom = author]
            ELSE [status |-> "draft", current |-> Default, url |-> "builtin",
                  custom |-> author])
    /\ UNCHANGED <<versions, latest, files, candidate, bundle, history>>

(* The skill_creator tool: a new id, and a skeleton in the workspace.      *)
CreateSkill(s) ==
    /\ s \in Authored /\ ~Known(s)
    /\ skill' = With(skill, s, [status |-> "draft", current |-> Default,
                                url |-> "builtin", custom |-> TRUE])
    /\ workspace' = [workspace EXCEPT ![s] = 0]
    /\ UNCHANGED <<versions, latest, snapshot, published, package, candidate, bundle, history>>

EditWorkspace(s) ==
    /\ s \in Authored /\ workspace[s] # None /\ workspace[s] < MaxEdits
    /\ workspace' = [workspace EXCEPT ![s] = @ + 1]
    /\ UNCHANGED <<skill, versions, latest, snapshot, published, package, candidate,
                   bundle, history>>

-----------------------------------------------------------------------------
(* Submission of a version by its author's agent.                          *)

Requires(s) == IF s \in DOMAIN latest THEN versions[<<s, latest[s]>>].requires ELSE {}

WithRequired(set) == set \cup UNION {Requires(s) : s \in set}

(* Everything a set of skills requires, by the latest version of each.     *)
Closure(set) ==
    LET upTo[n \in 0 .. Cardinality(Skills)] ==
            IF n = 0 THEN set ELSE WithRequired(upTo[n - 1])
    IN  upTo[Cardinality(Skills)]

(* Mutant: only a skill that requires itself is refused.                   *)
SelfRequired(s, requires) == s \in requires

(* _check_circular_deps, whose limit of ten levels is not reached here.    *)
Circular(s, requires) ==
    \E t \in Closure(requires) : t = s \/ t \in Closure(Requires(t))

(* Mutant: nothing is copied when a version is submitted.                  *)
NoSnapshot(s, v) == UNCHANGED snapshot

(* _snapshot_skill_files.                                                  *)
TakeSnapshot(s, v) == snapshot' = With(snapshot, <<s, v>>, workspace[s])

(* submit: one version at a time is in review, its number is higher than   *)
(* the approved one and was never used, and nothing it requires needs it.  *)
SubmitVersion(s, v, requires) ==
    /\ s \in Authored /\ Known(s) /\ workspace[s] # None
    /\ s \in DOMAIN latest => versions[<<s, latest[s]>>].status # "pending"
    /\ ~Circular(s, requires)
    /\ v > skill[s].current
    /\ <<s, v>> \notin DOMAIN versions
    /\ versions' = With(versions, <<s, v>>, [status |-> "pending", requires |-> requires])
    /\ latest' = With(latest, s, v)
    /\ skill' = IF skill[s].status \in {"draft", "rejected", "approved"}
                THEN Status(s, "pending") ELSE skill
    /\ TakeSnapshot(s, v)
    /\ submitted' = With(submitted, <<s, v>>, workspace[s])
    /\ UNCHANGED <<workspace, published, package, candidate, bundle, again>>

-----------------------------------------------------------------------------
(* Review of a version.                                                    *)

(* _publish_skill_to_custom_skills: the snapshot of the version, else the  *)
(* author's workspace as it is now, else what is there already.  A         *)
(* snapshot that was published is gone.                                    *)
Publish(s, v) ==
    IF <<s, v>> \in DOMAIN snapshot
    THEN /\ published' = [published EXCEPT ![s] = [content |-> snapshot[<<s, v>>], version |-> v]]
         /\ snapshot' = Removed(snapshot, <<s, v>>)
    ELSE /\ published' = IF skill[s].custom /\ s \in Authored /\ workspace[s] # None
                         THEN [published EXCEPT ![s] = [content |-> workspace[s], version |-> v]]
                         ELSE published
         /\ UNCHANGED snapshot

(* review_skill_version asks neither whether the version is pending nor    *)
(* whether a higher one has been approved since.                           *)
ApproveVersion(s, v) ==
    /\ <<s, v>> \in DOMAIN versions /\ Known(s)
    /\ versions' = [versions EXCEPT ![<<s, v>>].status = "approved"]
    /\ skill' = [skill EXCEPT ![s].status = "approved", ![s].current = v]
    /\ Publish(s, v)
    /\ again' = IF versions[<<s, v>>].status = "pending" THEN again ELSE again \cup {<<s, v>>}
    /\ UNCHANGED <<latest, workspace, package, candidate, bundle, submitted>>

(* A rejection makes a draft of a skill that was approved before.          *)
RejectVersion(s, v) ==
    /\ <<s, v>> \in DOMAIN versions /\ Known(s)
    /\ versions' = [versions EXCEPT ![<<s, v>>].status = "rejected"]
    /\ skill' = IF skill[s].status = "pending" THEN Status(s, "draft") ELSE skill
    /\ UNCHANGED <<latest, files, candidate, bundle, history>>

-----------------------------------------------------------------------------
(* Candidates.                                                             *)

ReviewId(s) == <<"review", s>>

OutsideId(s) == <<"outside", s>>

(* create_candidate: an id that exists is returned as it is.               *)
CreateCandidate(c) ==
    candidate' = IF c \in DOMAIN candidate THEN candidate ELSE With(candidate, c, "pending")

(* submit_skill_to_review: the skill is pending even if its candidate was  *)
(* reviewed long ago.                                                      *)
SubmitToReview(s) ==
    /\ s \in Reviewed /\ Known(s) /\ skill[s].status \in {"draft", "rejected"}
    /\ skill' = Status(s, "pending")
    /\ CreateCandidate(ReviewId(s))
    /\ UNCHANGED <<versions, latest, files, bundle, history>>

(* POST /skill-candidates by a connector, or an import from the ecosystem. *)
ProposeSkill(s) ==
    /\ s \in External
    /\ OutsideId(s) \notin DOMAIN candidate
    /\ CreateCandidate(OutsideId(s))
    /\ UNCHANGED <<skill, versions, latest, files, bundle, history>>

(* _promote_candidate: a new skill is approved; of one that exists the     *)
(* package's address changes, the status does not.                         *)
Promote(c) ==
    LET s == c[2]
        url == IF c[1] = "review" THEN "builtin" ELSE "remote"
    IN  skill' = With(skill, s,
            IF Known(s) THEN [skill[s] EXCEPT !.url = url, !.custom = FALSE]
            ELSE [status |-> "approved", current |-> Default, url |-> url, custom |-> FALSE])

ReviewCandidate(c, decision) ==
    /\ c \in DOMAIN candidate
    /\ candidate' = [candidate EXCEPT ![c] = decision]
    /\ IF decision = "approved" THEN Promote(c) ELSE UNCHANGED skill
    /\ UNCHANGED <<versions, latest, files, bundle, history>>

-----------------------------------------------------------------------------
(* Packages, the catalog, bundles.                                         *)

(* upload_skill_package: approved at once, current_version unchanged; the  *)
(* version's row is new and pending, or an old row that is now the latest. *)
UploadPackage(s, v) ==
    LET row == <<s, v>>
    IN  /\ package' = [package EXCEPT ![s] = v]
        /\ skill' = With(skill, s,
                [status |-> "approved", url |-> "upload", custom |-> FALSE,
                 current |-> IF Known(s) THEN skill[s].current ELSE Default])
        /\ versions' = IF row \in DOMAIN versions THEN versions
                       ELSE With(versions, row, [status |-> "pending", requires |-> {}])
        /\ latest' = With(latest, s, v)
        /\ again' = again \cup {row}
        /\ UNCHANGED <<workspace, snapshot, published, candidate, bundle, submitted>>

Deprecate(s) ==
    /\ Known(s)
    /\ skill' = Status(s, "deprecated")
    /\ UNCHANGED <<versions, latest, files, candidate, bundle, history>>

(* import_starter_skill.                                                   *)
ImportStarter(s, status) ==
    /\ s \in Starters
    /\ skill' = With(skill, s, [status |-> status, url |-> "builtin", custom |-> FALSE,
                                current |-> IF Known(s) THEN skill[s].current ELSE Default])
    /\ UNCHANGED <<versions, latest, files, candidate, bundle, history>>

(* publish_bundle: the named skills, or all, and every one approved.       *)
PublishBundle(chosen) ==
    /\ chosen # {}
    /\ \A s \in chosen : Known(s) /\ skill[s].status = "approved"
    /\ bundle' = chosen
    /\ UNCHANGED <<skill, versions, latest, files, candidate, history>>

(* A start writes the starters that have no row, and puts every starter    *)
(* into the default bundle again.                                          *)
Start ==
    /\ skill' = [s \in DOMAIN skill \cup Starters |->
                    IF Known(s) THEN skill[s] ELSE StarterRow]
    /\ bundle' = bundle \cup Starters
    /\ UNCHANGED <<versions, latest, files, candidate, history>>

(* get_bundle_manifest: entries of skills that are not approved are left   *)
(* out, those of skills without a row are served.                          *)
Manifest == {s \in bundle : Known(s) => skill[s].status = "approved"}

(* One skill, whose versions may require some others.                      *)
SkillNext(s, required) ==
    \/ CreateSkill(s) \/ EditWorkspace(s) \/ CreateDraft(s, FALSE)
    \/ SubmitToReview(s) \/ ProposeSkill(s) \/ Deprecate(s)
    \/ \E v \in Default .. MaxVersion :
        \/ \E requires \in SUBSET required : SubmitVersion(s, v, requires)
        \/ ApproveVersion(s, v)
        \/ RejectVersion(s, v)
        \/ s \in External /\ UploadPackage(s, v)
    \/ \E status \in {"approved", "pending"} : ImportStarter(s, status)

ShelvesNext ==
    \/ \E c \in DOMAIN candidate, decision \in {"approved", "rejected"} :
        ReviewCandidate(c, decision)
    \/ \E chosen \in Bundles : PublishBundle(chosen)
    \/ Start

MarketNext == ShelvesNext \/ \E s \in Skills : SkillNext(s, Skills)

-----------------------------------------------------------------------------
MarketTypeOK ==
    /\ DOMAIN skill \subseteq Skills
    /\ \A s \in DOMAIN skill :
          skill[s] \in [status : SkillStatuses, current : Default .. MaxVersion,
                        url : {"builtin", "upload", "remote"}, custom : BOOLEAN]
    /\ DOMAIN versions \subseteq Skills \X (Default .. MaxVersion)
    /\ \A s \in DOMAIN latest : <<s, latest[s]>> \in DOMAIN versions
    /\ DOMAIN snapshot \subseteq DOMAIN versions
    /\ bundle \subseteq Skills

(* What is published under a version is what was submitted as that         *)
(* version, whatever the author has edited since, as long as the version   *)
(* was reviewed once (skill_market.py:1221-1345).                          *)
PublishedAsSubmitted ==
    \A s \in Authored :
        LET p == published[s]
        IN  (p # None /\ <<s, p.version>> \notin again) => p.content = submitted[<<s, p.version>>]

(* No skill requires itself through others, by the latest version of each, *)
(* as long as no upload makes an older version the latest again: the       *)
(* closure that a deployment computes is a hierarchy                       *)
(* (internal_skill_deploy/handler.py:66-104).                              *)
DepsAcyclic ==
    again \cap DOMAIN submitted = {} => \A s \in Skills : s \notin Closure(Requires(s))
==============================================================================
