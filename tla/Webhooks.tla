------------------------------- MODULE Webhooks -------------------------------
(***************************************************************************)
(* The deploy marker a repository host's webhook stands for                *)
(* (apps/deployments/services.py): none, or one dated at its arrival.  A   *)
(* text that may be empty is a set of at most one; a ref is [kind, whole,  *)
(* bare]: as sent, and without its refs/heads or refs/tags prefix.         *)
(***************************************************************************)
EXTENDS Fingerprint

\* The first text given, or "latest".
FirstGiven(texts) ==
    IF \E i \in DOMAIN texts : texts[i] # {} THEN texts[SelectInSeq(texts, LAMBDA t : t # {})]
    ELSE {"latest"}

MarkerFor(project, version, status, fixes) ==
    {[project |-> project, version |-> version, status |-> status, ago |-> 0,
      fixes |-> fixes, auto_resolve |-> FALSE]}

\* A state the map does not name is a completed deployment.
StatusFrom(map, state) == IF state \in DOMAIN map THEN map[state] ELSE "completed"

GitHubStates ==
    [success |-> "completed", failure |-> "failed", error |-> "failed", in_progress |-> "started"]
GitLabStates == [success |-> "completed", failed |-> "failed", running |-> "started"]

WholeRef(ref) == {r.whole : r \in ref}
BareRef(ref, kinds) == {IF r.kind \in kinds THEN r.bare ELSE r.whole : r \in ref}

\* The message of a deployment_status is left out, so it verifies nothing.
process_github_webhook(project, p) ==
    CASE p.kind = "deployment_status" ->
           MarkerFor(project, FirstGiven(<<WholeRef(p.ref), p.sha>>),
                     StatusFrom(GitHubStates, p.state), {})
      [] p.kind = "release" /\ p.state \in {"published", "released", "created"} ->
           MarkerFor(project, FirstGiven(<<p.tag, p.name>>), "completed", p.fixes)
      [] p.kind = "push" ->
           MarkerFor(project, FirstGiven(<<BareRef(p.ref, {"tag", "branch"}), p.sha>>),
                     "completed", p.fixes)
      [] OTHER -> {}

process_gitlab_webhook(project, p) ==
    CASE p.kind = "deployment" ->
           MarkerFor(project, FirstGiven(<<WholeRef(p.ref), p.sha>>),
                     StatusFrom(GitLabStates, p.state), p.fixes)
      [] p.kind \in {"release", "tag_push", "push"} ->
           MarkerFor(project, FirstGiven(<<p.tag, p.name, BareRef(p.ref, {"tag"})>>), "completed", p.fixes)
      [] OTHER -> {}
=============================================================================
