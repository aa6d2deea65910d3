---------------------------- MODULE Deployments ----------------------------
(***************************************************************************)
(* Deploy markers of one project (apps/deployments): a request whose key   *)
(* resolves to the project, or whose user sees it, gets or creates the     *)
(* Release of its version, fills in missing metadata and records the       *)
(* Deployment, statement by statement.  One version is modelled: no        *)
(* statement relates two.  What follows a marker, the verification of      *)
(* incidents, is DeployOp of IncidentWorkflow.                             *)
(***************************************************************************)
EXTENDS ApiKeys

CONSTANTS
    Field,    \* metadata columns of a release (commit_sha, commit_message, ...)
    Blank     \* the empty value of a column

ASSUME DeploymentsAssumption == Field # {} /\ Blank \notin Request

VARIABLES
    release,      \* the Release row of the version
    deployments,  \* requests whose Deployment row is stored
    dep           \* [Request -> locals of record_deployment]

depVars == <<release, deployments, dep>>
allVars == <<keyVars, depVars>>

\* A value is named after the request that supplied it.
Meta == [Field -> Request \cup {Blank}]
NoMeta == [f \in Field |-> Blank]

DeploymentsTypeOK ==
    /\ release \in [stored : BOOLEAN, meta : Meta]
    /\ deployments \subseteq Request
    /\ dep \in [Request -> [at : {"idle", "get", "insert", "fill", "record", "done", "error", "killed"},
                            given : SUBSET Field, copy : Meta]]

Given(r) == [f \in Field |-> IF f \in dep[r].given THEN r ELSE Blank]
Goto(r, at) == dep' = [dep EXCEPT ![r].at = at]
Holding(r, copy) == dep' = [dep EXCEPT ![r].at = "fill", ![r].copy = copy]

\* The project is known from the key, or from the id a signed-in member sends.
StartMarker(r) ==
    /\ dep[r].at = "idle"
    /\ \/ req[r].kind = "deploy" /\ req[r].state = "ok" /\ UNCHANGED req
       \/ /\ "deploy" \in Kinds /\ req[r].state = "idle" /\ ProjectStored
          /\ req' = [req EXCEPT ![r].state = "ok"]
    /\ \E given \in SUBSET Field :
          dep' = [dep EXCEPT ![r].at = "get", ![r].given = given]
    /\ UNCHANGED <<primary, keys, release, deployments>>

\* Release.objects.get_or_create: the lookup.
GetRelease(r) ==
    /\ dep[r].at = "get"
    /\ IF release.stored THEN Holding(r, release.meta) ELSE Goto(r, "insert")
    /\ UNCHANGED <<release, deployments>>

\* Its insert; when another request inserted first, its second lookup.
InsertRelease(r) ==
    /\ dep[r].at = "insert"
    /\ \/ ~ ProjectStored /\ Goto(r, "error") /\ UNCHANGED release
       \/ ProjectStored /\ release.stored /\ Holding(r, release.meta) /\ UNCHANGED release
       \/ /\ ProjectStored /\ ~ release.stored
          /\ release' = [stored |-> TRUE, meta |-> Given(r)]
          /\ Holding(r, Given(r))
    /\ UNCHANGED deployments

\* The given fields the loaded release lacks.
Missing(r) == {f \in dep[r].given : dep[r].copy[f] = Blank}

\* Mutant of FillMissing: the whole row is saved.
FillMissing_WholeRow(r) ==
    /\ dep[r].at = "fill"
    /\ Missing(r) # {} => release.stored
    /\ release' = IF Missing(r) = {} THEN release ELSE
          [release EXCEPT !.meta =
              [f \in Field |-> IF f \in Missing(r) THEN r ELSE dep[r].copy[f]]]
    /\ Goto(r, "record")
    /\ UNCHANGED deployments

\* release.save(update_fields=...): raises when the row was deleted.
FillMissing(r) ==
    /\ dep[r].at = "fill"
    /\ IF Missing(r) # {} /\ ~ release.stored
       THEN Goto(r, "error") /\ UNCHANGED release
       ELSE /\ release' = [release EXCEPT !.meta =
                  [f \in Field |-> IF f \in Missing(r) THEN r ELSE @[f]]]
            /\ Goto(r, "record")
    /\ UNCHANGED deployments

RecordDeployment(r) ==
    /\ dep[r].at = "record"
    /\ \/ ~ release.stored /\ Goto(r, "error") /\ UNCHANGED deployments
       \/ release.stored /\ Goto(r, "done") /\ deployments' = deployments \cup {r}
    /\ UNCHANGED release

KillMarker(r) ==
    /\ dep[r].at \in {"insert", "fill", "record"}
    /\ Goto(r, "killed")
    /\ UNCHANGED <<release, deployments>>

MarkerStep(r) ==
    GetRelease(r) \/ InsertRelease(r) \/ FillMissing(r) \/ RecordDeployment(r) \/ KillMarker(r)

\* Deleting the project cascades to its releases and their deployments.
Cascade ==
    IF primary' = Deleted
    THEN release' = [stored |-> FALSE, meta |-> NoMeta] /\ deployments' = {} /\ UNCHANGED dep
    ELSE UNCHANGED depVars

DeploymentsInit ==
    /\ KeysInit
    /\ release = [stored |-> FALSE, meta |-> NoMeta]
    /\ deployments = {}
    /\ dep = [r \in Request |-> [at |-> "idle", given |-> {}, copy |-> NoMeta]]

DeploymentsNext ==
    \/ KeysNext /\ Cascade
    \/ \E r \in Request : StartMarker(r)
    \/ \E r \in Request : MarkerStep(r) /\ UNCHANGED keyVars

DeploymentsSpec == DeploymentsInit /\ [][DeploymentsNext]_allVars

-----------------------------------------------------------------------------
(* Properties *)

\* A recorded marker's metadata is on its release, its own or that of another
\* marker of the version that came before or meanwhile, and stays there
\* ("populate any missing git metadata provided by this deploy",
\* deployments/services.py:64).
SuppliedMetadataKept ==
    \A r \in deployments : \A f \in dep[r].given : release.meta[f] # Blank
=============================================================================
