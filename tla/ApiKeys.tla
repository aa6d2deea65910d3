------------------------------ MODULE ApiKeys ------------------------------
(***************************************************************************)
(* The API keys of one project (apps/projects) and the two ways a key is   *)
(* checked: ingestion (events/authentication.py) and deploy markers        *)
(* (deployments/views.py).  A request is a list of statements, executed    *)
(* one at a time between those of other requests; it was allowed by its    *)
(* permission class.  The key a request generates is named after it.       *)
(***************************************************************************)
EXTENDS RequestSteps, FiniteSets

CONSTANTS
    Request,
    FirstKey,        \* the key the project was created with
    Kinds,           \* kinds of request that arrive
    Scope,           \* ApiKeyScope
    Ingest, Full,    \* ingest_only and full_access
    NotCreated,      \* the project does not exist yet
    Deleted          \* the project was deleted

Key == Request \cup {FirstKey}

\* Mutant of RotatePrimary: the new key gets no row of its own.
RotatePrimary_NoRow == <<"find", "retire", "promote", "audit">>

(* The endpoints, as the statements each executes. *)

RotatePrimary == <<"find", "retire", "promote", "insert", "audit">>
RotateKey == <<"retire", "insert", "sync", "audit">>
RevokeKey == <<"retire", "audit">>
CreateKey == <<"insert", "audit">>
NewProject == <<"promote", "insert">>
RemoveProject == <<"delete">>
IngestEvent == <<"check", "count">>
MarkDeploy == <<"resolve">>

Plan == [create |-> CreateKey, revoke |-> RevokeKey, rotate |-> RotateKey,
         rotate_primary |-> RotatePrimary, new_project |-> NewProject,
         delete |-> RemoveProject, ingest |-> IngestEvent, deploy |-> MarkDeploy]

Kind == DOMAIN Plan
Issuing == {"create", "rotate", "rotate_primary", "new_project"}
Naming == {"revoke", "rotate"}          \* of a key, by its id
Presenting == {"ingest", "deploy"}      \* a raw key
Statement == UNION {{Plan[kind][i] : i \in DOMAIN Plan[kind]} : kind \in Kind}

ASSUME KeysAssumption ==
    /\ FirstKey \notin Request
    /\ NotCreated \notin Key /\ Deleted \notin Key /\ NotCreated # Deleted
    /\ Kinds \subseteq Kind
    /\ Ingest \in Scope /\ Full \in Scope
    /\ IsFiniteSet(Request)

VARIABLES
    primary,   \* Project.api_key_hash
    keys       \* [Key -> ProjectApiKey row]

keyVars == <<primary, keys, req>>

\* expired: expires_at has passed.
KeyRow == [status : {"none", "active", "grace", "revoked"}, expired : BOOLEAN,
           scopes : SUBSET Scope, uses : Nat]

NoRow == [status |-> "none", expired |-> FALSE, scopes |-> {}, uses |-> 0]

\* key: the loaded or presented key, NotCreated while there is none.
\* hash: api_key_hash of the loaded project, where it is used.
Locals == [kind : Kind, state : RequestState, todo : Seq(Statement), key : Key \cup {NotCreated},
           hash : Key \cup {NotCreated, Deleted}, grace : BOOLEAN, scopes : SUBSET Scope]

KeysTypeOK ==
    /\ primary \in Key \cup {NotCreated, Deleted}
    /\ keys \in [Key -> KeyRow]
    /\ req \in [Request -> Locals]

Stored(k) == keys[k].status # "none"
ProjectStored == primary \in Key

\* ProjectApiKey.is_valid and has_scope
IsValid(k) ==
    \/ keys[k].status = "active"
    \/ keys[k].status = "grace" /\ ~ keys[k].expired
HasScope(k, scope) == keys[k].scopes \cap {Full, scope} # {}

-----------------------------------------------------------------------------
(* Arrival *)

\* A raw key is known to clients once the response that shows it was sent.
Issued(k) == k = FirstKey \/ (k \in Request /\ req[k].state = "ok" /\ req[k].kind \in Issuing)

\* get_project_for_user and get_project_api_key: 404 for what is not stored.
Found(kind, k) ==
    CASE kind = "new_project"   -> primary = NotCreated
      [] kind \in Naming        -> ProjectStored /\ Stored(k)
      [] kind \in Presenting    -> TRUE
      [] OTHER                  -> ProjectStored

Arrive(r) ==
    /\ req[r].state = "idle"
    /\ \E kind \in Kinds, grace \in BOOLEAN :
       \E k \in (IF kind \in Naming \cup Presenting THEN Key ELSE {NotCreated}) :
       \E scopes \in (IF kind = "create" THEN SUBSET Scope ELSE {{Ingest}}) :
          /\ kind \in Presenting => Issued(k)
          /\ kind = "new_project" => \A q \in Request : req[q].kind # "new_project"
          /\ kind \notin {"rotate", "rotate_primary"} => ~ grace
          /\ req' = [req EXCEPT ![r] =
                [kind |-> kind, todo |-> Plan[kind], key |-> k,
                 hash |-> IF kind \in {"rotate", "rotate_primary"} THEN primary ELSE NotCreated,
                 grace |-> grace,
                 \* scopes or [INGEST_ONLY]; a rotated key keeps its scopes
                 scopes |-> IF kind = "rotate" THEN keys[k].scopes
                            ELSE IF scopes = {} THEN {Ingest} ELSE scopes,
                 state |-> IF Found(kind, k) THEN "running" ELSE "refused"]]
    /\ UNCHANGED <<primary, keys>>

-----------------------------------------------------------------------------
(* Statements that manage keys *)

\* The ACTIVE key whose hash the loaded project has, if any.
FindOld(r) ==
    /\ At(r, "find")
    /\ Continue(r, [req[r] EXCEPT !.key =
          IF req[r].hash \in Key /\ keys[req[r].hash].status = "active"
          THEN req[r].hash ELSE NotCreated])
    /\ UNCHANGED <<primary, keys>>

\* Mutant of Retire: the grace period of a rotation is ignored.
Retire_AtOnce(r) ==
    /\ At(r, "retire")
    /\ IF req[r].key = NotCreated
       THEN Continue(r, req[r]) /\ UNCHANGED keys
       ELSE /\ Stored(req[r].key)
            /\ keys' = [keys EXCEPT ![req[r].key].status = "revoked"]
            /\ Continue(r, req[r])
    /\ UNCHANGED primary

\* old_key.save(update_fields=...): raises when the row was deleted.
Retire(r) ==
    LET k == req[r].key
    IN  /\ At(r, "retire")
        /\ \/ k = NotCreated /\ Continue(r, req[r]) /\ UNCHANGED keys
           \/ k # NotCreated /\ ~ Stored(k) /\ End(r, "error") /\ UNCHANGED keys
           \/ /\ k # NotCreated /\ Stored(k)
              /\ keys' = [keys EXCEPT
                    ![k].status = IF req[r].grace THEN "grace" ELSE "revoked",
                    ![k].expired = IF req[r].grace THEN FALSE ELSE @]
              /\ Continue(r, req[r])
        /\ UNCHANGED primary

\* ProjectApiKey.objects.create: the foreign key refuses a deleted project.
Insert(r) ==
    /\ At(r, "insert")
    /\ \/ /\ ProjectStored
          /\ keys' = [keys EXCEPT ![r] =
                [status |-> "active", expired |-> FALSE, scopes |-> req[r].scopes, uses |-> 0]]
          /\ Continue(r, req[r])
       \/ ~ ProjectStored /\ End(r, "error") /\ UNCHANGED keys
    /\ UNCHANGED primary

\* Project.objects.create, or project.save with the new hash.
Promote(r) ==
    /\ At(r, "promote")
    /\ IF primary # Deleted
       THEN primary' = r /\ Continue(r, req[r])
       ELSE End(r, "error") /\ UNCHANGED primary
    /\ UNCHANGED keys

\* rotate_project_api_key: the hash of the project as it was loaded.
Sync(r) ==
    /\ At(r, "sync")
    /\ \/ req[r].hash # req[r].key /\ Continue(r, req[r]) /\ UNCHANGED primary
       \/ /\ req[r].hash = req[r].key
          /\ IF ProjectStored
             THEN primary' = r /\ Continue(r, req[r])
             ELSE End(r, "error") /\ UNCHANGED primary
    /\ UNCHANGED keys

\* project.delete() cascades to its keys; deleting it again has no effect.
DeleteProject(r) ==
    /\ At(r, "delete")
    /\ primary' = Deleted
    /\ keys' = [k \in Key |-> NoRow]
    /\ Continue(r, req[r])

\* record_audit_log, after the change was saved: it can only be cut off.
Audit(r) == At(r, "audit") /\ Continue(r, req[r]) /\ UNCHANGED <<primary, keys>>

-----------------------------------------------------------------------------
(* Statements that check a key *)

\* APIKeyAuthentication.authenticate up to the update; a key without a row is
\* the legacy key of a project.
IngestAccepts(k) ==
    IF Stored(k) THEN IsValid(k) /\ HasScope(k, Ingest) ELSE primary = k

Check(r) ==
    LET k == req[r].key
    IN  /\ At(r, "check")
        /\ \/ IngestAccepts(k) /\ Stored(k) /\ Continue(r, req[r])
           \/ IngestAccepts(k) /\ ~ Stored(k) /\ End(r, "ok")
           \/ ~ IngestAccepts(k) /\ End(r, "refused")
        /\ UNCHANGED <<primary, keys>>

\* Mutant of Count: only a key that is still valid is counted.
Count_IfValid(r) ==
    /\ At(r, "count")
    /\ keys' = IF IsValid(req[r].key) THEN [keys EXCEPT ![req[r].key].uses = @ + 1] ELSE keys
    /\ Continue(r, req[r])
    /\ UNCHANGED primary

\* The update of last_used_at and request_count; of a deleted key, nothing.
Count(r) ==
    /\ At(r, "count")
    /\ keys' = IF Stored(req[r].key) THEN [keys EXCEPT ![req[r].key].uses = @ + 1] ELSE keys
    /\ Continue(r, req[r])
    /\ UNCHANGED primary

\* _resolve_project_from_key: a valid key, or the project's own hash.
Resolves(k) == (Stored(k) /\ IsValid(k)) \/ primary = k

ResolveKey(r) ==
    /\ At(r, "resolve")
    /\ IF Resolves(req[r].key) THEN Continue(r, req[r]) ELSE End(r, "refused")
    /\ UNCHANGED <<primary, keys>>

-----------------------------------------------------------------------------

Expire(k) ==
    /\ keys[k].status = "grace" /\ ~ keys[k].expired
    /\ keys' = [keys EXCEPT ![k].expired = TRUE]
    /\ UNCHANGED <<primary, req>>

Kill(r) == Killed(r) /\ UNCHANGED <<primary, keys>>

Statements(r) ==
    \/ FindOld(r) \/ Retire(r) \/ Insert(r) \/ Promote(r) \/ Sync(r) \/ DeleteProject(r)
    \/ Audit(r) \/ Check(r) \/ Count(r) \/ ResolveKey(r)

\* The project is not created yet, or has the key of its creation.
KeysInit ==
    /\ \/ primary = NotCreated /\ keys = [k \in Key |-> NoRow]
       \/ /\ primary = FirstKey
          /\ keys = [k \in Key |-> IF k # FirstKey THEN NoRow ELSE
                [NoRow EXCEPT !.status = "active", !.scopes = {Ingest}]]
    /\ req = [r \in Request |->
          [kind |-> "deploy", state |-> "idle", todo |-> <<>>, key |-> NotCreated,
           hash |-> NotCreated, grace |-> FALSE, scopes |-> {}]]

KeysNext ==
    \/ \E r \in Request : Arrive(r) \/ Statements(r) \/ Kill(r)
    \/ \E k \in Key : Expire(k)

KeysSpec == KeysInit /\ [][KeysNext]_keyVars

-----------------------------------------------------------------------------
(* Properties *)

Executed(r, s) == Behind(r, Plan[req[r].kind], s)

\* A key is retired only by a request for it, and revoked only by one that
\* granted no grace period, in whatever order rotations and revocations of all
\* keys run ("remains valid until expires_at", projects/services.py:52-53).
RetiredOnRequest ==
    \A k \in Key : keys[k].status \in {"grace", "revoked"} =>
        \E r \in Request :
            /\ req[r].key = k /\ Executed(r, "retire")
            /\ req[r].grace <=> keys[k].status = "grace"

\* request_count is the number of ingests accepted with the key: none is lost
\* to a concurrent one, nor when the key is retired on the way ("updated
\* atomically", events/authentication.py:15).
UsesCounted ==
    \A k \in Key : Stored(k) => keys[k].uses =
        Cardinality({r \in Request : req[r].key = k /\ req[r].state = "ok"
                                     /\ req[r].kind = "ingest"})

\* Every key that authenticates an ingest can be listed and revoked: it has a
\* row, unless the request that issues it has yet to store it or was cut off.
AcceptedIsListed ==
    \A k \in Key : IngestAccepts(k) /\ ~ Stored(k) =>
        k \in Request /\ req[k].state # "ok" /\ ~ Executed(k, "insert")
=============================================================================
