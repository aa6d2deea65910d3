SPECIFICATION DeploymentsSpec
CONSTANTS
  r1 = r1  r2 = r2  r3 = r3
  Request = {r1, r2, r3}
  FirstKey = FirstKey  NotCreated = NotCreated  Deleted = Deleted  Blank = Blank
  Scope = {"ingest_only", "full_access"}
  Ingest = "ingest_only"  Full = "full_access"
  Field = {"commit_sha", "commit_message"}
  Kinds = {"create", "revoke", "rotate", "rotate_primary", "new_project", "delete", "ingest", "deploy"}
SYMMETRY Requests
INVARIANTS RetiredOnRequest UsesCounted AcceptedIsListed SuppliedMetadataKept
CHECK_DEADLOCK FALSE
