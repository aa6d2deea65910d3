--------------------------- MODULE DashboardCache ---------------------------
(***************************************************************************)
(* The versioned cache of dashboard aggregates (apps/analytics/cache.py)   *)
(* and the signal receivers that invalidate it (apps/analytics/signals.py).*)
(* The data of an aggregate is the set of writes its query saw, which are  *)
(* those of projects its caller is a member of; the kind and range of an   *)
(* aggregate, part of its key, are left out.  A cache command and a query  *)
(* are atomic; anything may happen between two of them.                    *)
(***************************************************************************)
EXTENDS Naturals

CONSTANTS
    Project,
    Writer,           \* writes of an Event or Incident row, one each
    ProjectOf,        \* [Writer -> Project]
    Reader,           \* requests for a dashboard aggregate, one after the other
    Kinds,            \* the ways rows are written that are explored
    NoVersion         \* version of a project that is not part of a key

ASSUME DashboardAssumption ==
    /\ ProjectOf \in [Writer -> Project]
    /\ Kinds \subseteq {"saved", "transaction", "silent"}
    /\ NoVersion \notin Nat

VARIABLES
    rows,      \* the writes committed to the database
    version,   \* [Project -> Nat], 0 when the cache has no counter
    reset,     \* history: the projects whose counter was created over another
    entries,   \* cached aggregates
    writer,    \* [Writer -> where the write is]
    reader     \* [Reader -> locals of cached_dashboard]

dashboardVars == <<rows, version, reset, entries, writer, reader>>

CacheKey == [Project -> Nat \cup {NoVersion}]

\* scope is a history field, on which the key does not depend: the projects
\* whose rows the caller that computed the data could see.
Entry == [key : CacheKey, data : SUBSET Writer, scope : SUBSET Project]

NoKey == [p \in Project |-> NoVersion]

\* owed is a history variable: the signalled writes of the projects of the
\* request that were complete when it began.
ReadLocals ==
    [at       : {"idle", "key", "compute", "store", "served"},
     projects : SUBSET Project,
     key      : CacheKey,
     owed     : SUBSET Writer,
     data     : SUBSET Writer,
     scope    : SUBSET Project]

TypeOK ==
    /\ rows \subseteq Writer
    /\ version \in [Project -> Nat]
    /\ reset \subseteq Project
    /\ entries \subseteq Entry
    /\ writer \in [Writer -> {"start", "bump", "create", "commit", "done",
                            "committed", "unsignalled"}]
    /\ reader \in [Reader -> ReadLocals]

WritesOf(P) == {w \in Writer : ProjectOf[w] \in P}

\* Writes that were committed before their signal bumped the version.
Done == {w \in Writer : writer[w] = "done"}

-----------------------------------------------------------------------------
(* Writers *)

\* A save in autocommit mode is committed when its post_save signal runs.
SaveRow(w) ==
    /\ "saved" \in Kinds /\ writer[w] = "start"
    /\ rows' = rows \cup {w}
    /\ writer' = [writer EXCEPT ![w] = "bump"]
    /\ UNCHANGED <<version, reset, entries, reader>>

\* A save inside transaction.atomic() runs its signal before the commit.
SaveInTransaction(w) ==
    /\ "transaction" \in Kinds /\ writer[w] = "start"
    /\ writer' = [writer EXCEPT ![w] = "bump"]
    /\ UNCHANGED <<rows, version, reset, entries, reader>>

\* A queryset update or delete sends no signal.
SilentWrite(w) ==
    /\ "silent" \in Kinds /\ writer[w] = "start"
    /\ rows' = rows \cup {w}
    /\ writer' = [writer EXCEPT ![w] = "unsignalled"]
    /\ UNCHANGED <<version, reset, entries, reader>>

Bumped(w) == [writer EXCEPT ![w] = IF w \in rows THEN "done" ELSE "commit"]

\* cache.incr(key): ValueError when the counter is missing.
Bump(w) ==
    LET p == ProjectOf[w]
    IN  /\ writer[w] = "bump"
        /\ \/ /\ version[p] > 0
              /\ version' = [version EXCEPT ![p] = @ + 1]
              /\ writer' = Bumped(w)
           \/ /\ version[p] = 0
              /\ writer' = [writer EXCEPT ![w] = "create"]
              /\ UNCHANGED version
        /\ UNCHANGED <<rows, reset, entries, reader>>

\* cache.set(key, 1, timeout=None), whatever the counter has become.
CreateVersion(w) ==
    LET p == ProjectOf[w]
    IN  /\ writer[w] = "create"
        /\ version' = [version EXCEPT ![p] = 1]
        /\ reset' = IF version[p] > 0 THEN reset \cup {p} ELSE reset
        /\ writer' = Bumped(w)
        /\ UNCHANGED <<rows, entries, reader>>

Commit(w) ==
    /\ writer[w] = "commit"
    /\ rows' = rows \cup {w}
    /\ writer' = [writer EXCEPT ![w] = "committed"]
    /\ UNCHANGED <<version, reset, entries, reader>>

\* The worker dies before the signal has done its work, or its transaction
\* is rolled back.
WriterKilled(w) ==
    /\ writer[w] \in {"bump", "create", "commit"}
    /\ writer' = [writer EXCEPT ![w] = "unsignalled"]
    /\ UNCHANGED <<rows, version, reset, entries, reader>>

-----------------------------------------------------------------------------
(* Readers: cached_dashboard, one cache command or query at a time *)

\* A view asks for its aggregate of the projects P: of the project_id given,
\* whoever asks, or of all the caller can see (_request_project_scope).
StartRead(r, P) ==
    /\ reader[r].at \in {"idle", "served"}
    /\ reader' = [reader EXCEPT ![r] =
          [at |-> "key", projects |-> P, key |-> NoKey,
           owed |-> Done \cap WritesOf(P), data |-> {}, scope |-> {}]]
    /\ UNCHANGED <<rows, version, reset, entries, writer>>

\* One cache.get of _project_versions.
GetVersion(r, p) ==
    /\ reader[r].at = "key"
    /\ p \in reader[r].projects /\ reader[r].key[p] = NoVersion
    /\ reader' = [reader EXCEPT ![r].key[p] = version[p]]
    /\ UNCHANGED <<rows, version, reset, entries, writer>>

Lookup(r) ==
    /\ reader[r].at = "key"
    /\ \A p \in reader[r].projects : reader[r].key[p] # NoVersion
    /\ \/ \E e \in entries :
             /\ e.key = reader[r].key
             /\ reader' = [reader EXCEPT ![r].at = "served", ![r].data = e.data,
                                         ![r].scope = e.scope]
       \/ /\ \A e \in entries : e.key # reader[r].key
          /\ reader' = [reader EXCEPT ![r].at = "compute"]
    /\ UNCHANGED <<rows, version, reset, entries, writer>>

\* The selectors count rows of the projects the caller is a member of
\* (_visible_projects): of any of those asked for, for members come and go and
\* a project_id may be another tenant's.
Compute(r) ==
    /\ reader[r].at = "compute"
    /\ \E seen \in SUBSET reader[r].projects :
          reader' = [reader EXCEPT ![r].at = "store", ![r].data = rows \cap WritesOf(seen),
                                   ![r].scope = seen]
    /\ UNCHANGED <<rows, version, reset, entries, writer>>

CacheSet(k, d, s) == {e \in entries : e.key # k} \cup {[key |-> k, data |-> d, scope |-> s]}

\* Mutant of Store: the key is rebuilt when the data is stored.
Store_CurrentKey(r) ==
    /\ reader[r].at = "store"
    /\ entries' = CacheSet([p \in Project |-> IF p \in reader[r].projects
                                              THEN version[p] ELSE NoVersion],
                           reader[r].data, reader[r].scope)
    /\ reader' = [reader EXCEPT ![r].at = "served"]
    /\ UNCHANGED <<rows, version, reset, writer>>

Store(r) ==
    /\ reader[r].at = "store"
    /\ entries' = CacheSet(reader[r].key, reader[r].data, reader[r].scope)
    /\ reader' = [reader EXCEPT ![r].at = "served"]
    /\ UNCHANGED <<rows, version, reset, writer>>

\* Mutant of Expire: entries are stored without a timeout.
Expire_Never(e) == e \in entries /\ FALSE /\ UNCHANGED dashboardVars

\* The entry's time to live is over.
Expire(e) ==
    /\ e \in entries
    /\ entries' = entries \ {e}
    /\ UNCHANGED <<rows, version, reset, writer, reader>>

-----------------------------------------------------------------------------

Init ==
    /\ rows = {}
    /\ version = [p \in Project |-> 0]
    /\ reset = {}
    /\ entries = {}
    /\ writer = [w \in Writer |-> "start"]
    /\ reader = [r \in Reader |-> [at |-> "idle", projects |-> {}, key |-> NoKey,
                                   owed |-> {}, data |-> {}, scope |-> {}]]

WriterStep(w) ==
    \/ SaveRow(w) \/ SaveInTransaction(w) \/ SilentWrite(w)
    \/ Bump(w) \/ CreateVersion(w) \/ Commit(w) \/ WriterKilled(w)

ReaderStep(r) ==
    \/ \E P \in SUBSET Project \ {{}} : StartRead(r, P)
    \/ \E p \in Project : GetVersion(r, p)
    \/ Lookup(r) \/ Compute(r) \/ Store(r)

Next ==
    \/ \E w \in Writer : WriterStep(w)
    \/ \E r \in Reader : ReaderStep(r)
    \/ \E e \in entries : Expire(e)

Spec == Init /\ [][Next]_dashboardVars

\* The cache drops every entry whose time to live is over.  Nothing else is
\* assumed to make progress.
ExpiringSpec ==
    /\ Spec
    /\ WF_dashboardVars(\E e \in entries : Expire(e))

-----------------------------------------------------------------------------
(* Properties *)

\* A request never answers with an aggregate older than a write whose signal
\* was over when the request began: "stale entries are orphaned, not served"
\* (cache.py:53).  Three kinds of writes get no such promise: those whose signal
\* runs before their commit, those of a project in which racing first writes set
\* the counter back (cache.py:43), and those of a project that whoever computed
\* the aggregate was not a member of: the next caller with that key is served it,
\* member or not.
FreshAfterBump ==
    \A r \in Reader :
        reader[r].at = "served" =>
            \A w \in reader[r].owed : ProjectOf[w] \in reader[r].scope \ reset => w \in reader[r].data

\* The entry a request that began now would be served.
Servable(e) == \A p \in Project : e.key[p] \in {version[p], NoVersion}

\* Whatever the signals did, a committed write is in the end part of every
\* aggregate that can be served and was computed for a member of its project:
\* "A short TTL is a safety net for the rare write that emits no signal"
\* (cache.py:8).
CommittedWriteShows ==
    \A w \in Writer :
        w \in rows ~> [](\A e \in entries :
                            Servable(e) /\ ProjectOf[w] \in e.scope => w \in e.data)

-----------------------------------------------------------------------------
(* The inductive invariant behind FreshAfterBump *)

\* Data of the projects s cached, or about to be cached, for key k is at least
\* as recent as the versions in k.
Recent(k, d, s) ==
    \A p \in s \ reset :
        k[p] # NoVersion =>
            /\ k[p] <= version[p]
            /\ k[p] = version[p] => Done \cap WritesOf({p}) \subseteq d
            /\ \A r \in Reader :
                  reader[r].key[p] = k[p] => reader[r].owed \cap WritesOf({p}) \subseteq d

FreshInv ==
    /\ TypeOK
    /\ Done \subseteq rows
    /\ \A e \in entries : Recent(e.key, e.data, e.scope)
    /\ \A r \in Reader :
          /\ reader[r].owed \subseteq Done \cap WritesOf(reader[r].projects)
          /\ \A p \in Project :
                reader[r].key[p] # NoVersion =>
                    /\ p \in reader[r].projects
                    /\ p \notin reset => reader[r].key[p] <= version[p]
          /\ reader[r].at \in {"compute", "store", "served"} =>
                \A p \in reader[r].projects : reader[r].key[p] # NoVersion
          /\ reader[r].at = "store" => Recent(reader[r].key, reader[r].data, reader[r].scope)
    /\ FreshAfterBump
=============================================================================
