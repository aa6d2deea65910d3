# TrazeIQ backend: formal model

TLA+ specifications of the TrazeIQ backend (Django 6 and DRF on PostgreSQL, run by gunicorn
with three sync workers, see `DEPLOY.md`), checked with TLC on small instances, with theorems
about them proved for every instance by TLAPS. Paths are relative to `src/`; `ES` is
`apps/events/services.py`, `IS` is `apps/incidents/services.py`.

## 1. Inventory

| component | state | operations | how it interacts | what makes it correct |
|---|---|---|---|---|
| **Event ingestion** (`apps/events`) | `ErrorGroup` (fingerprint, count), `Event` | `POST /events/` -> `ingest_event` | writes incidents; then calls realtime, notifications, alerts, best effort | one group per fingerprint, exact counts, one open incident per group |
| **Incident workflow** (`apps/incidents`) | `Incident` (status, severity, assignee, resolved_at), `TimelineEntry` | PATCH, resolve, verify-fix, five bulk endpoints, comment | shares incidents with ingestion, deploys and regroup | `resolved_at` agrees with the status, every status change is in the timeline |
| **Deployments** (`apps/deployments`) | `Release`, `Deployment` | record deployment (API, CLI, GitHub/GitLab webhook) | verifies the incidents it names through `verify_incident_fix` | metadata given once stays, the incidents verified are those the marker may verify |
| **Regroup job** (`ES:260`) | rewrites groups, incidents, events | `POST /projects/{id}/regroup/`, CLI | runs beside ingestion | nothing lost, no duplicate open incident, counts recomputed |
| **Event normalisation** (`apps/events/utils.py`) | none | redaction, frame parsing, fingerprint, level maps | ingestion and regroup compute fingerprints with it | one error per code path, the same at ingestion and afterwards |
| **Event queries, search, analytics, platform** | none | lists, pages, search tokens, dashboards, deploy suspects | read the tables of all the above | what different queries say of one moment agrees |
| **Alerts** (`apps/alerts`) | `AlertRule`, `AlertLog` | CRUD of rules, `evaluate_incident` | called after ingest and PATCH; e-mail, Slack, webhook | one dispatch per cooldown window, log faithful, stored rules can be sent |
| **Slack** (`apps/integrations`) | `SlackIntegration` | connect, status | the token of room deliveries | a reconnection replaces the token |
| **Notifications** | `AlertPreference`, `Notification` | `notify_*`, preferences, mark read | called by workflow and ingestion | audience rules, toggles kept |
| **Dashboard cache** (`apps/analytics`) | version counters and payloads in the cache | bump on save signals, read through | Event/Incident signals; memberships decide what a query counts | no stale payload under the current version |
| **Throttles** (`apps/events/throttles.py`) | window counters in the cache | `allow_request` | before ingestion | the cap holds under concurrency |
| **Projects and API keys** | `Project`, `ProjectApiKey` | create, rotate with grace, revoke, authenticate | authenticates ingestion and deploy markers | keys die only on request, uses are counted |
| **Organizations** | `Organization`, `Membership`, `Invite` | found, invite, accept, remove | permissions everywhere | an invite admits its addressee once |
| **Accounts** | `User`, `OTPCode`, `RegistrationToken`, JWT blacklist | code, verify, complete, login, Google, refresh, logout, reset | e-mail, Google | addresses proven, codes and tokens single-use, attempts limited |
| **Audit log** | `AuditLog` | appended by organizations and projects | list view | the row follows the change it reports |
| **Realtime, HTTP layer** | none | external calls, envelopes | | |

What is hard in this system:

* **Autocommit.** There is no `ATOMIC_REQUESTS`: every ORM statement is its own transaction, and a
  request is a sequence of statements between which the other workers run. Rows are read,
  changed in memory and saved later, some with `update_fields`, some whole.
* **Retries.** The upserts of ingestion catch `IntegrityError` and `OperationalError` and try again.
* **Kills.** gunicorn kills a worker after 60 s and on deploys; what it wrote stays.
* **Regroup** reads its input before its transaction starts, and the transaction is READ COMMITTED: each of its statements
  sees what other requests have committed by then.
* **Cache races** (throttle, dashboard) and **check-then-create** (alerts, invites, codes, tokens).
* **Derived answers.** Fingerprints, lists, charts and suspects are each computed by queries, windows and
  filters of their own, which must agree.

`PROJECT.json` lists the hazards line by line, with the properties that cover them.

## 2. Modules

| module | models | run |
|---|---|---|
| `TrackerStore` | the tables shared by ingestion, workflow and regroup; lookups; `uniq_open_incident_per_group` | |
| `Requests` | a request: next statement (`pc`), outcome, uncaught exception, killed worker | |
| `Ingest` | `ingest_event`, one action per SQL statement | |
| `IncidentWorkflow` | PATCH, resolve, verify-fix, bulk endpoints, deploy verification | |
| `Tracker` | composition of the two, invariants, action and liveness properties, `IndInv` | `burst`, `tracker`, `liveness` |
| `Ledger` | what ingestion promises: an occurrence is counted once, then stored at most once | refined by `Tracker` |
| `Regroup` | the regroup job, its transaction statement by statement, beside a running tracker | `regroup` |
| `WindowThrottle` | the fixed-window counters of `apps/events/throttles.py` on a cache whose keys expire | `throttle` |
| `DashboardCache` | version counters, save signals and the read-through cache of `apps/analytics` | `dashboard` |
| `AlertDispatch` | `evaluate_incident`: rules, cooldown query, log, delivery, failed delivery | `alerts` |
| `AlertRules` | alert rules, the DNS answers their URLs are checked against, and the Slack workspace they are delivered through | `alertrules` |
| `RequestSteps` | requests as lists of statements, for the modules above and below | |
| `ApiKeys`, `Deployments` | API keys of a project; deploy markers of a version | `keys` |
| `Organizations`, `Notifications` | memberships and invites; the inbox of the members | `workspace` |
| `Accounts` | registration, reset, sign-in, refresh tokens | `accounts` |
| `Fingerprint`, `Webhooks` | redaction, frames and signature of an event; markers of GitHub and GitLab payloads | |
| `History` | the tables the read side queries and the writes that grow them, each atomic | |
| `Reports`, `IncidentQueries`, `Search`, `Listings` | dashboards and totals; deploy suspects; search tokens; lists and pages | `queries` |
| `MC*` | instances for TLC | |
| `TrackerProofs` | the proofs about the tracker, its refinement of the ledger, and the regroup job | |
| `CacheProofs`, `QueriesProofs` | the proofs about `WindowThrottle` and `DashboardCache`, and about the read side | |
| `RequestStepsProofs` | what `Continue`, `End` and `Killed` do to a request, for the four below | |
| `KeysProofs`, `WorkspaceProofs`, `AccountsProofs`, `AlertProofs` | the proofs about the modules over `RequestSteps`; the last also about `AlertDispatch` | |

How they compose: `Tracker` runs `Ingest` and `IncidentWorkflow` on one `TrackerStore`, and `Regroup` runs the
job beside it. `Deployments` extends `ApiKeys` (a marker starts from a key that resolved), `Notifications` extends
`Organizations` (its audience is the membership). `Fingerprint`, `Webhooks`, `History`, `Reports`, `IncidentQueries`,
`Search`, `Listings` extend each other in that order: the read side over one set of tables. The others share
no variable with the tracker: the throttle and the key check run before ingestion, alerts are evaluated, members
notified and dashboards invalidated after its writes, and nothing of it feeds back into the tracker's tables.

How the code maps to actions:

* `groups`, `incidents`, `events`, `timeline` are the tables. A row is a record of the columns the
  code branches on or overwrites. Incident keys are numbers in `created_at` order, because lookups
  take the newest. An event row is identified with the request that ingested it.
  `assigned_to` is handled by `update_incident` exactly as `severity` and is represented by it.
* `ing[r]` and `wf[r]` are the local variables of request `r`: the group and incident an ingest
  holds, the rows a handler loaded (`copy`) and has still to treat (`todo`).
* `_upsert_error_group` is `GetGroup`, `InsertGroup`, `RegetGroup`; `BumpCount` is the `F("count") + 1`
  update; `_reuse_open_incident` is `FindActive`, `FindPast`, `Reopen`, `ReopenEntry`, `GetOpen`,
  `InsertOpen`, `RegetOpen`; `PersistEvent` is `Event.objects.create`. The lookup and the re-lookup
  that `get_or_create` and the `except` clause both make after an `IntegrityError` are one action.
  The retry loops share `RetryFrom`: three caught failures, the fourth propagates.
* A workflow request is `Load`, then per row `SkipUnchanged`, or `Save` and `AppendEntry`.
  `Changed` is the change in memory, `Saved` what `save(update_fields=...)` writes.
* `Raise` is an uncaught exception: a row that is gone under a `save(update_fields)`
  (`DatabaseError`), a second open incident of a group, a foreign key to a deleted group.
* In `Regroup`, `ReadEvents` is the query before the transaction and `Begin` opens it. A turn of its loop, in any order of the
  fingerprints, is `FindCanonical`, `KeepGroup` (the group's row and its events), and, if the events came from other groups,
  `ListOpen`, `MovePrimary`, `ResolveDuplicate` per further incident, and `MoveOthers`. `Commit` deletes the other groups and
  makes the tables of the transaction the stored ones. A refused insert (`InsertRefused`), a second open incident
  (`MoveClash`) or a killed worker rolls back.
* `tx` is what the open transaction sees: the tables, the groups and incidents it has written (`kept`, `locked`), the
  fingerprints left and the locals of the turn. A step of any other request (`Elsewhere`) is committed at once, and the
  transaction sees the rows it changed (`Seen`); a statement that writes a row of `kept` or `locked`, or takes a unique key one of
  them has or may get, waits for the end of the transaction (`Waits`). `raced` is a history variable: the incidents
  whose status others changed while a transaction was open.
* In `WindowThrottle`, `req[c]` is a request inside `allow_request`: `Incr`, and `Add` when the key was missing.
  `granted` is a history variable. `cache.touch` restarts a timeout and has no effect on keys that
  may expire at any time.
* In `DashboardCache`, a write is `SaveRow`, `Bump`, and `CreateVersion` when the counter was missing; inside a
  transaction (`SaveInTransaction`) the `Commit` comes after the bump. A read is `GetVersion` per project,
  `Lookup`, `Compute`, `Store`. `Compute` counts the rows of the projects its caller is a member of, any of those asked for
  (`scope`, history), while the key names all of them and no caller. `owed` records the writes that were complete when the read began, `reset` the projects
  whose counter was set to 1 over an existing one.
* In `AlertDispatch`, `eval[e]` are the locals of one evaluation: `Fetch`, `Begin`, then per rule `Visit`,
  `CreateLog`, `Dispatch`, `MarkFailed`. `known` records the alerts logged when it began.
* In the modules over `RequestSteps` an endpoint is a sequence of statement names
  (`RotateKey == <<"retire", "insert", "sync", "audit">>`) and each name an action: `req[r].todo` is what is left of it.
  Rows, codes, keys and tokens are named after the request that created them; `req[r].before` is history, the
  requests that had ended when `r` came. A retired key, a voided code or a saved copy is written from the locals,
  never from the row as it is now, where the code does so.
* `AlertRules`: `InsertRule`, `LoadRule`, `SaveRule`, `RemoveRule` are the endpoints' statements; `Suits` is the
  serializer's `validate`, against what DNS says at that moment (`hosts`, which `DnsChanges` may change at any time; `vouched`
  records the URLs it found public); `Route` and `Post` or `PostToRoom` are `dispatch`. `Permit` may refuse anybody: the roles
  are in `Organizations`.
* In `Accounts`, `Matches` is `OTPCode.matches`: the code that was sent, or one of `DevCodes`, which is what `AUTH_DEV_OTP` holds,
  if anything. `GoogleVerifies` tells the real Google sign-in from the stub mode without `GOOGLE_CLIENT_ID`, where the
  address in the request is believed (`Identify`).
* `Fingerprint` keeps of a text its name, the noise `_normalize` drops and the secret `redact_secrets` replaces;
  `parse_stacktrace_frames`, `GivenFrames`, `Selected` and `fingerprint` are the functions of `utils.py`.
* In `History` a write is one action: how writes interleave is the topic of `Tracker`. The operators of `Reports`,
  `IncidentQueries`, `Search`, `Listings` are the queries, evaluated on the current tables; `EventPage` takes two moments, for its
  count and its slice are two queries.

## 3. Runs

| run | instance | shows |
|---|---|---|
| `burst` | 4 ingests of one error; no earlier incident, or one in each status, or an ignored and a closed one | `BurstDeduplicated`: whatever the interleaving, no ingest fails, no error ever has two groups, and at the end its group has one active incident and an exact count (what `loadtest/burst.py:9-12` expects), if no two incidents of the group are active or closed before; with two, section 5 |
| `tracker` | 2 ingests and 2 edits (r2 either), 3 incidents, lock conflicts, one killable worker | `EditsReportedInOrder`: an edit of several incidents that is cut off has reported all its changes down to the incident it stopped at and none after it; `ResolvedAtMatchesStatus`, `StatusChangeOwesEntry`, and the refinement `KeepsTheLedger` |
| `liveness` | the same with 2 incidents, with and without a group at first, under fairness | every request ends, those that race to insert the group included; every owed entry is written |
| `regroup` | 2 legacy groups and possibly the current one, every combination of statuses of their incidents, 2 late requests, one an ingest, the other an ingest, an edit or a second job beside the first, which may be killed anywhere | with all of them committing between the statements of a transaction: the incident constraint; a job that succeeds when none missed an ingest keeps every event it read and the incidents of their groups (`Consolidates`), and none resolves the last open ticket of a group it keeps (`MergedGroupStaysOpen`), both but for incidents others changed during a transaction |
| `throttle` | 3 workers, one address and one project key with caps 3 and 2 | a window exceeds its cap by at most the other workers (`CapNearlyHolds`); nobody is denied before the cap (`DeniedOnlyAtCap`) |
| `dashboard` | 2 readers, 2 writes of every kind of one project, its counter missing at first, entries that expire | `FreshAfterBump`: no answer computed for a member is older than a write committed and signalled before the request; `CommittedWriteShows`: every committed write shows in the end in what was computed for a member |
| `alerts` | 2 evaluations, 2 rules with different conditions and cooldowns, deleted rules, edits, kills | no known alert is repeated in its cooldown (`CooldownOfKnown`), no matching rule is skipped because another one's channel failed (`EveryMatchAlerted`), rows that say dispatched were (`LogFaithful`) |
| `alertrules` | 3 requests of any kind, 2 new rules, 3 partial edits, a host that may come to resolve to a reserved address | `RulesStaySendable`, `DeletedStaysDeleted`, `ReconnectReplaces` |
| `keys` | 3 requests of any of 8 kinds on the keys of one project, killed anywhere, grace periods that end; 2 metadata fields | `RetiredOnRequest`, `UsesCounted`, `AcceptedIsListed`, `SuppliedMetadataKept` |
| `workspace` | 3 requests, 2 users, at most 2 of the requests for the inbox | `InvitedAsAddressed`, `AdmitsOnce`, `ReinviteVoids`, `ManagersManage`, `ToggleKept`, `AssignedOnlyIsKept` |
| `accounts` | 3 requests of any of 9 kinds, 2 addresses, 2 names, codes that lock after 2 attempts, a development code, verified Google tokens | `AddressProven` (but for the development code), `NewCodeVoidsOld`, `LockedAfterAttempts` (of tries that no other try of the code overlapped), `ResetVoidsCodes`, `SpentTokenRefused` |
| `queries` | every history of 3 writes in 5 hours: 4 events of 2 projects, 3 markers, 3 webhook payloads, edits; 14 search tokens, 2 filters, pages of 2 | `ReportsAgree`, `SearchNegates`, `GroupedByCode`, `PagesMissNothing`, `BlameSettles` |

**Bounds.** Constants bound the requests, the incident rows (`MaxIncident`) and the group keys.
Two ingests and two editors meet all pairwise races, and a third actor between any two; four
ingests exhaust the four attempts. `Attempts` is the code's own three. One group is enough
for the tracker because no statement of ingestion or workflow relates two groups; regroup has four,
the two merged, the canonical one, and one for an error never seen; an edit there is a PATCH that reopens an incident or a
deploy marker that verifies some, which is what can come between the statements of a transaction, and two jobs in one run let
one commit before the other begins or be killed with its transaction open. `MaxIncident` leaves a free row after
every seed, and an ingest that finds none simply does not go on: the proofs do not need the bound.
`MaxHits` lets a window count past both caps and past every worker; three workers let two of them miss the
key the third creates, in either of the two keys. Two readers let one be served what the other stored, at every point
of a write, be it a member or not, and two writes let one create the counter over the other's; keys of several projects are left to the proof,
which holds for any number. `MaxClock` lets the longer cooldown end once.

Three requests in `keys`, `workspace`, `accounts` and `alertrules` are the two that race and the one that made the row
they race for, or that observes them afterwards; where a property needs more of the past, the initial states have it
(an invite sent, a user registered, a code out, a rule stored, a token connected). `MaxGiven` (toggles a patch gives)
and `MaxInbox` (requests for the inbox)
keep `workspace` small: one toggle against another needs no more. Codes, invites and
grace periods expire whenever they are looked at, or by an action of their own, instead of by a clock. One host, public or
not, is what an edit and a delivery need around a change of DNS. The proofs cover the sign-in without verification
(`GoogleVerifies = FALSE`) and no development code as well.

In `queries` an hour is one tick, a day three, the range "7d" one day, `TopN` two frames and `TopShown`
the busiest error only, so that both sides of every
window, the second day before, and a third frame that does not count are within `MaxNow` and `MaxWrites`. The contents are
one error through different wrappers, line numbers, secrets and SDK frames, and another one whose metadata brings frames;
searches are single tokens in both signs on top of a filter.

**Seeds** are table contents that earlier requests can leave behind (`ConsistentSeed`).

**Deadlock** is checked in `throttle`, `dashboard` and `alerts`. The other instances stop when their requests are over
or a bound is reached (`MaxWrites` and `MaxNow` in `queries`), and say `CHECK_DEADLOCK FALSE`.

**Fairness.** `Fairness` is weak fairness of each arrived request's own next statement: a
sync worker runs its request to the end, and no statement waits for another request (row locks are
held for one statement, but for those of a regroup, which is not in the liveness run). No fairness is assumed of arrivals or kills. The kill is excluded in the liveness run, since a
killed request ends by definition and its owed entry is indeed lost (see the hazard at `IS:56`).
`ExpiringSpec` of `DashboardCache` only assumes that the cache goes on dropping entries while there are any (every
entry has a timeout); readers and writers may stop anywhere. In `Accounts` and `Notifications`, which are only checked for
safety, a killed worker is a request that takes no further step.

**Refinement.** `KeepsTheLedger == TheLedger!LedgerSpec` maps the tracker to `Ledger`: a request's entry is the group it
counted its occurrence in (`EntryOf`), a group's count that of its row (`CountOf`). `BumpCount` is `CountOccurrence`, `PersistEvent`
is `StoreOccurrence`, and every other statement, retry, error and kill is a stutter. It says more than that counts are exact:
a retry that counted again, an event stored twice or in another group, or before it was counted, would be no step of the ledger.

## 4. Proofs

The theorems about the tracker hold for any finite set of requests, any groups, fingerprints, severities, `MaxIncident`,
seeds satisfying `ConsistentSeed`, any killable workers, with or without lock conflicts.

* `TypeCorrect == Spec => []TypeOK`, one step per action.
* `EditsInOrder == Spec => []EditsReportedInOrder`. `EditsProgress` says what an edit has reported at each of its statements:
  of the incidents it loaded the older ones are still to do, and none of those has an entry of it.
* `Safety == Spec => []IndInv`, and from it `OneOpenIncident`, `ResolvedAtKept`, `CountExact`, `EventsAccounted`,
  `ReportedIncident`.
* `StatusChangesOweEntries == Spec => StatusChangeOwesEntry`, the action property, from the types alone: each writer of
  the incidents either stores a new row or goes on to the statement that appends the entry.
* `ImplementsLedger == Spec => KeepsTheLedger`.
* `BurstsDeduplicate == ASSUME OneBurst PROVE Spec => []BurstDeduplicated`. `OneBurst` is what makes an instance a burst: no
  editors, no kills, no lock conflicts, seeds with at most one active or closed incident per group.
* `RegroupSafety == RegroupSpec => []RegroupInv`, and from it `RegroupKeepsOneOpen`, `RegroupConsolidates` and
  `RegroupKeepsOpen`, for any set of regroup jobs beside everything above and any fingerprints the current algorithm gives.

None of the invariants is inductive alone; `IndInv` adds

* `OneGroupPerFingerprint`, without which an ingest could hold the wrong one of two groups;
* `GroupsHeld`: at each statement, what an ingest holds: no group before the upsert, afterwards the
  stored group of its fingerprint (groups are not deleted in `Tracker`), no incident before the incident
  lookup; a request that is no ingest holds neither;
* `CopiesConsistent`: the rows a handler loaded had `resolved_at` in agreement with their status, so
  what it saves, both columns together, agrees as well, whatever the row became meanwhile.

The argument, by what each invariant depends on:

* only `Reopen`, `InsertOpen` and `Save` write incidents (`IncidentWriters`), and each is guarded
  by `OpenClash`, the constraint, which gives `OneOpenStep`;
* only `InsertGroup` and `BumpCount` write groups (`GroupWriters`); `BumpCount` moves exactly its own
  request into `CountedIn(g)` and no later step moves one out (`ActorKeeps`, `OthersKeep`), so count and cardinality
  rise together (`StepKeeps`, `OccurrencesStep`);
* a step changes the locals of one request only (`OnlyActor`), so the other conjuncts are proved for the
  acting request and carried over for the others.

The refinement needs one more invariant, that an event is stored only for an ingest that answered: `PersistEvent` is reached
once, so what it stores was not stored before. `BumpCount` and `PersistEvent` then map to the two actions of the ledger and
the remaining ones leave its variables alone, one proof step each.

In a burst nothing but reopening and inserting happens to incidents (`OnlyOpens`), so what a lookup did not find can only
have appeared as an open incident, and what it found is still there. `BurstInv` says so of each request at its statement
(`BurstRequest`), next to `OneRelevant`, which makes an insert the first usable incident of its group and a reopening the only
one; no branch that raises is then enabled. When all have answered, `OccurrencesCounted` and `StoredEventsCounted` give the count.

`IndInv` does not hold beside a regroup job, which deletes groups that ingests hold and sets counts from a list.
`RegroupInv` keeps of it the types, the two unique keys, `ResolvedAtMatchesStatus` and `CopiesConsistent`, and adds:

* `JobsApart`: a request is an ingest or a job, and whatever is stored or was read belongs to an ingest that ended
  well. So if no job missed an ingest, no ingest is under way, and groups and events stand still from the first read
  to the commit and after it (`NothingMissedQuiet`).
* `StoredEventsKnown`: under that condition, until a job commits all of them have read what is stored; afterwards each
  event is in the group of its current fingerprint, with exact counts and no group without events (`Consolidated`). The
  last part is what keeps a second job from deleting anything.
* `DeletedWithGroup`: incidents disappear in a commit only, with their group.
* `TransactionOpen`, what the open transaction has done by now, in five parts. `TxConsistent`: the constraints hold in the
  tables as it sees them, and these are the stored ones but for the rows it has written. `TxMerged`, the loop
  invariant: the fingerprints merged have one kept group each, with their events in it, and once a turn is over no incident but a
  `raced` one is left in a group that events came from, unless that group is kept itself. `TxTurn`: what the statements of a turn
  have found, in particular that an open incident of an old group is on the list or was reopened after it. `TxLosesNothing`:
  no event is gone. `TxKeepsOpen`: an open incident that it resolves has one beside it, in its group or on the way
  there, that it keeps open.

A statement of the transaction is proved against `StatementKeeps` (what a step that writes no stored table has to show), one lemma per
statement: incidents are moved one at a time (`Relocated`, `OneMoved`), so `MovePrimaryKeeps` and `ResolveDuplicateKeeps` need only what
moving one row does to the constraints (`MovesConsistent`), to the loop (`MovesMerged`) and to the open incidents (`MovesKeep`). The
primary cannot become a second open one, for the statement is refused when the canonical group has one by then (`MoveClash`); a
duplicate is resolved as it is moved. A step of another request is mirrored (`ElsewhereMirrored`): the transaction sees
exactly the rows that changed, none of which it has written, because whoever would write one waits; its
incidents go into `raced`. From that follow `ElsewhereConsistent`, `ElsewhereMerged`, `ElsewhereTurn`, `ElsewhereLosesNothing` and
`ElsewhereKeepsOpen`. `CommitConsolidates` needs that every fingerprint is merged and nothing is missed; `RegroupKeepsOpen` reads
`TxKeepsOpen` at the commit.

`CacheProofs`:

* `CapExceededByWorkersOnly` and `DenialsJustified`, for any finite set of workers and any keys
  and caps. `ThrottleInv` says that a window's grants beyond those its counter accounts for, plus the requests still
  about to `add`, are fewer than the workers: a request goes to `add` only while the counter is missing.
* `DashboardsFresh`, for any projects, writes and readers. The property promises nothing of
  writes whose signal ran before their commit, of the projects in `reset`, nor of those the caller that computed the answer
  could not see (`scope`); section 5 says why. `Recent(k, d, s)` is the heart
  of `FreshInv`: of the projects `s`, data stored, or about to be stored, under key `k` contains all that is done if `k` has a project's current
  version, and all that any reader with the same version of that project is owed.

`AlertProofs`: `KnownAlertsNotRepeated` and `MatchesAlerted`. `AlertInv` adds that an evaluation never comes back to
a rule it has passed (`Passed`), so no alert known to another one can be logged again, and that at the
creation of a log every known log of the alert is out of its cooldown (`KnownCooled`). `RowsFaithful` rests on
`DeliveryInv`: a row says dispatched only from its creation to its delivery or to the save of its failure.

`QueriesProofs`: `Blame` (`BlameSettles`) and `Negation` (`SearchNegates`), for any contents, markers, payloads, tokens and
histories. Both rest on `HistoryInv`: groups and incidents stand for events. Every step only adds events and
deployments and keeps a known error's first date (`Grows`), so the first event of a group stays the first (`MinStays`, by
the well-foundedness of the numbers), the suspects gain none but a `NewSuspect`, and an event that comes an hour after the deploy
falls in neither volume. A negated token is the complement of its token because every incident has an event to join: without
`HistoryInv` an incident could be in neither list. Two assumptions on constants make this precise: contents have a level of
the code's five, and the filters of `Query` carry no token themselves.

The modules over `RequestSteps` are proved in one way, for any requests (a finite set where a count is
compared with a cardinality) and any of their keys, users, addresses, toggles or hosts. `Progress` says that every request has
the end of its endpoint's statement list left, so that being at a statement, or past it, tells which statements are behind it; what
an endpoint has executed stays executed. Each property then has an invariant that says what is true of the tables and of
the request's locals once a statement is behind it.

| theorem | proves | because |
|---|---|---|
| `KeysDieOnRequest` | `RetiredOnRequest` | whoever retires a key carries the grace period the row shows; its converse holds row by row |
| `UsesAreCounted` | `UsesCounted` | the increment and the end of the ingest are one statement; clients send keys they were shown (`IngestKnown`) |
| `AcceptedKeysAreListed` | `AcceptedIsListed` | a key with no row is the one its rotation has promoted and not stored (`PrimaryOwed`) |
| `MetadataIsKept` | `SuppliedMetadataKept` | a marker saves a copy only of columns it loaded blank, over values that stay set (`MetadataOwed`) |
| `JoinedAsInvited` | `InvitedAsAddressed` | an invite keeps what its request was given, a claim what the invite says (`Addressed`) |
| `InviteAdmitsOnce` | `AdmitsOnce` | whoever joined is a member or was removed (`Admitted`), and the unique membership refuses the second (`Once`) |
| `ReinvitingVoids` | `ReinviteVoids` | who is past `void` has voided every invite issued before it came (`Voided`) |
| `OnlyManagersManage` | `ManagersManage` | the permission class saw a manager, or nobody, and then the tenant getter one who joined since (`Trusted`) |
| `TogglesAreKept` | `ToggleKept` | a patch that overlaps none of `p` loaded the row before `p` came or after it ended (`Settling`) |
| `AssignedOnlyHolds` | `AssignedOnlyIsKept` | the same of one toggle, down to the preferences a notice has read and the audience it built (`Narrowed`) |
| `AddressesAreProven` | `AddressProven` | codes, tokens and passwords keep the address they were made for (`CodesFound`), and a code other than the development one matches only if it was sent |
| `NewCodesVoidOld`, `ResetsVoidCodes` | `NewCodeVoidsOld`, `ResetVoidsCodes` | who is past its voiding statement has voided all older codes (`Voided`), so a lookup finds no older one (`Freshest`) |
| `CodesLock` | `LockedAfterAttempts` | the row, and what a later request read of it, has at least the attempts such tries made (`Counted`) |
| `SpentTokensRefused` | `SpentTokenRefused` | an ended exchange or logout is on the blacklist, and nothing leaves it (`Spent`) |
| `RulesSendable` | `RulesStaySendable` | a request holds a rule that fits, with a URL some validation vouched for, at each statement that saves or sends one (`RulesInv`, `Precedes`); what was vouched for stays on record, whatever DNS says later |
| `DeletionsLast` | `DeletedStaysDeleted` | an edit that came after a deletion holds a copy only if one under way stored the rule again (`Removed`) |
| `ReconnectionsReplace` | `ReconnectReplaces` | the stored token, and those later requests read, are newer than the connection (`Replaced`) |

Two of these proofs changed the model. The invariant for `LockedAfterAttempts` was not inductive: a slow wrong try writes the count
it read plus one over a higher one. With four requests TLC finds the code accepted after as many wrong tries; the three
of the run had hidden it. The property is now about tries that no other overlapped. And `BurstDeduplicated` needs `OneBurst`'s
condition on the seeds, which the run's seeds had always met.

Only model-checked: liveness (`EveryRequestEnds`, `OwedEntryWritten`, `CommittedWriteShows`), which is beyond the prover under
fairness; and of the read side `ReportsAgree`, `GroupedByCode` and `PagesMissNothing`, whose sums, filtered and sorted lists are defined by recursion over their elements.

## 5. Where code and documentation disagree, or the code surprises

The properties above are stated so that they hold beside these, and none of them is hidden by a model that has the
code concerned: each is a behaviour TLC explores. Those marked * concern code that is left out.

| code | what happens | what is written |
|---|---|---|
| `ES:100` | an incident a user ignored after an ingest looked it up is reopened | `ES:75`: reopens "a resolved/fix_verified one" |
| `ES:100` | an ingest that reopens while an editor, or an ingest that found another closed one, opens another incident of the group gets an uncaught `IntegrityError`: counted, not stored | `ES:177`: "always persist the raw Event" |
| `IS:55` | a PATCH of the severity alone writes back the status it loaded, undoing a concurrent change | `IS:24`: "Only provided fields change" |
| `ES:381` | the oldest open incident is moved into the canonical group before that group's own newer one is resolved: the constraint fails the whole job | `ES:370`: "Merge open incidents safely" |
| `ES:371-404` | an incident that a PATCH or an ingest reopens after the open ones of the groups were listed is in neither of the two updates that move incidents, and is deleted with its old group | `ES:370`: "Merge open incidents safely" |
| `ES:371-386` | closing the incident the job keeps, after the list is read, lets the job resolve the duplicates and leave no open ticket | `ES:370`: "Merge open incidents safely" |
| `ES:404` | a group created after the job read the events is deleted with its event and incident | `ES:403`: deletes groups "that no longer contain events" |
| `ES:215` | frames a client puts in `metadata` go before those of the request in the stored row, so a regroup moves the event | `ES:267-268` |
| `apps/deployments/services.py:104` | a deploy marker that names an ignored incident verifies it | line 41: "any open/investigating incidents" |
| `ES:386` | merged duplicates are resolved without a timeline entry | `IS:3`: "Every status mutation appends" one |
| `apps/events/throttles.py:63` | concurrent first requests of a window each count themselves as the first, so the cap is exceeded by less than the number of workers | lines 9-10: "the cap holds under concurrent/parallel requests" |
| `apps/analytics/cache.py:43` | racing first bumps set the version back to 1, whose old entry may be served | lines 34-35: races "never suppress invalidation" |
| `apps/analytics/signals.py:28` | a save in a transaction bumps before its commit, and a read in between caches old data under the new version until the timeout | lines 5-6: "the next read recomputes" |
| `apps/analytics/cache.py:50-59` | the key names projects and versions, the aggregate depends on who asks (`apps/analytics/selectors.py:31-48`): the empty one of an outsider who gives a `project_id` is served to its members, and theirs to the outsider | `apps/analytics/views.py:54-58`: a foreign id "resolves to an empty (correct) aggregate and never leaks another tenant's data" |
| `apps/alerts/services.py:57` | overlapping evaluations both find no log and both alert | `apps/alerts/models.py:5-6`: the window suppresses repeats |
| `apps/alerts/services.py:61` | a worker killed before the delivery leaves a row that says dispatched | lines 45-46: "a faithful record of attempts" |
| `apps/alerts/services.py:69` | a rule deleted while its delivery fails ends the evaluation | line 65: "one bad channel must not take down the other rules" |
| `apps/alerts/views.py:219` | an edit under way while its rule is deleted stores the rule again | |
| `apps/alerts/dispatchers.py:126-154` | a target is posted to without another look at its host: nothing but the serializer calls the validation | `apps/alerts/security.py:10-12`: it runs "again at dispatch time" for "a rule edited after creation or DNS changes"; `apps/alerts/serializers.py:122-123` |
| `apps/alerts/dispatchers.py:130` | a PATCH of the channel alone makes a Slack rule of an e-mail address, which is posted to as if it were a room | line 135: "the rule's target is the channel name" |
| `apps/integrations/views.py:136` | a worker killed after Slack exchanged the code loses the token | |
| `apps/projects/services.py:134` | rotating a revoked key with a grace period makes it valid again | line 118: revokes "immediately" |
| `apps/projects/services.py:77` | a primary rotation cut off before the insert leaves no active key, only the legacy hash | |
| `apps/projects/services.py:158` | the hash of the project is compared as loaded; two rotations may leave it at a retired key | line 157: "Keep project default prefix synced" |
| `apps/projects/services.py:38` | * PATCH of a project writes back a stale environment | |
| `apps/deployments/views.py:37` | a revoked key that is still the primary hash resolves for deploy markers | |
| `apps/deployments/services.py:74` | two markers of a version overwrite each other's value of a field both found blank | line 64: "populate any missing git metadata" |
| `apps/deployments/views.py:60` | any member's session can POST a deploy marker, viewers included | line 47 |
| `apps/deployments/services.py:146` | an unknown state of a webhook is a completed deployment; a GitHub `deployment_status` brings no message and verifies nothing | |
| `apps/notifications/services.py:45` | without a preference row, members are not told of an incident assigned to somebody else, as they are with the default row; reading the preferences creates the row | lines 40-41: "the same defaults as `AlertPreference`" |
| `apps/notifications/views.py:223` | two concurrent patches of different toggles save whole rows: one is lost | line 175: "flip any subset of the four toggles" |
| `apps/organizations/permissions.py:90` | a user who joins between the permission class and the tenant getter manages with any role | `apps/organizations/views.py:183`: "Owner/admin only" |
| `apps/organizations/services.py:87` | a member who joined and was removed before the invite was marked used can join with it again; so can one whose worker was killed there | `apps/organizations/models.py:74`: "single-use" |
| `apps/organizations/services.py:41` | two concurrent invites of an address are both usable | lines 31-32 |
| `apps/accounts/models.py:128` | where `AUTH_DEV_OTP` is set, that code registers an account or resets a password for any address a code is live for, without its code | as lines 90-92 say; `.env.example:20-23` sets it "in dev/demo", `DEPLOY.md:35` says to leave it blank |
| `apps/accounts/services.py:348` | wrong codes tried at the same time count as one attempt, and a slow one sets the count back | |
| `apps/accounts/services.py:93` | two verifications of an address at once: the second insert of the token is an uncaught `IntegrityError` | |
| `apps/accounts/services.py:128` | a lost race for the e-mail address is answered "username_taken"; a token replaced meanwhile is a 500 with the account created | lines 110-113: "never a 500" |
| `apps/accounts/services.py:249` | Google sign-in with an address that has a password account is an uncaught `IntegrityError` | |
| `apps/accounts/services.py:213` | two exchanges of a refresh token at the same time both succeed | `apps/accounts/views.py:361` |
| `apps/events/views.py:211` | an event ingested between the count and the slice of a page can hide the last one | |
| `apps/events/utils.py:289` | the level of a low severity is debug, and info is low too | "One-to-one inverse" |
| `apps/platform/search_parser.py:86` | `is:fix_verified` is free text | line 5 |
| `apps/platform/search_parser.py:255` | of the events, a negated metadata or release token drops those without the path | line 7: negation |
| `apps/platform/selectors.py:64` | the per-project counts join events and incidents and multiply each other | line 59 |

## 6. Not modelled, and why

* Realtime push and the e-mail of notices: best effort, in `try/except`, no state of their own.
* Inside a regroup transaction: two jobs that overlap would wait for each other's rows, so their transactions come one after the
  other (the second may fail); saving a group and moving its events is one action, and so are the collection and the
  deletes of the final `.delete()`, whose statements others could still come between.
* Comments, detail views, traces, the lists of members, logs, deployments and audit rows: an insert nobody reads back, or
  one lookup.
* The encryption of the Slack token, cookies, JWT formats, message bodies and templates, rate and address parsing,
  field limits of serializers: data no property tells apart.
* Fingerprint version 1, which nothing calls. A rule's name, condition and cooldown in `AlertRules` (the latter two are in
  `AlertDispatch`), and redirects and timeouts of the HTTP client.
* In the read side: deleted projects, ties of `created_at` (ordered by creation), a `tag` filter without a colon, searches
  of several negated tokens at once, and the short cache in front of the platform totals.
* The HTTP layer: envelopes, health checks, settings.

## 7. Plan

Done: the tracker, regroup with its transaction, throttle, dashboard, alerts, keys and deploy markers, workspace, accounts, the read side and alert
rules; the proofs of all of them but three properties of the read side. Left, in this order:

1. The parts of `ReportsAgree` that compare sets rather than sums.
2. PATCH of projects, and the time-to-live cache of the platform totals beside `DashboardCache`.
