--------------------------- MODULE WindowThrottle ---------------------------
(***************************************************************************)
(* The fixed-window request counters in front of event ingestion           *)
(* (apps/events/throttles.py) on the shared Redis cache.  Every ingest     *)
(* request is counted under the key of its client address and under the    *)
(* key of its project, one after the other; being denied by the first      *)
(* does not spare it the second.  A key is created with an expiry and may  *)
(* expire at any time: touching it, which only restarts the expiry, is not *)
(* modelled.  Single cache commands are atomic.                            *)
(***************************************************************************)
EXTENDS Naturals, FiniteSets

CONSTANTS
    Client,       \* concurrent ingest requests: one per worker
    IpKey,        \* cache keys of client addresses
    ProjectKey,   \* cache keys of projects
    Cap,          \* [IpKey \cup ProjectKey -> requests per window]
    MaxHits,      \* bound on the requests counted in one window
    NoFurtherKey  \* no further key to count under

Key == IpKey \cup ProjectKey

ASSUME ThrottleAssumption ==
    /\ IsFiniteSet(Client) /\ Client # {}
    /\ Cap \in [Key -> Nat \ {0}]
    /\ MaxHits \in Nat
    /\ NoFurtherKey \notin Key

VARIABLES
    counter,   \* [Key -> Nat], 0 when the cache has no such key
    granted,   \* [Key -> Nat], requests the window's counter let through
    req        \* [Client -> what the request does next, and under which key]

throttleVars == <<counter, granted, req>>

Locals == [at   : {"idle", "incr", "add"},
           key  : Key \cup {NoFurtherKey},
           next : ProjectKey \cup {NoFurtherKey}]

Idle == [at |-> "idle", key |-> NoFurtherKey, next |-> NoFurtherKey]

ThrottleTypeOK ==
    /\ counter \in [Key -> Nat]
    /\ granted \in [Key -> Nat]
    /\ req \in [Client -> Locals]
    /\ \A c \in Client : req[c].at # "idle" => req[c].key \in Key

-----------------------------------------------------------------------------

\* check_throttles runs the throttles of get_throttles() in turn.
Arrive(c) ==
    /\ req[c].at = "idle"
    /\ \E ip \in IpKey, project \in ProjectKey :
          req' = [req EXCEPT ![c] = [at |-> "incr", key |-> ip, next |-> project]]
    /\ UNCHANGED <<counter, granted>>

\* The throttle has answered; the next one, if any, is asked.
NextThrottle(c) ==
    req' = [req EXCEPT ![c] =
        IF req[c].next = NoFurtherKey THEN Idle
        ELSE [at |-> "incr", key |-> req[c].next, next |-> NoFurtherKey]]

\* Mutant of WithinCap: the last request of the cap is denied.
WithinCap_Strict(k, count) == count < Cap[k]

WithinCap(k, count) == count <= Cap[k]

\* allow_request answers for the count it obtained.
Decide(k, count) ==
    granted' = IF WithinCap(k, count) THEN [granted EXCEPT ![k] = @ + 1] ELSE granted

\* cache.incr(key, 1): ValueError when the key is missing.
Incr(c) ==
    LET k == req[c].key
    IN  /\ req[c].at = "incr"
        /\ \/ /\ counter[k] \in 1..MaxHits
              /\ counter' = [counter EXCEPT ![k] = @ + 1]
              /\ Decide(k, counter[k] + 1)
              /\ NextThrottle(c)
           \/ /\ counter[k] = 0
              /\ req' = [req EXCEPT ![c].at = "add"]
              /\ UNCHANGED <<counter, granted>>

\* Mutant of Add: the key is set, whether or not it exists.
Add_Overwrites(c) ==
    LET k == req[c].key
    IN  /\ req[c].at = "add"
        /\ counter' = [counter EXCEPT ![k] = 1]
        /\ Decide(k, 1)
        /\ NextThrottle(c)

\* cache.add(key, 1, timeout) does nothing when the key exists by now; the
\* request counts itself as the first one either way.
Add(c) ==
    LET k == req[c].key
    IN  /\ req[c].at = "add"
        /\ counter' = [counter EXCEPT ![k] = IF @ = 0 THEN 1 ELSE @]
        /\ Decide(k, 1)
        /\ NextThrottle(c)

\* The cache drops the key: the window ends.
EndWindow(k) ==
    /\ counter[k] > 0
    /\ counter' = [counter EXCEPT ![k] = 0]
    /\ granted' = [granted EXCEPT ![k] = 0]
    /\ UNCHANGED req

ThrottleInit ==
    /\ counter = [k \in Key |-> 0]
    /\ granted = [k \in Key |-> 0]
    /\ req = [c \in Client |-> Idle]

ThrottleNext ==
    \/ \E c \in Client : Arrive(c) \/ Incr(c) \/ Add(c)
    \/ \E k \in Key : EndWindow(k)

ThrottleSpec == ThrottleInit /\ [][ThrottleNext]_throttleVars

-----------------------------------------------------------------------------
(* Properties *)

\* "The cap holds under concurrent/parallel requests" (throttles.py:9-10) but
\* for the first requests of a window, which do not look at the result of
\* cache.add: a window lets through fewer extra requests than there are
\* workers, however many windows expire while requests are between incr and add.
CapNearlyHolds ==
    \A k \in Key : granted[k] + 1 <= Cap[k] + Cardinality(Client)

\* A request is denied only once its window let Cap requests through: hits
\* that are not granted never use up the cap (throttles.py:68).
DeniedOnlyAtCap ==
    [][\A k \in Key :
          counter'[k] > counter[k] /\ granted'[k] = granted[k] => granted[k] >= Cap[k]]_throttleVars

\* The requests about to add key k because it was missing.
Adding(k) == {c \in Client : req[c].at = "add" /\ req[c].key = k}

Smaller(m, n) == IF m <= n THEN m ELSE n

\* The inductive invariant: in a window, the requests granted beyond those the
\* counter accounts for, and those that still will be, saw the key missing
\* together with the request that created it.
ThrottleInv ==
    /\ ThrottleTypeOK
    /\ \A k \in Key :
          /\ counter[k] = 0 => granted[k] = 0
          /\ granted[k] >= Smaller(counter[k], Cap[k])
          /\ counter[k] > 0 =>
                granted[k] + Cardinality(Adding(k)) + 1
                    <= Smaller(counter[k], Cap[k]) + Cardinality(Client)
=============================================================================
