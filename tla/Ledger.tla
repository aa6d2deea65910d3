------------------------------- MODULE Ledger -------------------------------
(***************************************************************************)
(* What ingestion promises of an error group's count and events, however   *)
(* many statements and retries it takes: an occurrence is counted once, in *)
(* one group, in one step; only then, and at most once, is its event       *)
(* stored, and in that group.  An occurrence may stay counted and never    *)
(* stored (its request failed or was killed), but not the other way round. *)
(***************************************************************************)
EXTENDS Naturals, FiniteSets

CONSTANTS Request, Group, NoGroup

VARIABLES
    count,    \* [Group -> Nat]
    entry,    \* [Request -> the group its occurrence was counted in, or NoGroup]
    stored    \* [Request -> the group its event is stored in, or NoGroup]

ledgerVars == <<count, entry, stored>>

LedgerInit ==
    /\ entry \in [Request -> Group \cup {NoGroup}]
    /\ stored = entry
    /\ count = [g \in Group |-> Cardinality({r \in Request : entry[r] = g})]

CountOccurrence(r, g) ==
    /\ entry[r] = NoGroup
    /\ entry' = [entry EXCEPT ![r] = g]
    /\ count' = [count EXCEPT ![g] = @ + 1]
    /\ UNCHANGED stored

StoreOccurrence(r) ==
    /\ entry[r] # NoGroup /\ stored[r] = NoGroup
    /\ stored' = [stored EXCEPT ![r] = entry[r]]
    /\ UNCHANGED <<count, entry>>

LedgerNext == \E r \in Request : StoreOccurrence(r) \/ \E g \in Group : CountOccurrence(r, g)

LedgerSpec == LedgerInit /\ [][LedgerNext]_ledgerVars
=============================================================================
