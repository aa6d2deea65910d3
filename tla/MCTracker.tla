----------------------------- MODULE MCTracker -----------------------------
(***************************************************************************)
(* Small instances of Tracker for TLC.                                     *)
(***************************************************************************)
EXTENDS Tracker, TLC

CONSTANTS r1, r2, r3, r4, g1, g2, f1, low, high

Row(g, status) ==
    [group |-> g, status |-> status, resolvedAt |-> status = "resolved", severity |-> low]

\* A project without events; a row table with the given incidents of g1 in
\* creation order; and the seed of a project whose request r0 stored one event.
EmptySeed ==
    [groups    |-> [g \in Group |-> [fp |-> Unused, count |-> 0]],
     incidents |-> [i \in Incident |-> NoRow],
     events    |-> [r \in Request |-> NoGroup]]

SeedWith(r0, statuses) ==
    [groups    |-> [EmptySeed.groups EXCEPT ![g1] = [fp |-> f1, count |-> 1]],
     incidents |-> [i \in Incident |->
                       IF i \in DOMAIN statuses THEN Row(g1, statuses[i]) ELSE NoRow],
     events    |-> [EmptySeed.events EXCEPT ![r0] = g1]]

\* The first event of an error, and its return after one incident of it was
\* brought to each status, or after a first one was ignored and a second one
\* closed.
BurstSeeds ==
    {EmptySeed}
    \cup {SeedWith(r4, <<s>>) : s \in Status}
    \cup {SeedWith(r4, <<"ignored", s>>) : s \in Reopenable}

MixedSeeds == {SeedWith(r4, <<"ignored", "resolved">>), SeedWith(r4, <<"open">>)}

SmallSeeds == {EmptySeed, SeedWith(r4, <<"open">>), SeedWith(r4, <<"resolved">>)}

AllIngest == Request
TwoIngest == {r1, r2}
OneIngest == {r1}
TwoEdit == {r2, r3}
Nobody == {}

Patch(status, severity) == [kind |-> "patch", status |-> status, severity |-> severity]
VerifyFix(kind, status) == [kind |-> kind, status |-> status, severity |-> Unset]

MixedOps ==
    {Patch("open", Unset), Patch(Unset, high), VerifyFix("deploy", "fix_verified"),
     [kind |-> "resolve", status |-> "resolved", severity |-> Unset],
     [kind |-> "bulk", status |-> "open", severity |-> Unset]}

=============================================================================
