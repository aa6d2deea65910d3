----------------------------- MODULE MCRegroup -----------------------------
(***************************************************************************)
(* Small instances of Regroup: legacy groups g1 and g2, whose events the   *)
(* current algorithm gives the fingerprint fnew, and possibly the group g3 *)
(* of fnew, which the first ingest after the algorithm changed created.    *)
(* fother is the fingerprint of an error never seen before.                *)
(***************************************************************************)
EXTENDS Regroup, TLC

CONSTANTS a, b, c, d, job, g1, g2, g3, g4, f1, f2, fnew, fother, low

\* a and b are events of the legacy groups; c and d arrive or are stored in g3.
MCCurrentFp == [r \in Request |-> IF r \in {a, b} THEN fnew ELSE Unused]

Row(g, status) ==
    [group |-> g, status |-> status, resolvedAt |-> status = "resolved", severity |-> low]

Table(S, rows, default) == [x \in S |-> IF x \in DOMAIN rows THEN rows[x] ELSE default]

\* One incident per group, older groups first.
Legacy(s1, s2) ==
    [groups    |-> Table(Group, g1 :> [fp |-> f1, count |-> 1] @@ g2 :> [fp |-> f2, count |-> 1],
                         [fp |-> Unused, count |-> 0]),
     incidents |-> Table(Incident, <<Row(g1, s1), Row(g2, s2)>>, NoRow),
     events    |-> Table(Request, a :> g1 @@ b :> g2, NoGroup)]

WithCurrent(s1, s2, s3) ==
    [groups    |-> Table(Group, g1 :> [fp |-> f1, count |-> 1] @@ g2 :> [fp |-> f2, count |-> 1]
                                @@ g3 :> [fp |-> fnew, count |-> 1],
                         [fp |-> Unused, count |-> 0]),
     incidents |-> Table(Incident, <<Row(g1, s1), Row(g2, s2), Row(g3, s3)>>, NoRow),
     events    |-> Table(Request, a :> g1 @@ b :> g2 @@ c :> g3, NoGroup)]

AllSeeds == {Legacy(s1, s2) : s1, s2 \in Status} \cup {WithCurrent(s1, s2, s3) : s1, s2, s3 \in Status}

TheJob == {job}
EditOps == {[kind |-> "patch", status |-> "open", severity |-> Unset],
            [kind |-> "deploy", status |-> "fix_verified", severity |-> Unset]}
=============================================================================
