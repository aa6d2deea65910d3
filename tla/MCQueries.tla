------------------------------ MODULE MCQueries ------------------------------
(***************************************************************************)
(* Two projects; a tick is an hour, three hours a day.  Three events of    *)
(* one error reach the project through different wrappers; the events,     *)
(* markers, payloads and tokens are the few that differ for a query.       *)
(***************************************************************************)
EXTENDS Listings

CONSTANTS p1, p2, ann

MCSpan == ("7d" :> 1)

(* Events *)

Name(name, noise) == [name |-> name, noise |-> noise, secret |-> "none"]
Leaking(name, secret) == [name |-> name, noise |-> 0, secret |-> secret]

Line(form, file, noise, function, vendor) ==
    [form |-> form, file |-> Name(file, noise), function |-> Name(function, 0),
     vendor |-> vendor, skipped |-> FALSE]
Vendor(noise) == Line("python", "django.py", noise, "get_response", TRUE)
Header == [Line("other", "Traceback", 0, "", FALSE) EXCEPT !.skipped = TRUE]
Source == Line("other", "return pay(order)", 0, "", FALSE)
View(noise) == Line("python", "views.py", noise, "checkout", FALSE)
Pay(noise) == Line("python", "pay.py", noise, "charge", FALSE)
AsFrame(line, in_app) ==
    [file |-> line.file, function |-> line.function, vendor |-> line.vendor, in_app |-> in_app]

Event(project, message, trace, frames, row) ==
    [project |-> project, message |-> message, trace |-> trace, frames |-> frames,
     own_frames |-> <<>>, endpoint |-> {}, user_id |-> {}] @@ row
Row(level, env, service, release, metadata) ==
    [level |-> level, environment |-> {env}, service |-> service, release |-> release,
     metadata |-> metadata]

NoMetadata == [p \in {} |-> {}]
AllPaths == [p \in {"release", "version", "app_version"} |-> IF p = "release" THEN {"v1"} ELSE {"x"}]

MCContent ==
    {Event(p1, Leaking({"timeout"}, "token1"), <<Header, Vendor(1), View(1), Source, Pay(1)>>, <<>>,
           Row("error", "prod", {"api"}, {"v1"}, [p \in {"release"} |-> {"v1"}])),
     Event(p1, Leaking({"timeout"}, "token2"), <<Vendor(2), Vendor(3), Vendor(1), View(2), Pay(2)>>, <<>>,
           Row("fatal", "dev", {"api"}, {}, AllPaths)),
     Event(p1, Leaking({"timeout"}, "token3"), <<>>,
           <<AsFrame(View(3), "missing"), AsFrame(Vendor(1), "missing"), AsFrame(Pay(1), "true")>>,
           Row("info", "prod", {}, {}, NoMetadata)),
     [Event(p2, Name({"denied"}, 1), <<Line("other", "at proxy", 1, "", FALSE)>>, <<>>,
            Row("warning", "prod", {"web", "timeout"}, {"v2"}, NoMetadata))
      EXCEPT !.own_frames = <<AsFrame(View(1), "true")>>]}

(* Deployments *)

Marker1(version, status, ago, fixes) ==
    [project |-> p1, version |-> version, status |-> status, ago |-> ago, fixes |-> fixes,
     auto_resolve |-> TRUE]

MCMarker ==
    {Marker1({"v2"}, "completed", 2, {}), Marker1({"v2"}, "completed", 7, {}),
     Marker1({"v3"}, "healthy", -1, {1})}

Ref(kind, whole, bare) == {[kind |-> kind, whole |-> whole, bare |-> bare]}
Hook(host, kind, state, ref, fixes) ==
    [host |-> host, project |-> p1, kind |-> kind, state |-> state, ref |-> ref, tag |-> {},
     name |-> {}, sha |-> {}, fixes |-> fixes]

\* A failed deployment of the release v1, a pushed branch, and a hook of no deployment.
MCPayload ==
    {Hook("github", "deployment_status", "failure", Ref("none", "v1", "v1"), {1}),
     Hook("gitlab", "tag_push", "", Ref("tag", "refs/tags/v3", "v3"), {1}),
     Hook("github", "release", "deleted", {}, {})}

(* Queries *)

MCQuery == {Everything, [Everything EXCEPT !.level = {"error"}, !.severity = {"high"}]}

Typed(key, value, raw) == [key |-> key, value |-> value, raw |-> raw]

MCToken ==
    {Typed("none", "timeout", "timeout"), Typed("is", "open", "is:open"),
     Typed("is", "fatal", "is:fatal"), Typed("is", "fix_verified", "is:fix_verified"),
     Typed("is", "unassigned", "is:unassigned"), Typed("status", "resolved", "status:resolved"),
     Typed("severity", "high", "severity:high"), Typed("assigned", ann, "assigned:ann"),
     Typed("project", p1, "project:p1"), Typed("env", "prod", "env:prod"),
     Typed("service", "api", "service:api"), Typed("user", "u", "user:u"),
     Typed("release", "v1", "release:v1"), Typed("metadata", "x", "metadata.tag:x")}
=============================================================================
