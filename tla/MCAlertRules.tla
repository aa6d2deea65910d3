---------------------------- MODULE MCAlertRules ----------------------------
EXTENDS AlertRules, TLC
CONSTANTS mail, hook, room, r1, r2, r3

Body(channel, target) == [channel |-> channel, target |-> target]

\* The host of the hook may come to resolve to a reserved address as well.
MCResolutions == {(hook :> {"public"}), (hook :> {"public", "reserved"})}

MCNewRule == {Body({"slack"}, {room}), Body({"webhook"}, {hook})}
MCPatch == {Body({"email"}, {mail}), Body({"slack"}, {}), Body({}, {hook})}

Symmetric == Permutations(Request)
=============================================================================
