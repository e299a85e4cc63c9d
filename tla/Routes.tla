-------------------------------- MODULE Routes --------------------------------
(***************************************************************************)
(* Which CTOs a route takes: _matches of services/gateway/route_engine.py  *)
(* and the match part of a route in routes_model.py.                       *)
(*                                                                         *)
(* A field of a match is the set of the values it lets through: a single   *)
(* value, for source_system_glob the source systems that fit the pattern.  *)
(***************************************************************************)
Unset == "unset"    \* a field of RouteMatch that the YAML file leaves out

Allows(field, value) == field = {Unset} \/ value \in field

Matches(cto, match) ==
    /\ Allows(match.source_system_glob, cto.source_system)
    /\ Allows(match.source_protocol, cto.source_protocol)
    /\ Allows(match.object_class, cto.object_class)

\* RouteMatch(): a route without a match takes everything.
AnyCto ==
    [source_system_glob |-> {Unset}, source_protocol |-> {Unset}, object_class |-> {Unset}]

\* The messages, by number, that each route takes.
MatchedBy(routes, ctos) ==
    [r \in DOMAIN routes |-> {m \in DOMAIN ctos : Matches(ctos[m], routes[r])}]

===============================================================================
