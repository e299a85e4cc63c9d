------------------------------ MODULE MCGateway ------------------------------
(* Instances of Gateway for TLC: a datagram, a client connection with two   *)
(* messages, the second of which does not parse, and two destinations.      *)
EXTENDS Gateway, Routes

MCSource == {"tcp", "udp"}
MCConnection == {"tcp"}
MCSourceOf == <<"udp", "tcp", "tcp">>
MCVerdict == <<"good", "good", "parse">>
MCMatching == <<{1, 2}, {1}>>
MCDestOf == <<"tak", "radio">>
MCDest == {"tak", "radio"}
MCTcpDest == {"tak"}

\* The routes file and the CTOs that give MCMatching: everything that is CoT
\* XML to the one, what comes over UDP to the other.  The last has no CTO.
MCRoutes == <<
    [AnyCto EXCEPT !.source_protocol = {"cot_xml"}],
    [AnyCto EXCEPT !.source_system_glob = {"cot-xml-udp:a", "cot-xml-udp:b"}]>>
MCCto == <<
    [source_system |-> "cot-xml-udp:a", source_protocol |-> "cot_xml", object_class |-> "track"],
    [source_system |-> "cot-xml-tcp:a", source_protocol |-> "cot_xml", object_class |-> "track"]>>

ASSUME RoutesMatch == MatchedBy(MCRoutes, MCCto) = MCMatching
=============================================================================
