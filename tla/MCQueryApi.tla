------------------------------ MODULE MCQueryApi ------------------------------
(* A client that lists the table of MCOpstore: the two features of the      *)
(* first ingest have one event time, and uids not in the order of the file; *)
(* the message of the stream is stored and not listed.                      *)
EXTENDS QueryApi, MCOpstore

MCDated == {"stream"}
MCEventTime == [m \in Msg |-> m[1]]
MCUidRank == [m \in Msg |-> 3 * m[1] - m[2]]
=============================================================================
