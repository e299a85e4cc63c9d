------------------------------ MODULE MCOpstore ------------------------------
(* Instances of Opstore for TLC: a file that is ingested twice, first with  *)
(* two features, the same file by another path, and a stream.               *)
EXTENDS Opstore

MCKey == {"folder", "upload", "stream"}
MCFileKey == {"folder", "upload"}
MCKeyOf == <<"folder", "folder", "upload", "stream">>
MCSizeOf == <<2, 1, 1, 1>>

\* One file, ingested twice.
MCFolder == {"folder"}
MCKeyOfFolder == <<"folder", "folder">>
MCSizeOfFolder == <<2, 1>>
MCNone == {}

\* The same, and a message that does not parse.
MCStopKey == {"folder", "stream"}
MCStopKeyOf == <<"folder", "folder", "stream">>
MCStopSizeOf == <<2, 1, 1>>
MCStopMalformed == {<<3, 1>>}
=============================================================================
