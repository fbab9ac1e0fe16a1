------------------------------- MODULE MCFiles ------------------------------
(***************************************************************************)
(* Three files on the disc, one of them asked for in two ways, one with    *)
(* the name of a mount, the special files, what is missing on each volume, *)
(* and names without a slash.                                              *)
(***************************************************************************)
EXTENDS Files

MCPaths == {<<"", "a">>, <<".", "a">>, <<"", "d", "b">>, <<"", "none">>,
            <<"", "proc">>, <<"", "dev", "fb0">>, <<"", "dev", "none">>,
            <<"", "proc", "sys", "kernel", "osrelease">>, <<"", "proc", "none">>,
            <<"keyboard">>, <<"stdin">>}
MCOffsets == {-2, 0, 1, 3}
MCFileSize == [p \in {<<"", "a">>, <<"", "d", "b">>, <<"", "proc">>} |-> IF p = <<"", "a">> THEN 2 ELSE 1]
=============================================================================
