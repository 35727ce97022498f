----------------------------- MODULE MCLogsView -----------------------------
(***************************************************************************)
(* Small instance of LogsView: the identity ids of MCVisibility, log rows  *)
(* with those ids, one more that shares the "a" prefix and one that no    *)
(* identity record has, up to two rows and two constructions.             *)
(***************************************************************************)
EXTENDS LogsView

MCRawIds == {<<"a", "b">>, <<"a", "c">>, <<"b">>}

MCLogRawIds == {<<"a", "b">>, <<"a", "d">>, <<"d">>}

=============================================================================
