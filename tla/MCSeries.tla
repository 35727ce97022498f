------------------------------ MODULE MCSeries ------------------------------
(***************************************************************************)
(* Small instances of Series.  Truncation length 1 stands for 12: the      *)
(* sample ids "ab" and "ac" are two containers whose short ids collide,    *)
(* and "ab" is the only one the identity feed can name in full.            *)
(***************************************************************************)
EXTENDS Series

MCRawIds == {<<"a", "b">>, <<"b">>}

MCSampleIds == {<<"a", "b">>, <<"a", "c">>}

(* A metric series of a container the identity feed does not hold.         *)
MCStrayIds == {<<"a", "b">>, <<"c">>}

(* One sample id, for the bucketing run. *)
MCOneId == {<<"a", "b">>}

=============================================================================
