---------------------------- MODULE MCVisibility ----------------------------
(***************************************************************************)
(* Small instance of Visibility.  Raw ids "ab", "ac" and "b" with a        *)
(* truncation length of 1 stand for 13-character ids sharing their first  *)
(* 12 characters: "ab" and "ac" both become "a".                           *)
(***************************************************************************)
EXTENDS Visibility

MCRawIds == {<<"a", "b">>, <<"a", "c">>, <<"b">>}

=============================================================================
