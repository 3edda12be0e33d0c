------------------------------- MODULE MCAuth -------------------------------
(* Auth for TLC: the auth host is a site too; one site has a page and an   *)
(* artifact, so that two tabs can ask it for different things.             *)
EXTENDS Auth

CONSTANTS h1, auth

MCWanted == {<<h1, "page">>, <<h1, "artifact">>, <<auth, "page">>}
=============================================================================
