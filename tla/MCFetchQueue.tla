---------------------------- MODULE MCFetchQueue ----------------------------
(* One pull request of two parts, whose webhook may be delivered at any *)
(* time and again, and the poller beside it.                            *)
EXTENDS FetchQueue

CONSTANTS a1, h1

OneArticle == {a1}
OneHook == {h1}
=============================================================================
