-------------------------- MODULE MCEmbargoRelease --------------------------
(* Small instances of EmbargoRelease.                                      *)
EXTENDS EmbargoRelease

CONSTANT p1

OnePatch == {p1}
=============================================================================
