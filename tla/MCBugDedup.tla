----------------------------- MODULE MCBugDedup -----------------------------
(* Instances of BugDedup for TLC: the daemon analyses two candidates, a    *)
(* scan one.                                                               *)
EXTENDS BugDedup

CONSTANTS b1, b2, b3, daemon, scan

DaemonAndScan == [b \in Bugs |-> IF b = b3 THEN scan ELSE daemon]
OneDefect == [b \in Bugs |-> "use after free"]
=============================================================================
