------------------------------ MODULE MCFixCheck ------------------------------
(* Two bugs, of which only b1 has a commit that may fix it, the second one *)
(* of the mainline.                                                        *)
EXTENDS FixCheck, TLC

CONSTANTS b1, b2, w1, w2

SecondTouchesOne == [b \in Bugs |-> IF b = b1 THEN {2} ELSE {}]

(* To keep the instance small b2 only competes with b1 for the places of a *)
(* sweep: it is filed first and on the mainline, its analysis ends before  *)
(* b1 is published, and nobody triages it.                                 *)
OneOfInterest ==
    /\ IF life[b2] = "absent" THEN head = 0
                              ELSE verified[b2] # Elsewhere /\ decided[b2] = "none"
    /\ life[b2] = "absent" \/ owner[b2] = Analysis => life[b1] = "absent"

Symmetric == Permutations(Workers)

=============================================================================
