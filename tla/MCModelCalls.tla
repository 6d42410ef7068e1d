----------------------------- MODULE MCModelCalls -----------------------------
(* Two calls of one review, which overlap or share a permit.               *)
EXTENDS ModelCalls

CONSTANTS r1, c1, c2

OneReview == [c \in {c1, c2} |-> r1]
NoneOrBoth == {{}, {"rps", "tpm"}}

=============================================================================
