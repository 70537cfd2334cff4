---------------------------- MODULE MC_Retention ----------------------------
EXTENDS Retention

CONSTANTS s1, s2, l1

MCConfidence == [e \in Events |-> IF e = s1 THEN 1 ELSE IF e = s2 THEN 3 ELSE 6]
=============================================================================
