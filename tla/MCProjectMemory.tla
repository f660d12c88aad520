-------------------------- MODULE MCProjectMemory ---------------------------
EXTENDS ProjectMemory, TLC
CONSTANTS a1, a2, b, p, whole, part, A, B
Titles == [t \in Text |-> IF t \in {a1, a2} THEN A ELSE IF t = b THEN B ELSE Plain]
\* A distinctive phrase of a note and of a plain memory, and a short one.
Occurs == [q \in Phrase |-> IF q = whole THEN {b, p} ELSE {p}]
Symmetry == Permutations(Session)
=============================================================================
