-------------------------- MODULE MCAccessControl --------------------------
\* Two users, one group, one space and two requests at a time.
EXTENDS AccessControl, TLC

CONSTANTS u1, u2, r1, r2

\* Users and slots are interchangeable.
Interchangeable == Permutations({u1, u2}) \cup Permutations({r1, r2})
=============================================================================
