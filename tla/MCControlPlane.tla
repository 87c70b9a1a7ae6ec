--------------------------- MODULE MCControlPlane ---------------------------
\* A contract with up to two checks, two evidence ids and one revision.
EXTENDS ControlPlane

CONSTANTS mutation, project, e1, e2

MCChecks == {mutation, project}
MCEvidence == {e1, e2}
=============================================================================
