---------------------------- MODULE MCRunControl ----------------------------
\* Two contents, turns that advertise every tool or none, two tool calls.
EXTENDS RunControl

CONSTANTS v1, v2, verdict

MCChecks == {MutationCheck, ProjectCheck}
MCContents == {v1, v2}
MCEvidence == {v1, v2, verdict}
MCRoutings == {{}, Tools}
=============================================================================
