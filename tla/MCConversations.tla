--------------------------- MODULE MCConversations ---------------------------
\* Two callers and two runs at once.  The calls are divided between the runs
\* of the checker: those that replace the transcript, those that are refused
\* while a run executes, and those that touch the saved conversations.
EXTENDS Conversations, TLC

CONSTANTS ui, channel, r1, r2, chat, notes

MCBothCallers == {ui, channel}
MCOneCaller == {ui}
MCRuns == {r1, r2}
MCOneRun == {r1}
MCNames == {chat, notes}
MCOneName == {chat}

MCReplacing == {"send", "resume", "clear", "load", "workspace", "scratch", "checkpoint"}
MCRefused == AllOperations \ {"resume", "workspace", "checkpoint"}
MCResuming == {"send", "resume", "checkpoint"}
MCMoving == {"send", "start", "workspace"}

MCSymmetry == Permutations(MCBothCallers) \cup Permutations(MCRuns)
=============================================================================
