--------------------------- MODULE MCUsagePipeline ---------------------------
\* Requests of one org; no metadata keys and no Claude Code sessions, which
\* RequestLog is checked with on its own.
EXTENDS UsagePipeline

CONSTANTS r1, r2, o1

MCOrgOf(r)     == o1
MCMetaOf(r)    == [k \in {} |-> 0]
MCSessionOf(r) == NoSession
=============================================================================
