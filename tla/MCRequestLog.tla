---------------------------- MODULE MCRequestLog ----------------------------
\* Three requests of one API key.  r1 and r2 carry the metadata key under two
\* values; r2 belongs to the Claude Code session, r3 to Claude Code but to none.
EXTENDS RequestLog

CONSTANTS r1, r2, r3, feature, v1, v2, s1

MCMetaOf(r) ==
    CASE r = r1 -> [k \in {feature} |-> v1]
      [] r = r2 -> [k \in {feature} |-> v2]
      [] OTHER  -> [k \in {} |-> v1]

MCSessionOf(r) == IF r = r3 THEN NoSession ELSE s1
=============================================================================
