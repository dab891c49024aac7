---------------------------- MODULE MCOrgWorkers ----------------------------
\* Two tokens of o1, one of o2.
EXTENDS OrgWorkers

CONSTANTS o1, o2, t1, t2, t3, a1, a2

MCTokenOrg(t) == IF t = t3 THEN o2 ELSE o1
=============================================================================
