---- MODULE MCApiKeys ----
EXTENDS ApiKeys
CONSTANTS k1, r1, r2, o1, o2
====
