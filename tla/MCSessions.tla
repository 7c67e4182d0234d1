---- MODULE MCSessions ----
EXTENDS Sessions
CONSTANTS r1, r2, alice, bob, s1, s2, s3
====
