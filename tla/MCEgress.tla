---- MODULE MCEgress ----
EXTENDS Egress
CONSTANTS r1, r2
====
