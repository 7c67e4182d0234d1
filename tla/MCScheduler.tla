---- MODULE MCScheduler ----
EXTENDS Scheduler
CONSTANTS news, prune
====
