---- MODULE MCShutdown ----
EXTENDS Shutdown
CONSTANTS redis, toolAbort, httpServer, scheduler, pool, idle, busy, j1, j2, sigterm, sigint
ServerBoot == <<redis, toolAbort, httpServer>>
WorkerBoot == <<scheduler>>
QuitFallback == [n \in {redis} |-> 1]
====
