---- MODULE MCNewsCache ----
EXTENDS NewsCache
CONSTANT news
MCEarlier == {{}, {<<1, 1>>, <<3, 1>>}}
====
