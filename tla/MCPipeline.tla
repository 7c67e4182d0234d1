---- MODULE MCPipeline ----
EXTENDS Pipeline
CONSTANTS r1, r2, weather, search
MCLimit == [s \in Scopes |-> IF s = search THEN 1 ELSE 2]
====
