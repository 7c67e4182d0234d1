------------------------------- MODULE ApiKeys -------------------------------
(***************************************************************************)
(* API keys: their rows in Postgres (db/repos/api-keys.ts), the operators' *)
(* commands that change them (cli/keys/...), and authenticate()            *)
(* (core/auth.ts) with its negative cache in Redis.  Each statement and    *)
(* each Redis command is one action; the commands that are sent without    *)
(* being awaited take effect at any later time.                            *)
(***************************************************************************)
EXTENDS Naturals

CONSTANTS Keys,      \* keys; each is created at most once (the hash is unique)
          Requests,  \* bound: authentications and cache writes under way
          Operators, \* bound: CLI commands under way
          Nobody,    \* no key
          WithRedis, \* what may happen: create() is handed a Redis client, or not (the CLI)
          Reliable   \* whether every Redis command takes effect

ASSUME ApiKeysAssumption ==
  /\ Nobody \notin Keys
  /\ WithRedis \in SUBSET BOOLEAN
  /\ Reliable \in BOOLEAN

VARIABLES status,    \* api_keys.status, "absent" for no row
          deletedAt, \* keys whose deleted_at is set
          miss,      \* keys with an auth:miss entry
          clearing,  \* keys whose DEL by create() is on its way
          pc,        \* where a request stands: in authenticate() or with its verdict
          presented, \* the key a request presents
          command,   \* the command an operator has checked and not executed
          target     \* its key

vars == <<status, deletedAt, miss, clearing, pc, presented, command, target>>

Status == {"absent", "active", "blacklisted", "deleted"}
Verdict == {"accepted", "unknown", "refused"}

TypeOK ==
  /\ status \in [Keys -> Status]
  /\ deletedAt \subseteq Keys
  /\ miss \subseteq Keys
  /\ clearing \subseteq Keys
  /\ pc \in [Requests -> {"idle", "lookup", "storing"} \union Verdict]
  /\ presented \in [Requests -> Keys \union {Nobody}]
  /\ command \in [Operators -> {"none", "blacklist", "unblacklist", "delete"}]
  /\ target \in [Operators -> Keys \union {Nobody}]

Init ==
  /\ status = [k \in Keys |-> "absent"]
  /\ deletedAt = {}
  /\ miss = {}
  /\ clearing = {}
  /\ pc = [r \in Requests |-> "idle"]
  /\ presented = [r \in Requests |-> Nobody]
  /\ command = [o \in Operators |-> "none"]
  /\ target = [o \in Operators |-> Nobody]

keyVars == <<status, deletedAt>>
authVars == <<pc, presented>>
cliVars == <<command, target>>

-----------------------------------------------------------------------------
(* authenticate()                                                          *)

(* The GET finds no entry, or fails: go on to the database.                *)
CacheMiss(r, k) ==
  /\ pc[r] = "idle"
  /\ k \notin miss \/ ~Reliable
  /\ pc' = [pc EXCEPT ![r] = "lookup"]
  /\ presented' = [presented EXCEPT ![r] = k]
  /\ UNCHANGED <<keyVars, miss, clearing, cliVars>>

(* The GET finds an entry: "unknown key" without a look at the database.   *)
RejectCached(r, k) ==
  /\ pc[r] = "idle"
  /\ k \in miss
  /\ pc' = [pc EXCEPT ![r] = "unknown"]
  /\ presented' = [presented EXCEPT ![r] = k]
  /\ UNCHANGED <<keyVars, miss, clearing, cliVars>>

(* findByHash() finds no row: "unknown key", and the SET is sent.          *)
RejectUnknown(r) ==
  /\ pc[r] = "lookup"
  /\ status[presented[r]] = "absent"
  /\ pc' = [pc EXCEPT ![r] = "storing"]
  /\ UNCHANGED <<keyVars, miss, clearing, presented, cliVars>>

(* findByHash() finds a row: its status decides.                           *)
Decide(r) ==
  /\ pc[r] = "lookup"
  /\ status[presented[r]] # "absent"
  /\ pc' = [pc EXCEPT ![r] = IF status[presented[r]] = "active" THEN "accepted" ELSE "refused"]
  /\ UNCHANGED <<keyVars, miss, clearing, presented, cliVars>>

(* The request with its verdict has been answered.                         *)
Reply(r) ==
  /\ pc[r] \in Verdict
  /\ pc' = [pc EXCEPT ![r] = "idle"]
  /\ presented' = [presented EXCEPT ![r] = Nobody]
  /\ UNCHANGED <<keyVars, miss, clearing, cliVars>>

(* The SET takes effect, or fails.                                         *)
StoreMiss(r) ==
  /\ pc[r] = "storing"
  /\ \/ miss' = miss \union {presented[r]}
     \/ ~Reliable /\ miss' = miss
  /\ pc' = [pc EXCEPT ![r] = "idle"]
  /\ presented' = [presented EXCEPT ![r] = Nobody]
  /\ UNCHANGED <<keyVars, clearing, cliVars>>

(* Mutant: entries are stored without a TTL.                               *)
MissForever(k) ==
  /\ k \in miss
  /\ miss' = miss
  /\ UNCHANGED <<keyVars, clearing, authVars, cliVars>>

(* The entry's TTL.                                                        *)
ExpireMiss(k) ==
  /\ k \in miss
  /\ miss' = miss \ {k}
  /\ UNCHANGED <<keyVars, clearing, authVars, cliVars>>

-----------------------------------------------------------------------------
(* keys create: the INSERT; the DEL is sent after it.                      *)
Create(k) ==
  /\ status[k] = "absent"
  /\ status' = [status EXCEPT ![k] = "active"]
  /\ \E redis \in WithRedis : clearing' = IF redis THEN clearing \union {k} ELSE clearing
  /\ UNCHANGED <<deletedAt, miss, authVars, cliVars>>

(* The DEL takes effect, or fails.                                         *)
ClearMiss(k) ==
  /\ k \in clearing
  /\ clearing' = clearing \ {k}
  /\ \/ miss' = miss \ {k}
     \/ ~Reliable /\ miss' = miss
  /\ UNCHANGED <<keyVars, authVars, cliVars>>

(* A command finds its key and makes its check; only unblacklist has one.  *)
(* The operator is asked to confirm.                                       *)
CommandCheck(o, c, k) ==
  /\ command[o] = "none"
  /\ status[k] # "absent"
  /\ c = "unblacklist" => status[k] = "blacklisted"
  /\ command' = [command EXCEPT ![o] = c]
  /\ target' = [target EXCEPT ![o] = k]
  /\ UNCHANGED <<keyVars, miss, clearing, authVars>>

CommandDone(o) ==
  /\ command' = [command EXCEPT ![o] = "none"]
  /\ target' = [target EXCEPT ![o] = Nobody]
  /\ UNCHANGED <<miss, clearing, authVars>>

Abort(o) ==
  /\ command[o] # "none"
  /\ CommandDone(o)
  /\ UNCHANGED keyVars

(* UPDATE ... SET status = 'blacklisted' WHERE id = $1                     *)
Blacklist(o) ==
  /\ command[o] = "blacklist"
  /\ status' = [status EXCEPT ![target[o]] = "blacklisted"]
  /\ CommandDone(o)
  /\ UNCHANGED deletedAt

(* Mutant: the UPDATE trusts the check made before the confirmation.       *)
UnblacklistUnguarded(o) ==
  /\ command[o] = "unblacklist"
  /\ status' = [status EXCEPT ![target[o]] = "active"]
  /\ CommandDone(o)
  /\ UNCHANGED deletedAt

(* UPDATE ... SET status = 'active' WHERE id = $1 AND status = 'blacklisted' *)
Unblacklist(o) ==
  /\ command[o] = "unblacklist"
  /\ status' = IF status[target[o]] = "blacklisted"
               THEN [status EXCEPT ![target[o]] = "active"] ELSE status
  /\ CommandDone(o)
  /\ UNCHANGED deletedAt

(* UPDATE ... SET status = 'deleted', deleted_at = now() WHERE id = $1     *)
SoftDelete(o) ==
  /\ command[o] = "delete"
  /\ status' = [status EXCEPT ![target[o]] = "deleted"]
  /\ deletedAt' = deletedAt \union {target[o]}
  /\ CommandDone(o)

Next ==
  \/ \E r \in Requests :
       \/ \E k \in Keys : CacheMiss(r, k) \/ RejectCached(r, k)
       \/ RejectUnknown(r)
       \/ Decide(r)
       \/ Reply(r)
       \/ StoreMiss(r)
  \/ \E k \in Keys : ExpireMiss(k) \/ Create(k) \/ ClearMiss(k)
  \/ \E o \in Operators :
       \/ \E c \in {"blacklist", "unblacklist", "delete"}, k \in Keys : CommandCheck(o, c, k)
       \/ Abort(o)
       \/ Blacklist(o)
       \/ Unblacklist(o)
       \/ SoftDelete(o)

Spec == Init /\ [][Next]_vars

(* A sent command takes effect or fails, and Redis expires its entries; a  *)
(* lookup in the database may stay without an answer.                      *)
FairSpec ==
  /\ Spec
  /\ \A r \in Requests : WF_vars(StoreMiss(r))
  /\ \A k \in Keys : WF_vars(ExpireMiss(k))

-----------------------------------------------------------------------------
(* No command, however long its operator took to confirm it, takes a       *)
(* deleted key back to active: unblacklist's UPDATE repeats its check.     *)
NoDirectReactivation ==
  [][\A k \in Keys : status[k] = "deleted" => status'[k] # "active"]_vars

(* A stale cached miss heals: from some time on a key that exists is       *)
(* looked up in the database.                                              *)
CreatedKeyUsable ==
  \A k \in Keys : [](status[k] # "absent" => <>[](k \notin miss))

(* OPERATIONS.md, cli/keys/delete.ts, api-keys.ts: a deleted key is never  *)
(* active again.                                                           *)
DeletedForever == \A k \in deletedAt : status[k] # "active"

=============================================================================
