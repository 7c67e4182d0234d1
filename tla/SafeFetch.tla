----------------------------- MODULE SafeFetch -----------------------------
(***************************************************************************)
(* fetchSafe (shared/net/http.ts): one call, from its URL over the         *)
(* redirects to the capped body.  Without a proxy pool the addresses of a  *)
(* hop are looked up once, checked, and the connection is pinned to them;  *)
(* with a pool the guard of shared/net/ssrf.ts looks the host up and the   *)
(* connection is fetchExternal's (module Egress), which resolves it again. *)
(* DNS and the peers are external: every lookup may answer differently.    *)
(*                                                                         *)
(* The test seams (fetcher, guards, resolvers passed in) are left out.     *)
(***************************************************************************)
EXTENDS Integers, Sequences

CONSTANTS Hosts,        \* the hosts URLs name
          Addresses,    \* what DNS may answer
          Private,      \* those isPrivateAddress holds for (module Addresses)
          MaxRecords,   \* bound: records of one DNS answer
          MaxRedirects, \* options.maxRedirects
          MaxBytes,     \* options.maxBytes
          MaxChunk      \* bound: bytes of a chunk, and of a body past the limit

ASSUME SafeFetchAssumption ==
  /\ Private \subseteq Addresses
  /\ MaxRecords \in Nat
  /\ MaxRedirects \in Nat
  /\ MaxBytes \in Nat
  /\ MaxChunk \in Nat

(* What new URL makes of a text: a host, or a URL fetchSafe refuses.       *)
Urls == Hosts \union {"malformed", "unsupported"}

(* A status of each class the code tells apart.                            *)
Statuses == {200, 204, 304, 404, 500, 600}

(* fetch leaves out the body of these; new Response refuses to have one.   *)
NullBody(s) == s \in {204, 205, 304}
Unbuildable(s) == NullBody(s) \/ s \notin 200..599

Answers == UNION {[1..n -> Addresses] : n \in 0..MaxRecords}
AddressesOf(answer) == {answer[i] : i \in DOMAIN answer}

VARIABLES phase,     \* "idle"; "lookup", "connect", "body"; "returned", "thrown",
                     \* "uncaught": an exception outside of every promise
          proxied,   \* the pool is not empty
          aborted,   \* combinedSignal.aborted
          host,      \* current.hostname
          redirects,
          records,   \* pinned: the records left to try, the first one in use
          size,      \* bytes of the body the peer sends
          total,     \* bytes read
          kept,      \* bytes of buffer
          truncated, \* wireTruncated
          status,    \* of the response that is read or returned; 0 before
          failure,   \* what is thrown: "validation", "transient", "error" for an Error
                     \* of fetchSafe, "raw" for one it passes on; "none"
          checked    \* history: the host and the addresses of the last lookup that passed

body == <<size, total, kept, truncated, status>>
fetchVars == <<phase, proxied, aborted, host, redirects, records, body, failure, checked>>

FetchTypeOK ==
  /\ phase \in {"idle", "lookup", "connect", "body", "returned", "thrown", "uncaught"}
  /\ proxied \in BOOLEAN
  /\ aborted \in BOOLEAN
  /\ host \in Urls
  /\ redirects \in 0..(MaxRedirects + 1)
  /\ records \in Seq(Addresses)
  /\ size \in Nat
  /\ total \in Nat
  /\ kept \in Nat
  /\ truncated \in BOOLEAN
  /\ status \in Statuses \union {0}
  /\ failure \in {"none", "validation", "transient", "error", "raw"}
  /\ checked \in [host : Urls, addresses : SUBSET Addresses]

FetchInit ==
  /\ phase = "idle"
  /\ proxied = FALSE
  /\ aborted = FALSE
  /\ host = "malformed"
  /\ redirects = 0
  /\ records = <<>>
  /\ size = 0 /\ total = 0 /\ kept = 0 /\ truncated = FALSE /\ status = 0
  /\ failure = "none"
  /\ checked = [host |-> "malformed", addresses |-> {}]

-----------------------------------------------------------------------------
(* The redirect loop.                                                      *)

Throw(f) == phase' = "thrown" /\ failure' = f

(* The head of the loop with the URL `to`; stopped: the signal at that     *)
(* time.                                                                   *)
Go(to, stopped) ==
  IF to \in Hosts /\ ~stopped
  THEN phase' = "lookup" /\ host' = to /\ UNCHANGED failure
  ELSE Throw("error") /\ UNCHANGED host

(* The call, under a caller's signal that may have fired.                  *)
BeginFetch(url, pooled, stopped) ==
  /\ phase = "idle"
  /\ proxied' = pooled
  /\ aborted' = stopped
  /\ Go(url, stopped)
  /\ UNCHANGED <<redirects, records, body, checked>>

(* AbortSignal.timeout fires, or the caller's signal.                      *)
AbortFetch ==
  /\ phase \in {"lookup", "connect", "body"}
  /\ ~aborted
  /\ aborted' = TRUE
  /\ UNCHANGED <<phase, proxied, host, redirects, records, body, failure, checked>>

Passes(answer) == AddressesOf(answer) \intersect Private = {}

(* The answer to the hop's lookup.  A lookup has no signal: it goes on     *)
(* whatever aborts the call.  Only the pinned path refuses an empty one.   *)
LookupAnswers(answer) ==
  /\ phase = "lookup"
  /\ IF ~Passes(answer) \/ (~proxied /\ answer = <<>>)
     THEN Throw("validation") /\ UNCHANGED <<records, checked>>
     ELSE /\ phase' = "connect"
          /\ records' = IF proxied THEN <<>> ELSE answer
          /\ checked' = [host |-> host, addresses |-> AddressesOf(answer)]
          /\ UNCHANGED failure
  /\ UNCHANGED <<proxied, aborted, host, redirects, body>>

(* The lookup of the guard is outside of the try that maps errors.         *)
LookupFails ==
  /\ phase = "lookup"
  /\ Throw(IF proxied THEN "raw" ELSE "error")
  /\ UNCHANGED <<proxied, aborted, host, redirects, records, body, checked>>

-----------------------------------------------------------------------------
(* One request.  Nothing but its failure comes after the signal.           *)

(* ECONNREFUSED, EHOSTUNREACH, ENETUNREACH: the next record, if any.       *)
ConnectRefused ==
  /\ phase = "connect" /\ ~proxied /\ ~aborted
  /\ IF Len(records) > 1
     THEN records' = Tail(records) /\ UNCHANGED <<phase, failure>>
     ELSE Throw("error") /\ UNCHANGED records
  /\ UNCHANGED <<proxied, aborted, host, redirects, body, checked>>

(* Any other failure, the signal's among them; TransientError: the pool    *)
(* has no proxy left to try.                                               *)
ConnectFails(f) ==
  /\ phase = "connect"
  /\ f \in (IF proxied /\ ~aborted THEN {"transient", "error"} ELSE {"error"})
  /\ Throw(f)
  /\ UNCHANGED <<proxied, aborted, host, redirects, records, body, checked>>

(* Mutant: a redirect goes to a host that was looked up before without     *)
(* being looked up again.                                                  *)
RedirectUnchecked(location) ==
  /\ phase = "connect" /\ ~aborted
  /\ location \in Hosts /\ redirects < MaxRedirects
  /\ redirects' = redirects + 1
  /\ host' = location
  /\ UNCHANGED <<phase, proxied, aborted, records, body, failure, checked>>

(* 3xx, not 304.  A missing Location throws before the redirect is         *)
(* counted, a malformed one after.                                         *)
Redirect(location) ==
  /\ phase = "connect" /\ ~aborted
  /\ redirects' = IF location = "none" THEN redirects ELSE redirects + 1
  /\ IF location = "none" \/ redirects' > MaxRedirects
     THEN Throw("error") /\ UNCHANGED host
     ELSE Go(location, FALSE)
  /\ UNCHANGED <<proxied, aborted, records, body, checked>>

(* Any other response, with a body of n bytes.  Without a proxy it is      *)
(* built in a listener, where an exception rejects nothing and is the      *)
(* process's uncaughtException.                                            *)
Respond(s, n) ==
  /\ phase = "connect" /\ ~aborted
  /\ NullBody(s) => n = 0
  /\ phase' = IF Unbuildable(s) /\ ~proxied THEN "uncaught"
              ELSE IF NullBody(s) THEN "returned" ELSE "body"
  /\ status' = s
  /\ size' = n
  /\ UNCHANGED <<total, kept, truncated>>
  /\ UNCHANGED <<proxied, aborted, host, redirects, records, failure, checked>>

(* Mutant: the chunk that crosses the limit is dropped.                    *)
ReadChunkWhole(n) ==
  /\ phase = "body" /\ ~aborted
  /\ n <= size - total
  /\ total' = total + n
  /\ IF total' > MaxBytes
     THEN truncated' = TRUE /\ phase' = "returned" /\ UNCHANGED kept
     ELSE kept' = kept + n /\ UNCHANGED <<phase, truncated>>
  /\ UNCHANGED <<proxied, aborted, host, redirects, records, size, status, failure, checked>>

(* readCappedBody: the chunk that crosses the limit is kept up to it and   *)
(* ends the reading.                                                       *)
ReadChunk(n) ==
  /\ phase = "body" /\ ~aborted
  /\ n <= size - total
  /\ total' = total + n
  /\ IF total' > MaxBytes
     THEN LET keep == n - (total' - MaxBytes)
          IN  /\ kept' = kept + keep
              /\ truncated' = TRUE
              /\ phase' = "returned"
     ELSE kept' = kept + n /\ UNCHANGED <<phase, truncated>>
  /\ UNCHANGED <<proxied, aborted, host, redirects, records, size, status, failure, checked>>

EndOfBody ==
  /\ phase = "body" /\ ~aborted
  /\ total = size
  /\ phase' = "returned"
  /\ UNCHANGED <<proxied, aborted, host, redirects, records, body, failure, checked>>

(* The peer breaks off, or the signal fires: the error of the reader is    *)
(* thrown as it is.                                                        *)
BodyFails ==
  /\ phase = "body"
  /\ Throw("raw")
  /\ UNCHANGED <<proxied, aborted, host, redirects, records, body, checked>>

FetchSettles ==
  \/ \E answer \in Answers : LookupAnswers(answer)
  \/ LookupFails
  \/ ConnectRefused
  \/ \E f \in {"transient", "error"} : ConnectFails(f)
  \/ \E location \in Urls \union {"none"} : Redirect(location)
  \/ \E s \in Statuses, n \in 0..(MaxBytes + MaxChunk) : Respond(s, n)
  \/ \E n \in 1..MaxChunk : ReadChunk(n)
  \/ EndOfBody
  \/ BodyFails

FetchNext ==
  \/ \E url \in Urls, pooled, stopped \in BOOLEAN : BeginFetch(url, pooled, stopped)
  \/ AbortFetch
  \/ FetchSettles

FetchSpec == FetchInit /\ [][FetchNext]_fetchVars

-----------------------------------------------------------------------------
(* A request is sent, and a body is read, only under the lookup of its own *)
(* hop: the host is the one looked up, no address of the answer is         *)
(* private, and without a proxy the connection goes to one of those very   *)
(* addresses, on every redirect and after every refused record             *)
(* (createPinnedFetcher, fetchSafe).                                       *)
ConnectsWhereChecked ==
  phase \in {"connect", "body"} =>
    /\ checked.host = host
    /\ checked.addresses \intersect Private = {}
    /\ ~proxied => records # <<>> /\ Head(records) \in checked.addresses

(* However the peer cuts its body into chunks: what is returned is the     *)
(* body up to the limit, and is called truncated just when the body is     *)
(* longer, so a body of exactly the limit is not (readCappedBody).         *)
BodyIsPrefix ==
  phase = "returned" =>
    /\ kept = IF size > MaxBytes THEN MaxBytes ELSE size
    /\ truncated <=> size > MaxBytes

(* fetchSafe "throws on every non-success path" (shared/net/http.ts): no   *)
(* response escapes it as an exception outside of its promise.             *)
NothingUncaught == phase # "uncaught"

=============================================================================
