------------------------------ MODULE BodyStorage ------------------------------
(***************************************************************************)
(* Where the bodies of a request go: to the bucket of its user, else of    *)
(* its org, else into the log row.  The configs are cached, an absent or   *)
(* unreadable one as well as a present one, and an upload runs on its own  *)
(* with the config it was given, sharing one storage client per owner      *)
(* with the other uploads: a config with another hash closes and replaces  *)
(* that client, also when the new one cannot be made.                      *)
(***************************************************************************)
EXTENDS Integers, FiniteSets, Sequences

CONSTANTS
    Owners,       \* the owners tried, in order: the user and the org
    Buckets,      \* per owner, what its config may name
    GCS,          \* the buckets on GCS: S3 clients are never closed
    Requests,     \* concurrent requests of that user and org
    TTL,          \* cloudCacheTTL
    MaxFetch,     \* the longest a query takes
    MaxUpload     \* the longest an upload takes

BodyStorageAssumption ==
    /\ {TTL, MaxFetch, MaxUpload} \subseteq Nat
    /\ TTL > 0
    /\ Owners \in Seq(DOMAIN Buckets) \ {<<>>}

Own     == {Owners[i] : i \in DOMAIN Owners}
None    == "none"
Values  == {None} \cup UNION {Buckets[o] : o \in Own}
Clients == 1..Cardinality(Requests) + Cardinality(Own)
Cap     == TTL + MaxFetch + 2 * MaxUpload + 2

VARIABLES
    held,      \* per owner and value: the time since its config was that, 0 if it is
    cache,     \* per owner: the cached config and the time it has left
    client,    \* per owner: the registered client, 0 if there is none
    bucket,    \* of each client
    closed,    \* clients that have been closed
    stuck,     \* history: closed clients that a failed creation has left registered
    req        \* per request: the way of its bodies

vars == <<held, cache, client, bucket, closed, stuck, req>>

Config(o) == CHOOSE v \in Values : held[o][v] = 0

Idle == [pc |-> "idle", claude |-> FALSE, at |-> 1, spent |-> 0, cfg |-> None, failed |-> FALSE,
         client |-> 0, early |-> FALSE, late |-> FALSE]

Phases == {"idle", "lookup", "read", "cache", "connect", "create", "put", "stored", "lost", "failed", "inRow", "dropped"}

TypeOK ==
    /\ held \in [Own -> [Values -> 0..Cap]]
    /\ \A o \in Own : \E v \in Buckets[o] \cup {None} : \A w \in Values : held[o][w] = 0 <=> w = v
    /\ cache \in [Own -> [cfg : Values, failed : BOOLEAN, left : 0..TTL]]
    /\ client \in [Own -> {0} \cup Clients]
    /\ bucket \in [Clients -> Values] /\ closed \subseteq Clients /\ stuck \subseteq Clients
    /\ \A r \in Requests : req[r].pc \in Phases /\ req[r].at \in DOMAIN Owners

Init ==
    /\ held \in {[o \in Own |-> [v \in Values |-> IF v = c[o] THEN 0 ELSE Cap]] :
                    c \in {f \in [Own -> Values] : \A o \in Own : f[o] \in Buckets[o] \cup {None}}}
    /\ cache = [o \in Own |-> [cfg |-> None, failed |-> FALSE, left |-> 0]]
    /\ client = [o \in Own |-> 0]
    /\ bucket = [c \in Clients |-> None]
    /\ closed = {} /\ stuck = {}
    /\ req = [r \in Requests |-> Idle]

\* UpsertCloudStorageConfigs: a config comes or changes; none is ever deleted.
ConfigChanges(o) ==
    /\ \E v \in Buckets[o] \ {Config(o)} :
          held' = [held EXCEPT ![o] = [w \in Values |-> IF w = v THEN 0 ELSE IF @[w] = 0 THEN 1 ELSE @[w]]]
    /\ UNCHANGED <<cache, client, bucket, closed, stuck, req>>

Fetching(r)  == req[r].pc \in {"read", "cache"}
Uploading(r) == req[r].pc \in {"connect", "create", "put"}

Tick ==
    /\ \A r \in Requests : /\ Fetching(r)  => req[r].spent < MaxFetch
                           /\ Uploading(r) => req[r].spent < MaxUpload
                           /\ req[r].pc # "lookup"
    /\ held' = [o \in Own |-> [v \in Values |-> IF held[o][v] \in 1..Cap - 1 THEN held[o][v] + 1 ELSE held[o][v]]]
    /\ cache' = [o \in Own |-> IF cache[o].left > 0 THEN [cache[o] EXCEPT !.left = @ - 1] ELSE cache[o]]
    /\ req' = [r \in Requests |-> IF Fetching(r) \/ Uploading(r) THEN [req[r] EXCEPT !.spent = @ + 1] ELSE req[r]]
    /\ UNCHANGED <<client, bucket, closed, stuck>>

(***************************************************************************)
(* storeBodyToUserOrOrgCloud and what it calls.                            *)
(***************************************************************************)
Busy(r) == Fetching(r) \/ Uploading(r) \/ req[r].pc = "lookup"
Owner(r) == Owners[req[r].at]

LogRequest(r) ==
    /\ ~Busy(r)
    /\ \E claude \in BOOLEAN : req' = [req EXCEPT ![r] = [Idle EXCEPT !.pc = "lookup", !.claude = claude]]
    /\ UNCHANGED <<held, cache, client, bucket, closed, stuck>>

\* Claude Code bodies never go into the row.
Global(r) == IF req[r].claude THEN "dropped" ELSE "inRow"

\* The first owner with a config gets the body.  History: an owner passed over
\* although it has had a config for longer than an entry and a query can hide.
Decide(r, cfg, failed) ==
    LET early == ~failed /\ held[Owner(r)][None] > TTL + MaxFetch + 1 IN
    IF cfg # None
    THEN [req[r] EXCEPT !.pc = "connect", !.cfg = cfg, !.spent = 0]
    ELSE IF req[r].at < Len(Owners)
         THEN [req[r] EXCEPT !.pc = "lookup", !.at = @ + 1, !.spent = 0, !.early = @ \/ early]
         ELSE [Idle EXCEPT !.pc = Global(r), !.claude = req[r].claude, !.early = req[r].early \/ early]

\* getUserCloudStorageConfig and getOrgCloudStorageConfig.
GetConfig(r) ==
    LET e == cache[Owner(r)] IN
    /\ req[r].pc = "lookup"
    /\ req' = [req EXCEPT ![r] = IF e.left > 0 THEN Decide(r, e.cfg, e.failed) ELSE [req[r] EXCEPT !.pc = "read"]]
    /\ UNCHANGED <<held, cache, client, bucket, closed, stuck>>

GetCloudStorageConfig(r) ==
    /\ req[r].pc = "read"
    /\ req' \in { [req EXCEPT ![r].pc = "cache", ![r].cfg = Config(Owner(r))],
                  [req EXCEPT ![r].pc = "cache", ![r].failed = TRUE] }
    /\ UNCHANGED <<held, cache, client, bucket, closed, stuck>>

CacheConfig(r) ==
    /\ req[r].pc = "cache"
    /\ cache' = [cache EXCEPT ![Owner(r)] = [cfg |-> req[r].cfg, failed |-> req[r].failed, left |-> TTL]]
    /\ req' = [req EXCEPT ![r] = [Decide(r, req[r].cfg, req[r].failed) EXCEPT !.failed = FALSE]]
    /\ UNCHANGED <<held, client, bucket, closed, stuck>>

(***************************************************************************)
(* doUpload.                                                               *)
(***************************************************************************)
NeverSame(c, cfg) == FALSE      \* mutant: every upload makes a client of its own
SameHash(c, cfg)  == bucket[c] = cfg

\* The registered client, if it is of this config; otherwise it is closed first.
Connect(r) ==
    LET c == client[Owner(r)] IN
    /\ req[r].pc = "connect"
    /\ IF c # 0 /\ SameHash(c, req[r].cfg)
       THEN req' = [req EXCEPT ![r].pc = "put", ![r].client = c] /\ UNCHANGED closed
       ELSE req' = [req EXCEPT ![r].pc = "create"] /\ closed' = closed \cup {d \in {c} \ {0} : bucket[d] \in GCS}
    /\ UNCHANGED <<held, cache, client, bucket, stuck>>

InUse == {client[o] : o \in Own} \cup {req[r].client : r \in Requests}

\* There is always a client that nobody has: r has none itself.
CreateClient(r) ==
    /\ req[r].pc = "create"
    /\ \E c \in Clients \ InUse :
          /\ \A d \in 1..c - 1 : d \in InUse
          /\ client' = [client EXCEPT ![Owner(r)] = c]
          /\ bucket' = [bucket EXCEPT ![c] = req[r].cfg]
          /\ closed' = closed \ {c} /\ stuck' = stuck \ {c}
          /\ req' = [req EXCEPT ![r].pc = "put", ![r].client = c]
    /\ UNCHANGED <<held, cache>>

\* The upload ends without having been put anywhere.
Failed(r) == [req EXCEPT ![r] = [Idle EXCEPT !.at = req[r].at, !.early = req[r].early, !.pc = "failed"]]

\* The registered client stays as it is, closed if it was.
CreateFails(r) ==
    /\ req[r].pc = "create"
    /\ stuck' = stuck \cup (closed \cap {client[Owner(r)]})
    /\ req' = Failed(r)
    /\ UNCHANGED <<held, cache, client, bucket, closed>>

\* History: the bucket put to was left for longer than a config lasts, and, for a
\* closed client that no failed creation has left registered, the config last
\* changed longer ago than that: the upload that closed it may have been as long on
\* its way as the one that finds it closed.
Misplaced(o, v) == held[o][v] > TTL + MaxFetch + MaxUpload + 1
Unexplained(o)  == \A v \in Values \ {Config(o)} : held[o][v] > TTL + MaxFetch + 2 * MaxUpload + 1

Put(r) ==
    LET c == req[r].client IN
    /\ req[r].pc = "put"
    /\ req' = [req EXCEPT ![r] = [Idle EXCEPT !.at = req[r].at, !.early = req[r].early,
                  !.pc   = IF c \in closed THEN "lost" ELSE "stored",
                  !.late = IF c \in closed THEN c \notin stuck /\ Unexplained(Owner(r))
                           ELSE Misplaced(Owner(r), bucket[c])]]
    /\ UNCHANGED <<held, cache, client, bucket, closed, stuck>>

\* The bucket refuses the body, or cannot be reached.
UploadFails(r) ==
    /\ req[r].pc = "put"
    /\ req' = Failed(r)
    /\ UNCHANGED <<held, cache, client, bucket, closed, stuck>>

Next ==
    \/ Tick \/ \E o \in Own : ConfigChanges(o)
    \/ \E r \in Requests : LogRequest(r) \/ GetConfig(r) \/ GetCloudStorageConfig(r) \/ CacheConfig(r)
                           \/ Connect(r) \/ CreateClient(r) \/ CreateFails(r) \/ Put(r) \/ UploadFails(r)

Spec == Init /\ [][Next]_vars
-----------------------------------------------------------------------------
\* A body passes an owner over only if that had no config an entry's time and a
\* query ago, or its config could not be read.  It is put where its owner's config
\* pointed within that time and an upload's.  It is lost on a closed client only if
\* the config changed within that time and two uploads', or if a creation failed
\* after it had closed that client: it stays registered, and takes the bodies of
\* every upload with its config until another config replaces it.  A Claude Code
\* body is never in the row.
BodiesGoWhereTheyBelong ==
    \A r \in Requests :
        /\ ~req[r].early
        /\ ~req[r].late
        /\ req[r].pc = "inRow" => ~req[r].claude
=============================================================================
