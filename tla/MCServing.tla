------------------------------- MODULE MCServing -------------------------------
(***************************************************************************)
(* The parts of serving a request, which share no state: a behaviour is    *)
(* one of one part, chosen at the start.                                   *)
(***************************************************************************)
EXTENDS Integers, Sequences, TLC

CONSTANTS Actors, TTL, MaxLookup, MaxUpload, Parts

VARIABLES
    part,
    row, rowSince, verdict, keyLook,                                        \* KeyResolver
    revoked, mapped, keyCache, provCache, proxyLook, revived,               \* ProxyKeys
    on, weights, onSince, armsSince, listed, route,                         \* ExperimentRouter
    active, activeSince, changing, activeCache, get,                        \* ActiveKeys
    pricePc, pricing, priceList, fileRead,                                  \* Pricing
    held, configCache, client, bucket, closed, stuck, body,                        \* BodyStorage
    reqPc, request, upstream, tags, reply,                                  \* ProxyHandler
    format, buf, total, relay, torn, usage                                  \* StreamedUsage

K == INSTANCE KeyResolver WITH Lookups <- Actors, since <- rowSince, cache <- verdict, look <- keyLook

P == INSTANCE ProxyKeys WITH Lookups <- Actors, Providers <- {"openai", "anthropic"},
        Majordomos <- {"owner", "other"}, Owner <- "owner", look <- proxyLook

E == INSTANCE ExperimentRouter WITH Requests <- Actors, MaxFetch <- MaxLookup,
        Weightings <- {<<1, 1>>, <<2, 1>>, <<0, 1>>}, sinceOn <- onSince, sinceArms <- armsSince,
        cache <- listed, req <- route

A == INSTANCE ActiveKeys WITH Writers <- Actors, MaxFetch <- MaxLookup, since <- activeSince, cache <- activeCache

\* m1 and m2 are in the file, and m1 and m3 have aliases.
M == INSTANCE Pricing WITH Models <- {"m1", "m2", "m3", "m4"}, InFile <- {"m1", "m2"},
        Alias <- "m1" :> "m2" @@ "m3" :> "m2", HasRemote <- TRUE, pc <- pricePc, reply <- priceList

\* One request looking for the user's bucket and then for the org's, or two uploads
\* of one user whose bucket changes between a closable client's and another's.
B(x) == INSTANCE BodyStorage WITH Owners <- x.owners, Buckets <- x.buckets, Requests <- x.requests, GCS <- {"a"},
            MaxFetch <- MaxLookup, cache <- configCache, req <- body
Chain   == [owners |-> <<"user", "org">>, buckets |-> "user" :> {"a"} @@ "org" :> {"o"}, requests |-> {1}]
Uploads == [owners |-> <<"user">>, buckets |-> "user" :> {"a", "b"}, requests |-> Actors]

H == INSTANCE ProxyHandler WITH Models <- {"old", "new", "arm"}, Replacement <- "old" :> "new",
        ArmModels <- {"arm", "old"}, pc <- reqPc, q <- request, up <- upstream

S == INSTANCE StreamedUsage WITH MaxEvents <- 3, MaxTokens <- 2, pc <- relay

ASSUME MCServingAssumption ==
    /\ K!KeyResolverAssumption /\ P!ProxyKeysAssumption /\ A!ActiveKeysAssumption /\ M!PricingAssumption
    /\ E!ExperimentRouterAssumption
    /\ B(Chain)!BodyStorageAssumption /\ B(Uploads)!BodyStorageAssumption
    /\ H!ProxyHandlerAssumption /\ S!StreamedUsageAssumption

\* TLC evaluates what is proved of every list of weights on the ones of this model.
ASSUME MCServingWeights == E!ArmsGetTheirShare

MCInit ==
    /\ part \in Parts
    /\ IF part = "keys" THEN K!Init ELSE row = 0 /\ rowSince = 0 /\ verdict = 0 /\ keyLook = 0
    /\ IF part = "proxyKeys" THEN P!Init
       ELSE revoked = 0 /\ mapped = 0 /\ keyCache = 0 /\ provCache = 0 /\ proxyLook = 0 /\ revived = 0
    /\ IF part = "experiments" THEN E!Init
       ELSE on = 0 /\ weights = 0 /\ onSince = 0 /\ armsSince = 0 /\ listed = 0 /\ route = 0
    /\ IF part = "activeKeys" THEN A!Init
       ELSE active = 0 /\ activeSince = 0 /\ changing = 0 /\ activeCache = 0 /\ get = 0
    /\ IF part = "pricing" THEN M!Init ELSE pricePc = 0 /\ pricing = 0 /\ priceList = 0 /\ fileRead = 0
    /\ IF part = "chain" THEN B(Chain)!Init
       ELSE IF part = "uploads" THEN B(Uploads)!Init
       ELSE held = 0 /\ configCache = 0 /\ client = 0 /\ bucket = 0 /\ closed = 0 /\ stuck = 0 /\ body = 0
    /\ IF part = "handler" THEN H!Init
       ELSE reqPc = 0 /\ request = 0 /\ upstream = 0 /\ tags = 0 /\ reply = 0
    /\ IF part = "usage" THEN S!Init
       ELSE format = 0 /\ buf = 0 /\ total = 0 /\ relay = 0 /\ torn = 0 /\ usage = 0

MCNext ==
    /\ UNCHANGED part
    /\ IF part = "keys" THEN K!Next ELSE UNCHANGED <<row, rowSince, verdict, keyLook>>
    /\ IF part = "proxyKeys" THEN P!Next
       ELSE UNCHANGED <<revoked, mapped, keyCache, provCache, proxyLook, revived>>
    /\ IF part = "experiments" THEN E!Next ELSE UNCHANGED <<on, weights, onSince, armsSince, listed, route>>
    /\ IF part = "activeKeys" THEN A!Next ELSE UNCHANGED <<active, activeSince, changing, activeCache, get>>
    /\ IF part = "pricing" THEN M!Next ELSE UNCHANGED <<pricePc, pricing, priceList, fileRead>>
    /\ IF part = "chain" THEN B(Chain)!Next
       ELSE IF part = "uploads" THEN B(Uploads)!Next
       ELSE UNCHANGED <<held, configCache, client, bucket, closed, stuck, body>>
    /\ IF part = "handler" THEN H!Next ELSE UNCHANGED <<reqPc, request, upstream, tags, reply>>
    /\ IF part = "usage" THEN S!Next ELSE UNCHANGED <<format, buf, total, relay, torn, usage>>

MCvars == <<part, row, rowSince, verdict, keyLook, revoked, mapped, keyCache, provCache, proxyLook, revived,
            on, weights, onSince, armsSince, listed, route, active, activeSince, changing, activeCache, get,
            pricePc, pricing, priceList, fileRead, held, configCache, client, bucket, closed, stuck, body,
            reqPc, request, upstream, tags, reply, format, buf, total, relay, torn, usage>>

MCSpec == MCInit /\ [][MCNext]_MCvars

MCSymmetry == Permutations(Actors)
-----------------------------------------------------------------------------
\* Every part's state keeps its type.
TypeOK ==
    /\ part = "keys" => K!TypeOK
    /\ part = "proxyKeys" => P!TypeOK
    /\ part = "experiments" => E!TypeOK
    /\ part = "activeKeys" => A!TypeOK
    /\ part = "pricing" => M!TypeOK
    /\ part = "chain" => B(Chain)!TypeOK
    /\ part = "uploads" => B(Uploads)!TypeOK
    /\ part = "handler" => H!TypeOK
    /\ part = "usage" => S!TypeOK

\* A revoked or changed key of either kind stops working within the time a cache
\* entry and a lookup last, with the exceptions ProxyKeys names.
CredentialsAreFresh ==
    /\ part = "keys" => K!AnswersAreFresh
    /\ part = "proxyKeys" => P!GrantsAreFresh

\* A request goes to what was published at most that long ago.
RoutedAsPublished == part = "experiments" => E!RoutedAsPublished

\* A row is indexed by the keys that are active, but for a race or a failed fetch.
WrongOnlyByRaceOrFailure == part = "activeKeys" => A!WrongOnlyByRaceOrFailure

\* The list decides, then the file, then the alias, except between a refresh's steps.
PricesFollowTheLists == part = "pricing" => M!PricesFollowTheLists

\* A body goes to the first owner with a bucket, and to the bucket that owner has.
BodiesGoWhereTheyBelong ==
    /\ part = "chain" => B(Chain)!BodiesGoWhereTheyBelong
    /\ part = "uploads" => B(Uploads)!BodiesGoWhereTheyBelong

\* The row tells which model was asked of the upstream.
TagsTellWhatWasSent == part = "handler" => H!TagsTellWhatWasSent

\* A row is charged with what the stream had counted when it ended.
UsageLostOnlyByCut == part = "usage" => S!UsageLostOnlyByCut

\* A row tagged with an experiment was sent to the experiment's model.
ExperimentTagsAreApplied == part = "handler" => H!ExperimentTagsAreApplied
=============================================================================
