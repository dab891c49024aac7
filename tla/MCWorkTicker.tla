----------------------------- MODULE MCWorkTicker -----------------------------
(***************************************************************************)
(* Two jobs, in the combinations of MCPairs: a job of each type, most with *)
(* another that shares its tick.  Keys and experiments have two rows, so   *)
(* that a sync takes two pages and rows can tie across them.               *)
(***************************************************************************)
EXTENDS WorkTicker

CONSTANTS j1, j2, k1, k2, e1, e2, c1, p1, replay1, eval1, set1, item1

MCSetOf(run)   == set1
MCItemsOf(run) == {item1}

MCPairs == {<<"sync_api_keys", "unknown">>, <<"sync_experiments", "unknown">>,
            <<"sync_cloud_storage", replay1>>, <<eval1, "sync_provider_keys">>}

MCInit == Init /\ <<jobs[j1].work, jobs[j2].work>> \in MCPairs

MCSpec == MCInit /\ [][Next]_vars /\ Fairness
=============================================================================
