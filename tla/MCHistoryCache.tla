--------------------------- MODULE MCHistoryCache ---------------------------
(* A log item and an item that share a trigger; the second item has one of *)
(* its own.                                                                *)
EXTENDS HistoryCache, TLC

CONSTANTS log, cpu, both, own

MCTriggersOf == (log :> Trigger \ {own}) @@ (cpu :> Trigger)
MCMaxRecords == (log :> 3) @@ (cpu :> 1)
MCMaxRecordsLive == (log :> 2) @@ (cpu :> 1)
=============================================================================
