------------------------- MODULE MC_PolicyMonitor -------------------------
(* A tick stands for half the leader
   interval: a lease is fresh for two ticks, and a replica checks at
   least once per tick, so an own lease is renewed before it goes stale. *)
EXTENDS PolicyMonitor

MCReleaseInterval == 2
MCLeaderInterval == 2
MCCheckInterval == 1
MCMaxFailures == 1
\* Elasticsearch's default search size.
MCMaxHits == 10

\* A page smaller than the lease documents: one hit for two policies stands
\* for ten hits for eleven, with no store failure.
MCSmallPage == 1
MCNoFailures == 0
=============================================================================
