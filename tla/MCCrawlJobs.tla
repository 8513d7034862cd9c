---------------------------- MODULE MCCrawlJobs ----------------------------
(* Instances of CrawlJobs for TLC. *)
EXTENDS CrawlJobs, TLC

\* Workers, sites and pages are interchangeable; sound for invariants and actions.
Symmetry == Permutations(Workers) \cup Permutations(Sites) \cup Permutations(Urls)
=============================================================================
