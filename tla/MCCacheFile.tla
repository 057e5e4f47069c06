---------------------------- MODULE MCCacheFile ----------------------------
(* CacheFile on small instances.                                           *)
EXTENDS CacheFile

CONSTANTS r1, r2

MCReaders == {r1, r2}

=============================================================================
