---------------------------- MODULE MCCacheStore ----------------------------
(***************************************************************************)
(* CacheStore for TLC: one key more than there are slots, so that the      *)
(* store fills up, entries with and without expiry, and two threads.       *)
(***************************************************************************)
EXTENDS CacheStore, TLC

Symmetry == Permutations(Threads) \cup Permutations(Keys) \cup Permutations(Values)
=============================================================================
