---------------------------- MODULE MCEventStore ----------------------------
(***************************************************************************)
(* Instance of EventStore for TLC.  Aggregates, payloads and writers are   *)
(* interchangeable.                                                        *)
(***************************************************************************)
EXTENDS EventStore, TLC

StorePerms == Permutations(Aggregate) \cup Permutations(Payload) \cup Permutations(Writer)
=============================================================================
