---------------------------- MODULE MCServerRecords -----------------------------
(***************************************************************************)
(* ServerRecords with two requests that write the same row and one that    *)
(* reads, on a clock that outlives a window of the throttle and of the     *)
(* retention.                                                              *)
(***************************************************************************)
EXTENDS ServerRecords, TLC

RowsExist == RecordsInit /\ \A e \in AuditedRows : row[e] # None

SpecFromARow == RowsExist /\ [][RecordsNext]_recordsVars

Interchangeable == Permutations(Mutating) \cup Permutations(Values)
================================================================================
