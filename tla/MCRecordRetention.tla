-------------------------- MODULE MCRecordRetention --------------------------
(***************************************************************************)
(* Small instances of RecordRetention for TLC.                             *)
(***************************************************************************)
EXTENDS RecordRetention, TLC

(* A count, an age, both, a negative age, and a negative count, which      *)
(* stops pruning by age too.                                               *)
SomePolicies ==
    {[count |-> 1, days |-> None], [count |-> None, days |-> 1], [count |-> 2, days |-> 1],
     [count |-> 1, days |-> -1], [count |-> -1, days |-> 1]}

(* Where a duration holds 8 ticks, 4 days of 2 ticks fit and 5 wrap.       *)
LongPolicies == {[count |-> None, days |-> 5], [count |-> None, days |-> 4]}
=============================================================================
