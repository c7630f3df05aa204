----------------------------- MODULE MCFilterLists -----------------------------
(***************************************************************************)
(* Small instances of the filter lists: what may go wrong, how often, and  *)
(* what an earlier session may have installed.                             *)
(***************************************************************************)
EXTENDS FilterListProperties

CONSTANTS
  Kept, \* the subscriptions an earlier session may have left
  MaxMutations, MaxFaults, MaxRestarts, MaxDamages, MaxShifts, MaxCloses

MCBytes == [t \in Texts |-> 1]

MCLimit == [mutations |-> MaxMutations, faults |-> MaxFaults,
            restarts |-> MaxRestarts, damages |-> MaxDamages,
            shifts |-> MaxShifts, closes |-> MaxCloses]

MCInstalled ==
  {[BundledLists EXCEPT
      !.subs = [u \in {v} |-> [body |-> t, enabled |-> TRUE]]] :
     v \in Kept, t \in GoodTexts}
=============================================================================
