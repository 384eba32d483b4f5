------------------------ MODULE MCOperationalStore ------------------------
(***************************************************************************)
(* The suppressions and audit events of the operational store, or the      *)
(* counts of its delivery events: the two share no state, and the initial  *)
(* state picks the one that a behaviour is about.                          *)
(***************************************************************************)
EXTENDS OperationalStore, DeliveryPolicy

VARIABLE part

MCDomainLimit ==
  [w \in Window |-> CASE w = "minute" -> 1 [] w = "hour" -> 2 [] w = "day" -> 3]

MCAccountLimit == [w \in {"hour"} |-> 0]

Init == part \in {"store", "quota"} /\ StoreInit /\ QuotaInit

Next ==
  /\ \/ part = "store" /\ StoreNext /\ UNCHANGED quotaVars
     \/ part = "quota" /\ QuotaNext /\ UNCHANGED storeVars
  /\ UNCHANGED part

Spec == Init /\ [][Next]_<<storeVars, quotaVars, part>>
=============================================================================
