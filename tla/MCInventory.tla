---------------------------- MODULE MCInventory -----------------------------
(* Instances of the inventory, of a cloud account and of the findings of an  *)
(* organization for TLC.  A behaviour looks at one of them and leaves the    *)
(* others at their start.                                                    *)
EXTENDS Holdings

CONSTANTS c1, c2, f1, f2, s1, a1, a2

example == <<"example", "com">>
shop == <<"shop", "example", "com">>
api == <<"api", "shop", "example", "com">>
address == <<"192.0.2.1">>

TheDomains == {shop, api}
TheAddresses == {address}
TheHosts == {api}
TheDnsProofs == {example, shop}
TheFileProofs == {shop}

\* A site with one finding, and a cloud account with another.
SiteAndCloud == f1 :> "HTTP_HEADERS" @@ f2 :> "CLOUD_IAM"
HeadersScan == s1 :> {"HTTP_HEADERS"}

VARIABLE part       \* the component this behaviour looks at

Symmetry ==
    Permutations(Callers) \cup Permutations(Resources) \cup Permutations(Jobs)
    \cup Permutations(Audits) \cup Permutations(Requests)

Init ==
    /\ InventoryInit /\ CloudInit /\ FindingInit
    /\ part \in {"assets", "cloud", "findings"}
    /\ part # "findings" => present = {}

Next ==
    /\ UNCHANGED part
    /\ \/ part = "assets" /\ InventoryNext /\ UNCHANGED <<cloudVars, findingVars>>
       \/ part = "cloud" /\ CloudNext /\ UNCHANGED <<inventoryVars, findingVars>>
       \/ part = "findings" /\ FindingNext /\ UNCHANGED <<inventoryVars, cloudVars>>

Spec == Init /\ [][Next]_<<part, inventoryVars, cloudVars, findingVars>>
==============================================================================
