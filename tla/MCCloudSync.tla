---- MODULE MCCloudSync ----
EXTENDS CloudSync
CONSTANTS d1, d2, t1, t2
MCOne == (t1 :> d1) @@ (t2 :> d2)
MCTabs == (t1 :> d1) @@ (t2 :> d1)
====
