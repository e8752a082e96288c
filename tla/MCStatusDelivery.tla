---- MODULE MCStatusDelivery ----
(* Two tenants, the second of which has a client but no execution of its   *)
(* own among those that are published.                                     *)
EXTENDS StatusDelivery, TLC

CONSTANTS c1, c2, c3, x1

MCTenantOf == (x1 :> "t1") @@ (c1 :> "t1") @@ (c2 :> "t1") @@ (c3 :> "t2")

====
