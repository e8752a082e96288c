---- MODULE MCPlatformRequests ----
EXTENDS PlatformRequests, TLC

(* Requests are interchangeable, and so are tenants. *)
MCSymmetry == Permutations(Requests) \union Permutations(Tenants)

====
