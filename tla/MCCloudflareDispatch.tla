---------------------- MODULE MCCloudflareDispatch ----------------------
(* A small instance of CloudflareDispatch for TLC. *)
EXTENDS CloudflareDispatch, TLC

CONSTANTS t1, p1, s1, s2, d1, d2, c1, c2

\* One runner slot for each lane.
OneSlotPerLane == [j \in Jobs |-> IF j \in Thumbnails THEN s1 ELSE s2]
=============================================================================
