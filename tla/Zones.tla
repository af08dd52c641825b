---------------------------------- MODULE Zones ----------------------------------
(***************************************************************************)
(* The two ways a scan takes names from the zone itself: its transfer      *)
(* (axfr.rs, beside the passive phase) and the walk of its NSEC chain      *)
(* (dnssec.rs, with the enrichment).  They share no state, so they compose *)
(* by conjunction: a step of one is a stutter of the other.                *)
(***************************************************************************)
EXTENDS ZoneWalk, ZoneTransfer

ZonesSpec == ZoneSpec /\ AxfrSpec

\* A zone that was transferred, or walked to its apex, has every name the server owed.
ZoneSound == WalkSound /\ AxfrWhole
=============================================================================
