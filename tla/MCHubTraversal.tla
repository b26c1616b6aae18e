--------------------------- MODULE MCHubTraversal ---------------------------
(* Instance of HubTraversal for TLC. *)
EXTENDS HubTraversal

CONSTANTS h1, h2, h3, r1
ThreeHubs == {h1, h2, h3}
OneReader == {r1}
=============================================================================
