---------------------------- MODULE MCVenueSetup ----------------------------
(* Instances of VenueSetup for TLC.                                        *)
EXTENDS VenueSetup

CONSTANTS a1, a2, e1, h1, h2

TwoVenues == {a1, a2}
OneEmail == {e1}
TwoRequests == {h1, h2}
AllTopics == {"account", "plans", "bank"}
=============================================================================
