--------------------------- MODULE MCConditions ---------------------------
(* Conditions with three stations: one that is only configured, one that   *)
(* is configured and nearby, one that is only nearby.                      *)
EXTENDS Conditions

CONSTANTS s1, s2, s3

ThreeStations == {s1, s2, s3}
TwoConfigured == <<s1, s2>>
TwoNearby == <<s2, s3>>

=============================================================================
