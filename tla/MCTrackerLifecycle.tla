------------------------- MODULE MCTrackerLifecycle -------------------------
EXTENDS TrackerLifecycle
CONSTANTS b1, b2, n1, n2, a1, a2, c1

TwoBenchmarks == b1 :> <<a1, a2>> @@ b2 :> <<c1>>
Unique == b1 :> n1 @@ b2 :> n2
Lives == b1 :> 2 @@ b2 :> 1

=============================================================================
