-------------------------- MODULE MCHarnessedStore --------------------------
(* HarnessedStore with two regions, on every trace the generator can emit. *)
EXTENDS HarnessedStore

CONSTANTS Distance,     \* between the regions
          Uncertainty   \* of both

east == "east"
west == "west"
MCRegion == {east, west}
MCPosOf(r) == IF r = east THEN <<0, 0, 0>> ELSE <<Distance, 0, 0>>
MCUOf(r) == Uncertainty
=============================================================================
