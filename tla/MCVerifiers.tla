---------------------------- MODULE MCVerifiers ----------------------------
(* The verifiers of horizon/ side by side.  They share no state: each machine  *)
(* of this run moves only while the others rest, so that its states are looked  *)
(* at once.                                                                   *)
EXTENDS LightTimeLoops, Beacon, SpaceLink, Commitment

MCEmitters == {<<0, 0, 0>>, <<1, -1, 2>>}
MCStations == (-3..3) \X {-1, 0, 2} \X {0, 1}
MCAgents == {<<0, 0, 0>>, <<1, 0, 0>>, <<2, -1, 1>>, <<-3, 2, 0>>, <<3, 0, 1>>}

(* Two stations, one of them with a clock error and a processing delay; three  *)
(* emitters of which two are four nanometres apart.                            *)
MCPosOf(s) == IF s = "s1" THEN <<1, 0, 0>> ELSE <<6, 0, 0>>
MCUOf(s) == IF s = "s1" THEN 0 ELSE 1
MCHomeOf(e) == CASE e = "E1" -> <<0, 0, 0>> [] e = "E2" -> <<4, 0, 0>> [] e = "E3" -> <<0, 4, 0>>
MCBlockOf(e) == CASE e = "E1" -> {1, 2} [] e = "E2" -> {2} [] e = "E3" -> {1, 3}
MCPlaces == {<<0, 0, 0>>, <<4, 0, 0>>, <<0, 4, 0>>}
MCOtherPlace == <<9, 0, 0>>

(* Ships on both sides of a body, at rest, slow, oblique, and at light speed.  *)
MCShips ==
    [p0 : {<<4, -3, 0>>, <<4, -6, 1>>, <<2, 0, 0>>}, t0 : {0},
     num : {<<0, 1, 0>>, <<-1, 1, 0>>, <<0, 2, 0>>, <<-1, 0, 0>>}, den : {1, 2}]
MCBodies == {<<2, 0, 0>>, <<1, 1, 0>>, <<4, 0, 0>>, <<-2, 0, 0>>}
MCGround == <<0, 0, 0>>
MCCenters == {<<0, 0, 0>>, <<1, 2, 0>>, <<3, 0, -1>>, <<-5, 0, 0>>}
MCBall == (-2..2) \X (-2..2) \X (-1..1)
MCClockPlaces == {<<0, 0, 0>>, <<3, 0, 0>>, <<1, 1, 0>>}
MCphi == -1

(* Sites six light ticks apart: windows that are isolated up to the last tick,  *)
(* an answer after its window, a period that is too long, a window that is too   *)
(* long, and sites so close that nothing is isolated.                          *)
Far(dt_round, dt_resp, proc) ==
    [site_1 |-> <<0, 0, 0>>, site_2 |-> <<12, 0, 0>>,
     dt_round_ns |-> dt_round, dt_resp_ns |-> dt_resp, proc_ns |-> proc]
MCConfigs ==
    {Far(2, 3, 2), Far(2, 3, 3), Far(4, 3, 2), Far(1, 6, 5), [Far(2, 3, 2) EXCEPT !.site_2 = <<1, 0, 0>>]}

allVars == <<vars, certVars, beaconVars, trajVars, linkVars, commitVars>>

MCInit == Init /\ CertInit /\ BeaconInit /\ TrajInit /\ LinkInit /\ CommitInit

Resting(machine) ==
    /\ machine # "measurement" => measured = NoMeasurement
    /\ machine # "certificate" => ~IsEmitted
    /\ machine # "beacon" => per_block = <<>>
    /\ machine # "trajectory" => subject = NoSubject
    /\ machine # "link" => now = 0 /\ ship.v = 0 /\ merged = {}
    /\ machine # "commitment" => phase = "idle"

MCNext ==
    \/ Resting("measurement") /\ Next /\ UNCHANGED <<certVars, beaconVars, trajVars, linkVars, commitVars>>
    \/ Resting("certificate") /\ CertNext /\ UNCHANGED <<vars, beaconVars, trajVars, linkVars, commitVars>>
    \/ Resting("beacon") /\ BeaconNext /\ UNCHANGED <<vars, certVars, trajVars, linkVars, commitVars>>
    \/ Resting("trajectory") /\ TrajNext /\ UNCHANGED <<vars, certVars, beaconVars, linkVars, commitVars>>
    \/ Resting("link") /\ LinkNext /\ UNCHANGED <<vars, certVars, beaconVars, trajVars, commitVars>>
    \/ Resting("commitment") /\ CommitNext /\ UNCHANGED <<vars, certVars, beaconVars, trajVars, linkVars>>

MCSpec == MCInit /\ [][MCNext]_allVars
=============================================================================
