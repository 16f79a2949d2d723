---------------------------- MODULE MCRailData ----------------------------
(* Two monitors; a session of three samples, and one of no samples, because *)
(* the product 8 * 2 wraps to 0. *)
EXTENDS RailData

CONSTANTS d1, d2, vdd, cam, disp

MonitorRails == (d1 :> <<vdd, cam>>) @@ (d2 :> <<disp>>)
Monitors     == {d1, d2}
Stream(t, r) == [kind |-> "streamEnergyData", timeMs |-> t, samplingRate |-> r]
ClientCalls  ==
    {[kind |-> "getRailInfo"],
     [kind |-> "getEnergyData", railIndices |-> <<>>],
     [kind |-> "getEnergyData", railIndices |-> <<2, 0>>],
     Stream(12, 1), Stream(8, 3)}
=============================================================================
