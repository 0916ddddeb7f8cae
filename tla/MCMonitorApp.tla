---------------------------- MODULE MCMonitorApp ----------------------------
(* Small instances of MonitorApp for TLC. *)
EXTENDS MonitorApp

OneInstrument == <<"BTC">>
TwoInstruments == <<"BTC", "ETH">>

Figures(rate, annual, next) ==
    [spot_spread |-> 0, perp_spread |-> 1, interval |-> 8, predicted |-> None,
     rate |-> rate, net_horizon |-> 3, net_annual |-> annual,
     next_funding |-> next]

(* Good: above the threshold.  Band: between the hysteresis threshold and   *)
(* the threshold, good only for a signal that is active.  Poor: below both. *)
Good == Figures(2, 8, None)
Band == Figures(2, 7, None)
Poor == Figures(0, 3, None)

AllReadings == {Good, Band, Poor}
GoodReadings == {Good}

AllFaults == FaultKinds
NoDatabaseFaults == FaultKinds \ {"database"}
NoRestart == FaultKinds \ {"crash"}
DatabaseOnly == {"database"}
SendFaults == {"telegram", "limiter"}
NoFaults == {}
=============================================================================
