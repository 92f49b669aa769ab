----------------------------- MODULE MCEndpoints -----------------------------
(* Endpoints on a small instance: five events of two devices and two users,
   two of them with the same time. *)
EXTENDS Endpoints

EventsDefinition == 1..5
WhenDefinition == <<1, 2, 2, 3, 4>>
DeviceDefinition == <<"d", "e", "d", "d", "e">>
UserDefinition == <<"u", "u", "v", "u", "v">>
LimitsDefinition == {Absent, -1, 0, 1, 2}
DecimalDefinition == [t \in 0..MaxClock |-> <<"0", "1">>[t + 1]]
FacesDefinition == {0, 1, 3}
=============================================================================
