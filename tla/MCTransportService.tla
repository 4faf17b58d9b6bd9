------------------------- MODULE MCTransportService -------------------------
(* Instances of TransportService for TLC. *)
EXTENDS TransportService, TLC

CONSTANTS c1, c2

Recorded2 == <<"sys", "temp">>
TwoCopies == Recorded2 \o Recorded2
=============================================================================
