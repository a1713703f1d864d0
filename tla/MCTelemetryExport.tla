------------------------- MODULE MCTelemetryExport --------------------------
(* Small instances of TelemetryExport for TLC. *)
EXTENDS TelemetryExport, TLC

CONSTANTS e1, e2, e3, e4, e5, noisy, quiet, x1, x2

Session == <<e1, e4, e2, e5, e3>>
Origins == e1 :> noisy @@ e2 :> noisy @@ e3 :> quiet @@ e4 :> noisy @@ e5 :> quiet
Channels == [e \in {e1, e2, e3, e4, e5} |-> IF e = e3 THEN "host" ELSE "agent"]
=============================================================================
