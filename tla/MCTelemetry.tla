----------------------------- MODULE MCTelemetry -----------------------------
(***************************************************************************)
(* Instance of Telemetry: an analog and a BOOL slot, three catalogs.       *)
(***************************************************************************)
EXTENDS Telemetry

MCSlots == <<"level", "motor">>
MCCatalogs == {<<>>, <<"level", "motor">>, <<"motor">>}
=============================================================================
