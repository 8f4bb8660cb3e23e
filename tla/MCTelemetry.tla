----------------------------- MODULE MCTelemetry ----------------------------
(***************************************************************************)
(* Values for model-checking Telemetry: answers that are ok with and       *)
(* without a voltage, and one with a voltage that is not ok.               *)
(***************************************************************************)
EXTENDS Telemetry

Answer(volts, ok, moving, tripped) ==
    [voltageDeci |-> volts, ok |-> ok,
     moving |-> moving, overcurrentTripped |-> tripped]

MCAnswers == {Answer(120, TRUE, TRUE, FALSE), Answer(NoValue, TRUE, FALSE, TRUE),
              Answer(121, FALSE, FALSE, FALSE)}
=============================================================================
