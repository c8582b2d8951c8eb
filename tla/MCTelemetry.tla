---------------------------- MODULE MCTelemetry ----------------------------
\* TLC instance of Telemetry: two invocations, one waits for a signal and exports.
EXTENDS Telemetry

\* Steady, reset below and reset above the first value, and without a number.
SomeCounters == {<<>>, <<NaN>>, <<1, 3>>, <<2, 0, 1>>, <<1, 0, 2>>}
SomeGauges == {<<>>, <<NaN, 2, 1>>}
=============================================================================
