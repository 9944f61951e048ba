--------------------------- MODULE MCAlertManager ---------------------------
(* Instances of AlertManager for TLC: the channels and severities of the    *)
(* default configuration that the fan-out tells apart.                      *)
EXTENDS AlertManager

\* Info and High, two of the severities of internal/events.
MCSeverities == {0, 3}

\* stdout takes everything, ntfy High and above (its default).
MCMin == <<0, 3>>

\* ntfy alone.
MCMinOne == <<3>>
=============================================================================
