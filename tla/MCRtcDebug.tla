---------------------------- MODULE MCRtcDebug ----------------------------
EXTENDS RtcDebug, TLC

CONSTANTS n1, n2, none, unknown, running, error

MCNames    == {n1, n2}
MCStatuses == {unknown, running, error}
=============================================================================
