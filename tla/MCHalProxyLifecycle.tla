------------------------ MODULE MCHalProxyLifecycle ------------------------
\* An instance for TLC: what the state node of the sensor holds.
EXTENDS HalProxyLifecycle

\* No gesture, and a press at a position.
MCReports == {<<0>>, <<5, 7, 1>>}
=============================================================================
