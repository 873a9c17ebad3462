---------------------------- MODULE MC_Autonomy ----------------------------
EXTENDS AutonomyClock

\* Steps that divide the minute and steps that do not, and both ends of the
\* second-of-minute range.
MCPeriods == {0, 1, 2, 7, 15, 30, 45, 58, 59, 60, 61, 90}
=============================================================================
