------------------------------- MODULE MCRun -------------------------------
EXTENDS Run

AllStages == OptionalStages
=============================================================================
