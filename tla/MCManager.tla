------------------------------ MODULE MCManager ------------------------------
\* The manager with two modules that take two cycles to come to rest.
EXTENDS Manager

CONSTANTS walking, base, none

MCModules == {walking, base}
=============================================================================
