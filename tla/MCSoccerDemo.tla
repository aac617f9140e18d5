---------------------------- MODULE MCSoccerDemo ----------------------------
\* The soccer demo with a few falls and messages.
EXTENDS SoccerDemo
=============================================================================
