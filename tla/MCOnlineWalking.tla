--------------------------- MODULE MCOnlineWalking ---------------------------
\* Poses up to one place away, walks of two steps and the three that are added, and motions
\* as long as the ramp of an offset.
EXTENDS OnlineWalking
=============================================================================
