--------------------------- MODULE MCJointTargets ---------------------------
\* Four places and a scan that visits three of them; in one place the arm would be
\* too near to the body.
EXTENDS JointTargets
Scan == <<3, 0, 1>>
=============================================================================
