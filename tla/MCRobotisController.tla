------------------------ MODULE MCRobotisController ------------------------
(* Instances of RobotisController for TLC: OP3's whole-body action module   *)
(* against the walking module that owns the legs.                           *)
EXTENDS RobotisController, TLC

CONSTANTS leg, neck, action, walking, low, high

MCJoints  == {leg, neck}
MCModules == {action, walking}
MCResults == action :> {leg, neck} @@ walking :> {leg}

MCPositionControl == [m \in MCModules |-> "position"]
\* The framework also drives velocity and current modules.
MCMixedControl == action :> "position" @@ walking :> "velocity"

\* Goal values are only compared with each other.
MCGoals == {low, high}
GoalSymmetry == Permutations(MCGoals)

\* Joint requests: one that leaves a joint with a module it has disabled, since it
\* names one that cannot drive that joint, and one that hands every joint over.
MCPartialJointRequests == { leg :> walking @@ neck :> walking }
MCJointRequests        == { leg :> walking @@ neck :> action }
=============================================================================
