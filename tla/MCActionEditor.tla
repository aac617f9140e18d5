--------------------------- MODULE MCActionEditor ---------------------------
\* A joint on either side. The first page has two steps that differ and one behind them that
\* is not played, the second is empty or full, with a joint that was not taught.
EXTENDS ActionEditor

MCJoints == {"left", "right"}
MCOpposite == [j \in MCJoints |-> IF j = "left" THEN "right" ELSE "left"]
MCRight == {"right"}

MCStep(l, r) == [j \in MCJoints |-> IF j = "left" THEN l ELSE r]
MCPage(steps, n) == [step |-> steps, count |-> n, repeat |-> 1]

MCEmpty == MCPage([k \in 1 .. 3 |-> MCStep(-1, -1)], 0)
MCTwo   == MCPage(<<MCStep(0, 1), MCStep(1, 1), MCStep(-1, -1)>>, 2)
MCFull  == MCPage(<<MCStep(0, 0), MCStep(1, 0), MCStep(0, -1)>>, 3)

MCFiles == {<<MCTwo, MCEmpty>>, <<MCTwo, MCFull>>}
=============================================================================
