------------------------------ MODULE MCTunnel ------------------------------
EXTENDS Tunnel

Load(up, down, breakable) ==
  [chunks |-> [d \in Directions |-> IF d = "up" THEN up ELSE down], breakable |-> breakable]

\* Two chunks up against one down over wires that hold, and one each way over
\* plugins whose connection may fail.
BothWays == {Load(2, 1, {}), Load(1, 1, {2})}
TwoUp == {Load(2, 0, {})}
=============================================================================
