------------------------------ MODULE MCResearch ------------------------------
EXTENDS ResearchLoop

\* A result that passes, and a better ratio with a drawdown that is too deep.
MCResults == {[sharpe |-> 2, drawdown |-> 14], [sharpe |-> 3, drawdown |-> 15]}

\* Nothing depends on which UUID is drawn: 1 comes before 2.
DrawnInOrder == used # {2}
=============================================================================
