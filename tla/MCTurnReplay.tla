----------------------------- MODULE MCTurnReplay ------------------------------
EXTENDS TurnReplay
===============================================================================
