-------------------------- MODULE MCControlledTurn --------------------------
EXTENDS ControlledTurn
=============================================================================
