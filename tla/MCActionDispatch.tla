-------------------------- MODULE MCActionDispatch --------------------------
EXTENDS ActionDispatchProperties
=============================================================================
