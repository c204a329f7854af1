------------------------------ MODULE MCSimHooks -------------------------------
EXTENDS SimHooks
CONSTANTS h1, h2, h3
MCHooks == {h1, h2, h3}
===============================================================================
