------------------------------ MODULE MCPubSub ------------------------------
EXTENDS PubSub
MCClients == {0, 1}
MCListeners == {0, 1}
MCListener == {0}
=============================================================================
