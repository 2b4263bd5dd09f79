---------------------------- MODULE MCRpcLocks ----------------------------
EXTENDS RpcLocks
=============================================================================
