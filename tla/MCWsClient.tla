---------------------------- MODULE MCWsClient ----------------------------
EXTENDS WsClient
=============================================================================
