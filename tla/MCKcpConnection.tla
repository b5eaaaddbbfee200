--------------------------- MODULE MCKcpConnection --------------------------
EXTENDS KcpConnection
=============================================================================
