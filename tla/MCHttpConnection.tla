-------------------------- MODULE MCHttpConnection --------------------------
EXTENDS HttpConnection
CONSTANTS c1, c2, c3
MCConns == {c1, c2, c3}
=============================================================================
