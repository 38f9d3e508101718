---------------------------- MODULE MCConnPool ----------------------------
EXTENDS ConnPool
=============================================================================
