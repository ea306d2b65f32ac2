---------------------------- MODULE MCPtyService ----------------------------
EXTENDS PtyService
=============================================================================
