----------------------------- MODULE MCTcpClient -----------------------------
\* TcpClientProperties on a small instance.
EXTENDS TcpClientProperties
=============================================================================
