----------------------------- MODULE MCTcpServer -----------------------------
\* TcpServerProperties on a small instance: connections are interchangeable in the
\* safety runs, descriptor numbers are not, because open takes the lowest one.
EXTENDS TcpServerProperties, TLC

Symmetry == Permutations(Conns)
=============================================================================
