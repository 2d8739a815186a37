------------------------------- MODULE MCTcp -------------------------------
EXTENDS TcpConn
TwoLives == <<29, 5>>
SomeStreams == {<<2, 0>>, <<1, 1>>, <<0, 3>>}
=============================================================================
