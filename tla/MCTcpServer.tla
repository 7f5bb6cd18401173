---------------------------- MODULE MCTcpServer ----------------------------
(* Three connections for two sockets; the third comes from the client that *)
(* made the first.                                                         *)
EXTENDS TcpServer

MCIp == <<"ip1", "ip2", "ip1">>
MCFd == 1 .. 2
=============================================================================
