---------------------------- MODULE MCTcpServer -----------------------------
(***************************************************************************)
(* Finite instances of TcpServer.                                          *)
(***************************************************************************)
EXTENDS TcpServer, TLC

CONSTANTS c1, c2, c3, k, v

MCCoroutines  == Clients \cup {Acceptor}
MCDescriptors == ClientFds \cup {ListenFd}

Request(type) == [type |-> type, key |-> k, value |-> v]

MCScript == (c1 :> <<Request("set"), Request("get")>>) @@ (c2 :> <<Request("quit")>>) @@ (c3 :> <<>>)
=============================================================================
