------------------------------ MODULE RpcRequests ------------------------------
(***************************************************************************)
(* The requests a client makes of the socket server: the messages that     *)
(* carry them and their parameters (wsock32-rpc.cpp), what the client      *)
(* fills in and reads when it is answered (ws2_32-rpc-client.cpp), and     *)
(* what the handler in the server takes and gives                          *)
(* (ws2_32-rpc-server.cpp).                                                *)
(*                                                                         *)
(* The two halves are written apart and share nothing but the parameters:  *)
(* Matched says that they fit.                                             *)
(***************************************************************************)
EXTENDS Naturals

\* The messages, one after the other.
Id == [shutdown |-> 1, close |-> 2, cleanup |-> 3, socket |-> 4, ioctl |-> 5, getsockopt |-> 6,
       setsockopt |-> 7, bind |-> 8, connect |-> 9, listen |-> 10, accept |-> 11, sendto |-> 12,
       recvfrom |-> 13, select |-> 14, isset |-> 15, getsockname |-> 16, getpeername |-> 17,
       gethostbyname |-> 18]

Name == DOMAIN Id

\* The fields of the parameters of each, but for the error that all of them have.
\* "how" is how to shut down, and of a clean-up the process to forget.
Option   == {"level", "optname", "option_length", "option_data"}
Address  == {"address_size", "address"}
From     == {"from_address_size", "from_address"}
To       == {"to_address_size", "to_address"}
Transfer == {"buffer_length", "buffer", "flags"}
Sets     == {"read_set", "write_set", "except_set"}

Params ==
  [shutdown |-> {"how"}, close |-> {}, cleanup |-> {"how"},
   socket |-> {"address_family", "type", "protocol"}, ioctl |-> {"command", "argument"},
   getsockopt |-> Option, setsockopt |-> Option, bind |-> Address, connect |-> Address,
   listen |-> {"backlog"}, accept |-> From, sendto |-> Transfer \cup To,
   recvfrom |-> Transfer \cup From, select |-> Sets \cup {"fd_set_count"},
   isset |-> {"set_to_check"}, getsockname |-> Address, getpeername |-> Address,
   gethostbyname |-> {"host_name", "has_result", "result"}]

-----------------------------------------------------------------------------
\* The client's half: the fields a call fills in, and those it reads when it
\* succeeds; when it does not it reads the error.  A field it does not fill in, or
\* has nothing to fill in with, is zero.
Asks(fills, reads) == [fills |-> fills, reads |-> reads]

AskShutdown    == Asks({"how"}, {})
AskClose       == Asks({}, {})
AskCleanup     == Asks({"how"}, {})
AskSocket      == Asks({"address_family", "type", "protocol"}, {})
AskIoctl       == Asks({"command", "argument"}, {"argument"})
\* (Two options are made up of the answer for a third, the type of the socket.)
AskGetSockOpt  == Asks(Option \ {"option_data"}, {"option_length", "option_data"})
AskSetSockOpt  == Asks(Option, {})
AskBind        == Asks(Address, {})
AskConnect     == Asks(Address, {})
AskListen      == Asks({"backlog"}, {})
AskAccept      == Asks(From, From)
AskSendTo      == Asks(Transfer \cup To, {})
AskRecvFrom    == Asks(Transfer \cup From, From)
AskSelect      == Asks(Sets \cup {"fd_set_count"}, Sets)
AskIsSet       == Asks({"set_to_check"}, {})
AskGetSockName == Asks({"address_size"}, Address)
AskGetPeerName == Asks({"address_size"}, Address)
AskHostByName  == Asks({"host_name"}, {"has_result", "result"})

Client ==
  [shutdown |-> AskShutdown, close |-> AskClose, cleanup |-> AskCleanup, socket |-> AskSocket,
   ioctl |-> AskIoctl, getsockopt |-> AskGetSockOpt, setsockopt |-> AskSetSockOpt,
   bind |-> AskBind, connect |-> AskConnect, listen |-> AskListen, accept |-> AskAccept,
   sendto |-> AskSendTo, recvfrom |-> AskRecvFrom, select |-> AskSelect, isset |-> AskIsSet,
   getsockname |-> AskGetSockName, getpeername |-> AskGetPeerName,
   gethostbyname |-> AskHostByName]

-----------------------------------------------------------------------------
\* The server's half: the fields a handler takes, and those it lets the backend
\* write, besides the error.  An address of size 0 is no address to the backend, but
\* a buffer of name 0 cannot be resolved.
Handles(takes, gives) == [takes |-> takes, gives |-> gives]

HandleShutdown   == Handles({"how"}, {})
HandleClose      == Handles({}, {})
HandleCleanup    == Handles({"how"}, {})
HandleSocket     == Handles({"address_family", "type", "protocol"}, {})
HandleIoctl      == Handles({"command", "argument"}, {"argument"})
HandleGetSockOpt == Handles(Option \ {"option_data"}, {"option_length", "option_data"})
HandleSetSockOpt == Handles(Option, {})
HandleBind       == Handles(Address, {})
HandleListen     == Handles({"backlog"}, {})
HandleAccept     == Handles({"from_address_size"}, From)
HandleSendTo     == Handles(Transfer \cup To, {})
HandleRecvFrom   == Handles(Transfer \cup {"from_address_size"}, From)
HandleSelect     == Handles(Sets \cup {"fd_set_count"}, Sets)
HandleIsSet      == Handles({"set_to_check"}, {})
HandleName       == Handles({"address_size"}, Address)
HandleHostByName == Handles({"host_name"}, {"has_result", "result"})

Server ==
  [shutdown |-> HandleShutdown, close |-> HandleClose, cleanup |-> HandleCleanup,
   socket |-> HandleSocket, ioctl |-> HandleIoctl, getsockopt |-> HandleGetSockOpt,
   setsockopt |-> HandleSetSockOpt, bind |-> HandleBind, connect |-> HandleBind,
   listen |-> HandleListen, accept |-> HandleAccept, sendto |-> HandleSendTo,
   recvfrom |-> HandleRecvFrom, select |-> HandleSelect, isset |-> HandleIsSet,
   getsockname |-> HandleName, getpeername |-> HandleName, gethostbyname |-> HandleHostByName]

-----------------------------------------------------------------------------
\* No two requests are told by the same message; a handler takes nothing the client
\* did not fill in, and the client reads nothing of an answer that the handler does
\* not give, all of it among the parameters of the request.
Matched ==
  /\ \A r, s \in Name : Id[r] = Id[s] => r = s
  /\ \A r \in Name :
       /\ Server[r].takes \subseteq Client[r].fills
       /\ Client[r].reads \subseteq Server[r].gives
       /\ Client[r].fills \cup Server[r].gives \subseteq Params[r]

\* The ways a request can go: with a section for its data or, when there are no
\* bytes to move, without the one its handler wants.
Ways(r) ==
  IF r = "cleanup" THEN {"cleanup"}
  ELSE IF "buffer" \in Client[r].fills THEN {"transfer", "empty"} ELSE {"plain"}
=============================================================================
