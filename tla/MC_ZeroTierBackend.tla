-------------------------- MODULE MC_ZeroTierBackend --------------------------
(***************************************************************************)
(* A program that connects and selects, one that selects over two sockets, *)
(* a server, one that broadcasts to whom it hears from, a client, and one  *)
(* that asks for a name, with a network and without.                       *)
(***************************************************************************)
EXTENDS ZeroTierBackend

CONSTANTS s1, s2, main, other, p, q

Asks(r, w, x) == [read |-> r, write |-> w, except |-> x]
Ask(sets, timed) == [sets |-> sets, timed |-> timed]

Connecting == {Ask(Asks({}, {s1}, {s1}), TRUE), Ask(Asks({s1}, {}, {}), FALSE)}
Serving    == {Ask(Asks({s1, s2}, {s2}, {}), FALSE)}

MCPrograms ==
  {[calls |-> {"WSAStartup", "WSACleanup", "socket", "closesocket", "setsockopt", "getsockopt",
               "__WSAFDIsSet", "ioctlsocket"},
    requests |-> Connecting, sockets |-> {s1}, network |-> TRUE],
   [calls |-> {"WSAStartup", "socket", "closesocket"},
    requests |-> Serving, sockets |-> {s1, s2}, network |-> TRUE],
   [calls |-> {"WSAStartup", "socket", "listen", "accept", "getpeername", "closesocket"},
    requests |-> {}, sockets |-> {s1, s2}, network |-> TRUE],
   [calls |-> {"WSAStartup", "socket", "recvfrom", "sendto"},
    requests |-> {}, sockets |-> {s1}, network |-> TRUE],
   [calls |-> {"WSAStartup", "WSACleanup", "socket", "bind", "getsockname", "connect", "shutdown"},
    requests |-> {}, sockets |-> {s1}, network |-> TRUE],
   [calls |-> {"WSAStartup", "socket", "gethostbyname"},
    requests |-> {}, sockets |-> {s1}, network |-> TRUE],
   [calls |-> {"WSAStartup", "socket", "gethostbyname"},
    requests |-> {}, sockets |-> {s1}, network |-> FALSE]}

MCReadiness == {{}, {"read", "write"}, {"write", "except"}}
=============================================================================
