-------------------------- MODULE MC_SocketEvents --------------------------
(***************************************************************************)
(* Instances of SocketEvents.  A window is told of a client's connection,  *)
(* its data, its room to send and its end; an event object of one kind of  *)
(* event at a time.                                                        *)
(***************************************************************************)
EXTENDS SocketEvents

CONSTANTS a, main, other, event, window

Mixed == [x \in Target |->
            IF x \in Window THEN {{"CONNECT", "READ", "WRITE", "CLOSE"}}
            ELSE {{"READ"}, {"ACCEPT"}}]
=============================================================================
