------------------------- MODULE InheritedListeners -------------------------
(***************************************************************************)
(* What a program that the reference supervisor started finds when it asks *)
(* for its listeners: read_inherited_listeners and take.                   *)
(***************************************************************************)
EXTENDS ReferenceSupervisor

CONSTANT Names          \* the listeners' names, each as its colon-free parts

\* Every listener has a name of its own, and none has a colon. (Nothing checks it.)
PlainNames ==
    /\ Names = [i \in 1..nl |-> <<Names[i][1]>>]
    /\ \A i, j \in 1..nl : Names[i] = Names[j] => i = j

\* LISTEN_FDNAMES, joined by colons and split at every colon.
FdNames ==
    LET joined[i \in 0..nl] == IF i = 0 THEN <<>> ELSE joined[i - 1] \o Names[i]
    IN joined[nl]

\* The entry of the map under a name: the last slot that has it wins. A slot that
\* holds no socket is skipped, and a LISTEN_PID that is not the child's empties it.
Inherited(name) ==
    LET slots == {i \in 1..nl : /\ ~listenPid
                                /\ <<FdNames[i]>> = name
                                /\ table[Target(i)] \notin {Closed, Foreign}}
    IN IF slots = {} THEN Closed ELSE table[Target(CHOOSE i \in slots : \A j \in slots : j <= i)]

\* take and take_unix: only a listening socket is handed out.
TakeListener(name) ==
    IF \E i \in 1..nl : Inherited(name) = Listeners[i] THEN Inherited(name) ELSE Closed
-----------------------------------------------------------------------------
\* A program asks for a listener by name and is given the one configured under that
\* name, or none when a LISTEN_PID of the supervisor's own reached it, and a successor
\* finds the control socket where HANDOFF_SOCK_FD says: LISTEN_FDS, LISTEN_FDNAMES,
\* the order of the descriptors and install_inherited_fds agree.
ListenerByName ==
    stage = "done" =>
        /\ \A i \in 1..nl : TakeListener(Names[i]) = IF listenPid THEN Closed ELSE Listeners[i]
        /\ pc = "spawn" => table[3 + nl] = Control
=============================================================================
