----------------------------- MODULE Successor ------------------------------
(***************************************************************************)
(* The successor N: Successor::handshake, wait_for_begin, the acquisition  *)
(* of the data-dir flock and announce_and_bind (crates/handoff/src/role.rs *)
(* and the documented order of calls, handoff-tests' run_successor).  An   *)
(* error of any of them ends the process.                                  *)
(***************************************************************************)
EXTENDS HandoffState

successorFrame == UNCHANGED <<path, conn, sess, supervisorVars, faults>>

ToN(p) == pipe[p].toN

Step(p, where) == pc' = [pc EXCEPT ![p] = where]

\* The socketpair with HelloAck taken: it carries the handoff id.
Handshook(w) == [w EXCEPT !.toN = Tail(@), !.id = Head(w.toN).id]

\* N's process ends: a `?` in the consumer's main.
Fails(p) ==
    /\ Exit(p)
    /\ UNCHANGED <<path, supervisorVars, faults>>

\* handshake, first half: write Hello.
SendHello(p) ==
    /\ pc[p] = "spawned"
    /\ \/ /\ pipe[p].sOpen
          /\ pipe' = [pipe EXCEPT ![p] = SendToS(@, Msg("Hello", 0))]
          /\ Step(p, "handshake")
          /\ UNCHANGED <<flock, consumer>>
          /\ successorFrame
       \/ /\ ~pipe[p].sOpen
          /\ Fails(p)

\* handshake, second half: read HelloAck.
RecvAck(p) ==
    /\ pc[p] = "handshake"
    /\ ToN(p) # <<>>
    /\ IF Head(ToN(p)).type = "HelloAck"
       THEN /\ pipe' = [pipe EXCEPT ![p] = Handshook(@)]
            /\ Step(p, "wait_for_begin")
            /\ UNCHANGED <<flock, consumer>>
            /\ successorFrame
       ELSE Fails(p)

\* wait_for_begin: Begin of this handoff goes on, a heartbeat is skipped,
\* Abort, a foreign Begin and any other frame are errors.
RecvBegin(p) ==
    /\ pc[p] = "wait_for_begin"
    /\ ToN(p) # <<>>
    /\ LET m == Head(ToN(p)) IN
       IF m = Msg("Begin", pipe[p].id) \/ m.type = "Heartbeat"
       THEN /\ pipe' = [pipe EXCEPT ![p] = TakeFromS(@)]
            /\ Step(p, IF m.type = "Begin" THEN "begun" ELSE "wait_for_begin")
            /\ UNCHANGED <<flock, consumer>>
            /\ successorFrame
       ELSE Fails(p)

\* EOF in handshake or wait_for_begin: S is gone or has dropped the stream.
SupervisorGone(p) ==
    /\ pc[p] \in {"handshake", "wait_for_begin"}
    /\ ToN(p) = <<>>
    /\ ~pipe[p].sOpen
    /\ Fails(p)

\* DataDirLock::acquire: one attempt, refused or failed it ends N.  With the flock N
\* opens its writer.
AcquireFlock(p) ==
    /\ pc[p] = "begun"
    /\ \/ /\ Acquire(p)
          /\ Step(p, "locked")
          /\ consumer' = [consumer EXCEPT ![p] = "serving"]
          /\ UNCHANGED pipe
          /\ successorFrame
       \/ Fails(p)

\* The flock is N's, and the pidfile write at the end of acquire, or what the consumer
\* does before announce_and_bind, fails.
InitFails(p) ==
    /\ pc[p] = "locked"
    /\ Fails(p)

\* start_heartbeats while the consumer initialises.
\* Bound: at most one unread heartbeat.
HeartbeatDuringInit(p) ==
    /\ pc[p] \in {"begun", "locked"}
    /\ pipe[p].sOpen
    /\ \A i \in DOMAIN pipe[p].toS : pipe[p].toS[i].type # "Heartbeat"
    /\ pipe' = [pipe EXCEPT ![p] = SendToS(@, Msg("Heartbeat", 0))]
    /\ UNCHANGED <<flock, pc, consumer>>
    /\ successorFrame

\* announce_ready: write Ready and drop the control stream.
AnnounceReady(p) ==
    /\ pc[p] = "locked"
    /\ \/ /\ pipe[p].sOpen
          /\ pipe' = [pipe EXCEPT ![p] = CloseN(SendToS(@, Msg("Ready", @.id)))]
          /\ Step(p, "announced")
          /\ UNCHANGED <<flock, consumer>>
          /\ successorFrame
       \/ /\ ~pipe[p].sOpen
          /\ Fails(p)

\* bind_after_ready: rename over the control path, and serve follows; or bind_socket
\* fails and N ends, after Ready.
BindAfterReady(p) ==
    /\ pc[p] = "announced"
    /\ \/ /\ path' = p
          /\ Step(p, "accept")
          /\ UNCHANGED <<flock, consumer, sess, conn, pipe, supervisorVars, faults>>
       \/ FatalIo(p)

SuccessorStep(p) ==
    \/ SendHello(p) \/ RecvAck(p) \/ RecvBegin(p) \/ SupervisorGone(p)
    \/ AcquireFlock(p) \/ InitFails(p) \/ AnnounceReady(p) \/ BindAfterReady(p)
=============================================================================
