----------------------------- MODULE Incumbent ------------------------------
(***************************************************************************)
(* The incumbent O: Incumbent::serve, handle_session and run_session_loop  *)
(* (crates/handoff/src/incumbent.rs), and the cold start that precedes it. *)
(* A Drainable hook may return Ok or Err; a write fails once the peer has  *)
(* closed; a read returns what is buffered, then EOF.                      *)
(***************************************************************************)
EXTENDS HandoffState

othersUnchanged == UNCHANGED <<path, pipe, supervisorVars, faults>>

\* The connection of p's session.
C(p) == sess[p].conn

At(p, where) == pc' = [pc EXCEPT ![p] = where]
Session(p, s) == sess' = [sess EXCEPT ![p] = s]
Consumer(p, q) == consumer' = [consumer EXCEPT ![p] = q]

\* The session loop has m as the next whole frame.
Receives(p, m) ==
    /\ pc[p] = "loop"
    /\ conn[C(p)].req # <<>>
    /\ m = Head(conn[C(p)].req)

CanReply(p) == conn[C(p)].sOpen

\* resume_after_abort returns Ok or Err.
ResumeOutcome == {"serving", "resume_failed"}
-----------------------------------------------------------------------------
\* primitive main without HANDOFF_ROLE: acquire the flock, or exit, because it
\* is held or with an I/O error.
ColdStart(p) ==
    /\ pc[p] = "unborn"
    /\ \/ /\ Acquire(p)
          /\ At(p, "cold_bind")
          /\ Consumer(p, "serving")
       \/ /\ At(p, "dead")
          /\ UNCHANGED <<flock, consumer>>
    /\ UNCHANGED <<sess, conn>>
    /\ othersUnchanged

\* bind_cold_start: bind_replacing renames a fresh socket over the path, or
\* bind_socket fails and the process ends.
BindColdStart(p) ==
    /\ pc[p] = "cold_bind"
    /\ \/ /\ path' = p
          /\ At(p, "accept")
          /\ UNCHANGED <<flock, consumer, sess, conn, pipe, supervisorVars, faults>>
       \/ FatalIo(p)
-----------------------------------------------------------------------------
\* Seeded fault: no cleanup resume after a session that drained.
LeaveSession_NoResume(p, s, q, k, isErr) ==
    /\ Consumer(p, q)
    /\ Session(p, NoSession)
    /\ conn' = [conn EXCEPT ![C(p)] = CloseO(k)]
    /\ At(p, IF isErr /\ flock' # p THEN "recover" ELSE "accept")

(***************************************************************************)
(* handle_session returns.  s is the SessionState, q the consumer and k    *)
(* the connection as the session loop leaves them.  A drained, unsealed    *)
(* consumer is resumed; the stream is dropped; after an error serve        *)
(* recovers the flock when self.lock is None, otherwise it accepts again.  *)
(***************************************************************************)
LeaveSession(p, s, q, k, isErr) ==
    /\ \E r \in IF s.drained /\ ~s.sealed THEN ResumeOutcome ELSE {q} : Consumer(p, r)
    /\ Session(p, NoSession)
    /\ conn' = [conn EXCEPT ![C(p)] = CloseO(k)]
    /\ At(p, IF isErr /\ flock' # p THEN "recover" ELSE "accept")

EndSession(p, s, q, isErr) == LeaveSession(p, s, q, conn[C(p)], isErr)

\* An early return of the session with an error and no other effect.
SessionError(p) ==
    /\ UNCHANGED flock
    /\ EndSession(p, sess[p], consumer[p], TRUE)

\* Back to the top of the session loop with the request consumed.
NextRequest(p, s, q, out) ==
    /\ Session(p, s)
    /\ Consumer(p, q)
    /\ conn' = [conn EXCEPT ![C(p)] = Answer(@, out)]
    /\ At(p, "loop")

Backlog(p) == {c \in Conn : conn[c].o = p /\ conn[c].oOpen}

\* serve: accept the oldest pending connection; handle_session writes Hello.
Accept(p) ==
    /\ pc[p] = "accept"
    /\ \E c \in Backlog(p) :
          /\ \A d \in Backlog(p) : c <= d
          /\ IF conn[c].sOpen
             THEN /\ conn' = [conn EXCEPT ![c] = Reply(@, Msg("Hello", 0))]
                  /\ Session(p, [NoSession EXCEPT !.conn = c])
                  /\ At(p, "hello_ack")
             ELSE /\ conn' = [conn EXCEPT ![c] = CloseO(@)]
                  /\ UNCHANGED <<sess, pc>>
    /\ UNCHANGED <<flock, consumer>>
    /\ othersUnchanged

\* Seeded fault: running out of descriptors ends serve.
AcceptFails_Fatal(p) ==
    /\ pc[p] = "accept" /\ Backlog(p) # {}
    /\ Exit(p)
    /\ UNCHANGED <<path, supervisorVars, faults>>

\* accept fails for a reason classify_accept_error calls Retry or Exhausted: serve
\* goes on, after a backoff, and the connection stays in the backlog.  A Fatal one
\* ends serve.
AcceptFails(p) ==
    /\ pc[p] = "accept"
    /\ \/ Backlog(p) # {} /\ UNCHANGED vars
       \/ FatalIo(p)

\* HelloAck arrives: enter the session loop.  Any other frame is an error.
RecvHelloAck(p) ==
    /\ pc[p] = "hello_ack"
    /\ conn[C(p)].req # <<>>
    /\ IF Head(conn[C(p)].req).type = "HelloAck"
       THEN /\ conn' = [conn EXCEPT ![C(p)] = TakeRequest(@)]
            /\ At(p, "loop")
            /\ UNCHANGED <<flock, consumer, sess>>
       ELSE SessionError(p)
    /\ othersUnchanged

\* No HelloAck: EOF, or HELLO_READ_TIMEOUT without a byte.
NoHelloAck(p) ==
    /\ pc[p] = "hello_ack"
    /\ conn[C(p)].req = <<>>
    /\ SessionError(p)
    /\ othersUnchanged

\* Seeded fault: EOF is a clean close after seal, too.
Disconnected_Clean(p) ==
    /\ pc[p] = "loop"
    /\ conn[C(p)].req = <<>>
    /\ ~conn[C(p)].sOpen
    /\ UNCHANGED flock
    /\ EndSession(p, sess[p], consumer[p], FALSE)
    /\ othersUnchanged

\* EOF in the session loop: an error after seal, a clean close before it.
Disconnected(p) ==
    /\ pc[p] = "loop"
    /\ conn[C(p)].req = <<>>
    /\ ~conn[C(p)].sOpen
    /\ UNCHANGED flock
    /\ EndSession(p, sess[p], consumer[p], sess[p].sealed)
    /\ othersUnchanged
-----------------------------------------------------------------------------
\* PrepareHandoff: one handoff per session; drain starts.
RecvPrepareHandoff(p) ==
    \E m \in Message :
       /\ Receives(p, m)
       /\ m.type = "PrepareHandoff"
       /\ IF sess[p].active \in {0, m.id}
          THEN /\ Session(p, [sess[p] EXCEPT !.active = m.id])
               /\ conn' = [conn EXCEPT ![C(p)] = TakeRequest(@)]
               /\ At(p, "drain")
               /\ UNCHANGED <<flock, consumer>>
          ELSE SessionError(p)
       /\ othersUnchanged

\* drain returns Ok: the consumer has stopped accepting; write Drained.
DrainOk(p) ==
    /\ pc[p] = "drain"
    /\ UNCHANGED flock
    /\ LET s == [sess[p] EXCEPT !.drained = TRUE]
           q == IF consumer[p] = "sealed" THEN "sealed" ELSE "drained"
       IN  IF CanReply(p)
           THEN /\ Session(p, s)
                /\ Consumer(p, q)
                /\ conn' = [conn EXCEPT ![C(p)] = Reply(@, Msg("Drained", 0))]
                /\ At(p, "loop")
           ELSE EndSession(p, s, q, TRUE)
    /\ othersUnchanged

\* drain returns Err: the `?` ends the session before drained is set.
DrainErr(p) ==
    /\ pc[p] = "drain"
    /\ UNCHANGED flock
    /\ EndSession(p, sess[p],
                  IF consumer[p] = "sealed" THEN "sealed" ELSE "drain_failed", TRUE)
    /\ othersUnchanged

\* SealRequest for the active handoff: seal starts.
RecvSealRequest(p) ==
    \E m \in Message :
       /\ Receives(p, m)
       /\ m.type = "SealRequest"
       /\ IF sess[p].active = m.id
          THEN /\ conn' = [conn EXCEPT ![C(p)] = TakeRequest(@)]
               /\ At(p, "seal")
               /\ UNCHANGED <<flock, consumer, sess>>
          ELSE SessionError(p)
       /\ othersUnchanged

\* Seeded fault: seal succeeds and the flock is kept.
SealOk_KeepsLock(p) ==
    /\ pc[p] = "seal"
    /\ Session(p, [sess[p] EXCEPT !.sealed = TRUE])
    /\ Consumer(p, "sealed")
    /\ At(p, "seal_complete")
    /\ UNCHANGED <<flock, conn>>
    /\ othersUnchanged

\* seal returns Ok: the writer is closed, then the flock is released.
SealOk(p) ==
    /\ pc[p] = "seal"
    /\ flock' = IF flock = p THEN None ELSE flock
    /\ Session(p, [sess[p] EXCEPT !.sealed = TRUE])
    /\ Consumer(p, "sealed")
    /\ At(p, "seal_complete")
    /\ UNCHANGED conn
    /\ othersUnchanged

\* Write SealComplete; a failed write is a session error after seal.
SendSealComplete(p) ==
    /\ pc[p] = "seal_complete"
    /\ IF CanReply(p)
       THEN /\ conn' = [conn EXCEPT ![C(p)] = Reply(@, Msg("SealComplete", sess[p].active))]
            /\ At(p, "loop")
            /\ UNCHANGED <<flock, consumer, sess>>
       ELSE SessionError(p)
    /\ othersUnchanged

\* seal returns Err: write SealFailed, then resume with the lock still held.
\* A failed write or a failed resume ends the session.
SealErr(p) ==
    /\ pc[p] = "seal"
    /\ UNCHANGED flock
    /\ IF CanReply(p)
       THEN LET k == Reply(conn[C(p)], Msg("SealFailed", sess[p].active))
            IN  \/ /\ Session(p, [sess[p] EXCEPT !.drained = FALSE, !.active = 0])
                   /\ Consumer(p, "serving")
                   /\ conn' = [conn EXCEPT ![C(p)] = k]
                   /\ At(p, "loop")
                \/ LeaveSession(p, sess[p], "resume_failed", k, TRUE)
       ELSE EndSession(p, sess[p], consumer[p], TRUE)
    /\ othersUnchanged

\* Seeded fault: Commit is taken without a seal.
RecvCommit_Unsealed(p) ==
    \E m \in Message :
       /\ Receives(p, m)
       /\ m.type = "Commit"
       /\ IF sess[p].active = m.id THEN Exit(p) ELSE SessionError(p) /\ UNCHANGED pipe
       /\ UNCHANGED <<path, supervisorVars, faults>>

\* Commit after seal: serve returns and the process exits.
RecvCommit(p) ==
    \E m \in Message :
       /\ Receives(p, m)
       /\ m.type = "Commit"
       /\ IF sess[p].active = m.id /\ sess[p].sealed
          THEN Exit(p)
          ELSE SessionError(p) /\ UNCHANGED pipe
       /\ UNCHANGED <<path, supervisorVars, faults>>

\* ResumeAfterAbort, and Abort, of the active handoff.  Sealed: re-acquire the
\* flock, then resume.  Only drained: resume.  A refused lock, an I/O error of
\* acquire or a failed resume ends the session with the SessionState it had.
RecvResume(p) ==
    \E m \in Message :
       /\ Receives(p, m)
       /\ m.type \in {"ResumeAfterAbort", "Abort"}
       /\ LET idle == [sess[p] EXCEPT !.active = 0, !.sealed = FALSE, !.drained = FALSE]
              resumed(q) == NextRequest(p, idle, q, <<>>)
              failed == EndSession(p, sess[p], "resume_failed", TRUE)
          IN  IF sess[p].active # m.id THEN SessionError(p)
              ELSE IF sess[p].sealed
                   THEN \/ SessionError(p)
                        \/ Acquire(p) /\ (resumed("serving") \/ failed)
                   ELSE /\ UNCHANGED flock
                        /\ IF sess[p].drained THEN resumed("serving") \/ failed
                           ELSE resumed(consumer[p])
       /\ othersUnchanged

\* Heartbeat is echoed.
RecvHeartbeat(p) ==
    \E m \in Message :
       /\ Receives(p, m)
       /\ m.type = "Heartbeat"
       /\ IF CanReply(p)
          THEN /\ NextRequest(p, sess[p], consumer[p], <<Msg("Heartbeat", 0)>>)
               /\ UNCHANGED flock
          ELSE SessionError(p)
       /\ othersUnchanged

\* Every other frame ends the session.
RecvUnexpected(p) ==
    \E m \in Message :
       /\ Receives(p, m)
       /\ m.type \in {"Hello", "HelloAck", "Drained", "SealComplete", "SealFailed",
                      "Begin", "Ready"}
       /\ SessionError(p)
       /\ othersUnchanged

\* run_with_heartbeats: a frame every HEARTBEAT_INTERVAL while a hook runs.
\* Bound: at most one unread heartbeat; a second changes nothing for S.
HeartbeatDuringHook(p) ==
    /\ pc[p] \in {"drain", "seal"}
    /\ CanReply(p)
    /\ \A i \in DOMAIN conn[C(p)].rsp : conn[C(p)].rsp[i].type # "Heartbeat"
    /\ conn' = [conn EXCEPT ![C(p)] = Reply(@, Msg("Heartbeat", 0))]
    /\ UNCHANGED <<flock, pc, consumer, sess>>
    /\ othersUnchanged
-----------------------------------------------------------------------------
\* Seeded fault: the recovery resumes the consumer without the flock.
RecoverLock_NoLock(p) ==
    /\ pc[p] = "recover"
    /\ \E r \in ResumeOutcome : Consumer(p, r)
    /\ At(p, "accept")
    /\ UNCHANGED <<flock, sess, conn>>
    /\ othersUnchanged

\* serve after a session error without the lock: acquire_with_short_retry
\* succeeds, and the consumer is resumed (an Err of it is only logged); or it
\* meets an error other than LockHeld, which serve returns at once.
RecoverLock(p) ==
    /\ pc[p] = "recover"
    /\ \/ /\ Acquire(p)
          /\ \E r \in ResumeOutcome : Consumer(p, r)
          /\ At(p, "accept")
          /\ UNCHANGED <<sess, conn>>
          /\ othersUnchanged
       \/ FatalIo(p)

\* Seeded fault: serve gives up without trying the lock.
GiveUp_Untried(p) ==
    /\ pc[p] = "recover"
    /\ Exit(p)
    /\ UNCHANGED <<path, supervisorVars, faults>>

\* The lock is still held after RESUME_FLOCK_TIMEOUT: serve returns Err.  The other
\* errors of acquire end it at once (RecoverLock).
GiveUp(p) ==
    /\ pc[p] = "recover"
    /\ LockHeld
    /\ Exit(p)
    /\ UNCHANGED <<path, supervisorVars, faults>>

\* A step of the thread that runs serve, which alone makes progress on a
\* session; heartbeats come from a second thread.
ServeStep(p) ==
    \/ Accept(p) \/ RecvHelloAck(p) \/ NoHelloAck(p) \/ Disconnected(p)
    \/ RecvPrepareHandoff(p) \/ DrainOk(p) \/ DrainErr(p)
    \/ RecvSealRequest(p) \/ SealOk(p) \/ SendSealComplete(p) \/ SealErr(p)
    \/ RecvCommit(p) \/ RecvResume(p) \/ RecvHeartbeat(p) \/ RecvUnexpected(p)
    \/ RecoverLock(p) \/ GiveUp(p) \/ AcceptFails(p)
-----------------------------------------------------------------------------
\* The consumer may have its writer open.
Writing(p) == consumer[p] \notin {"none", "sealed"}

\* Only the holder of the data-dir flock has a writer, and a live holder has
\* one: seal closes the writer before self.lock is dropped, and every path
\* that resumes a sealed consumer (ResumeAfterAbort, Abort, the recovery in
\* serve) re-acquires the flock first and never keeps it without resuming.
OwnerIsWriter == \A p \in Proc : Writing(p) <=> flock = p

\* However a session ended (commit refused, supervisor gone, seal failed, lock
\* refused), the incumbent that is back in accept owns the data dir and has
\* told its consumer to resume; only a consumer whose own hook failed is
\* excused.
AcceptingIsResumed ==
    \A p \in Proc :
       pc[p] = "accept" =>
          /\ flock = p
          /\ consumer[p] \in {"serving", "resume_failed", "drain_failed"}
=============================================================================
