------------------------- MODULE HandoffTypeProofs --------------------------
(***************************************************************************)
(* Type correctness of Handoff, for every set of processes and every bound *)
(* on connections and faults: each  step of each role, taken from a state  *)
(* of HandoffInv, preserves TypeOK.  Then what the proofs of the other     *)
(* invariants have in common: where a step takes a process and whose its   *)
(* connections are.  Last, that each step preserves ChildInv.              *)
(***************************************************************************)
EXTENDS HandoffInvariant, TLAPS

USE NoneAssumption, BoundAssumption
-----------------------------------------------------------------------------
(***************************************************************************)
(* What the operators on connections and socketpairs return.               *)
(***************************************************************************)

\* Frames are messages.
LEMMA MsgType1 ==
    ASSUME NEW t \in MsgType, NEW h \in Id
    PROVE  Msg(t, h) \in Message
BY DEF Msg, Message

\* Appending a frame to a connection's queues, and taking one from them, yields
\* a connection.
LEMMA ConnQueueType ==
    ASSUME NEW k \in ConnState, NEW m \in Message
    PROVE  /\ Request(k, m) \in ConnState
           /\ Reply(k, m) \in ConnState
           /\ k.req # <<>> => TakeRequest(k) \in ConnState
           /\ k.rsp # <<>> => TakeReply(k) \in ConnState
<1>1. k.req \in Seq(Message) /\ k.rsp \in Seq(Message)
  BY DEF ConnState
<1>2. Append(k.req, m) \in Seq(Message) /\ Append(k.rsp, m) \in Seq(Message)
  BY <1>1
<1>3. k.req # <<>> => Tail(k.req) \in Seq(Message)
  BY <1>1
<1>4. k.rsp # <<>> => Tail(k.rsp) \in Seq(Message)
  BY <1>1
<1>5. Request(k, m) \in ConnState /\ Reply(k, m) \in ConnState
  BY <1>2, Zenon DEF ConnState, Request, Reply
<1>6. QED
  BY <1>3, <1>4, <1>5, Zenon DEF ConnState, TakeRequest, TakeReply

\* Closing either end yields a connection.
LEMMA ConnCloseType ==
    ASSUME NEW k \in ConnState
    PROVE  CloseO(k) \in ConnState /\ CloseS(k) \in ConnState
<1>1. <<>> \in Seq(Message)
  OBVIOUS
<1>2. NoConn \in ConnState
  BY <1>1 DEF ConnState, NoConn
<1>3. [k EXCEPT !.oOpen = FALSE, !.req = <<>>] \in ConnState
  BY <1>1, Zenon DEF ConnState
<1>4. [k EXCEPT !.sOpen = FALSE, !.rsp = <<>>] \in ConnState
  BY <1>1, Zenon DEF ConnState
<1>5. QED
  BY <1>2, <1>3, <1>4 DEF CloseO, CloseS

\* Closing either end of a socketpair yields a socketpair.
LEMMA PipeCloseType ==
    ASSUME NEW w \in PipeState
    PROVE  CloseN(w) \in PipeState /\ ClosePipeS(w) \in PipeState
<1>1. <<>> \in Seq(Message) /\ 0 \in Id
  BY DEF Id
<1>2. NoPipe \in PipeState
  BY <1>1 DEF PipeState, NoPipe
<1>3. [w EXCEPT !.nOpen = FALSE, !.toN = <<>>] \in PipeState
  BY <1>1, Zenon DEF PipeState
<1>4. [w EXCEPT !.sOpen = FALSE, !.toS = <<>>] \in PipeState
  BY <1>1, Zenon DEF PipeState
<1>5. QED
  BY <1>2, <1>3, <1>4 DEF CloseN, ClosePipeS

\* The end of a process keeps every variable it touches in its type.
LEMMA ExitType ==
    ASSUME TypeOK, NEW p \in Proc, Exit(p)
    PROVE  /\ flock' \in Proc \cup {None}
           /\ pc' \in [Proc -> ProcPC]
           /\ consumer' \in [Proc -> ConsumerState]
           /\ sess' \in [Proc -> SessionState]
           /\ conn' \in [Conn -> ConnState]
           /\ pipe' \in [Proc -> PipeState]
<1>1. conn' \in [Conn -> ConnState]
  BY ConnCloseType DEF Exit, TypeOK
<1>2. pipe' \in [Proc -> PipeState]
  BY PipeCloseType DEF Exit, TypeOK
<1>3. QED
  BY <1>1, <1>2 DEF Exit, TypeOK, ProcPC, ConsumerState, SessionState, NoSession, Id
-----------------------------------------------------------------------------
(***************************************************************************)
(* Type correctness, one lemma per role.                                   *)
(***************************************************************************)

\* The connection of a session is a connection.
LEMMA SessionConn ==
    ASSUME HandoffInv, NEW p \in Proc, pc[p] \in InLoop \cup {"hello_ack"}
    PROVE  C(p) \in Conn /\ conn[C(p)] \in ConnState
BY DEF HandoffInv, TypeOK, OwnershipInv, SessionState, Id, Conn, C

\* What the invariant says of one process, one connection and the handoff id.
LEMMA InvariantFacts ==
    ASSUME HandoffInv
    PROVE  /\ TypeOK /\ SupervisorInv /\ SealOnceInv /\ hid \in Id
           /\ \A c \in Conn : conn[c] \in ConnState /\ conn[c].req \in Seq(Message)
           /\ \A p \in Proc : OwnershipInv(p) /\ sess[p] \in SessionState
<1>1. TypeOK /\ SupervisorInv /\ SealOnceInv /\ \A p \in Proc : OwnershipInv(p)
  BY Zenon DEF HandoffInv
<1>2. hid \in Id /\ conn \in [Conn -> ConnState] /\ sess \in [Proc -> SessionState]
  BY <1>1, Zenon DEF TypeOK
<1>3. \A k \in ConnState : k.req \in Seq(Message) BY DEF ConnState
<1> QED BY <1>1, <1>2, <1>3, Zenon

\* Leaving a session keeps the variables it touches in their types.
LEMMA LeaveSessionType ==
    ASSUME TypeOK, NEW p \in Proc, NEW s, NEW q \in ConsumerState, NEW k \in ConnState,
           NEW e, LeaveSession(p, s, q, k, e)
    PROVE  /\ pc' \in [Proc -> ProcPC]
           /\ consumer' \in [Proc -> ConsumerState]
           /\ sess' \in [Proc -> SessionState]
           /\ conn' \in [Conn -> ConnState]
<1>1. CloseO(k) \in ConnState
  BY ConnCloseType
<1>2. conn' \in [Conn -> ConnState]
  BY <1>1, Zenon DEF LeaveSession, TypeOK
<1>3. pc' \in [Proc -> ProcPC]
  BY DEF LeaveSession, At, TypeOK, ProcPC, ServePC
<1>4. sess' \in [Proc -> SessionState]
  BY DEF LeaveSession, Session, TypeOK, SessionState, NoSession, Id
<1>5. consumer' \in [Proc -> ConsumerState]
  BY DEF LeaveSession, Consumer, TypeOK, ConsumerState, ResumeOutcome
<1>6. QED
  BY <1>2, <1>3, <1>4, <1>5

\* So does an early error return.
LEMMA SessionErrorType ==
    ASSUME HandoffInv, NEW p \in Proc, pc[p] \in InLoop \cup {"hello_ack"}, SessionError(p)
    PROVE  /\ flock' \in Proc \cup {None}
           /\ pc' \in [Proc -> ProcPC]
           /\ consumer' \in [Proc -> ConsumerState]
           /\ sess' \in [Proc -> SessionState]
           /\ conn' \in [Conn -> ConnState]
<1>1. TypeOK /\ consumer[p] \in ConsumerState /\ conn[C(p)] \in ConnState
  BY SessionConn DEF HandoffInv, TypeOK
<1>2. LeaveSession(p, sess[p], consumer[p], conn[C(p)], TRUE)
  BY Zenon DEF SessionError, EndSession
<1>3. flock' \in Proc \cup {None}
  BY <1>1, Zenon DEF SessionError, TypeOK
<1>4. QED
  BY <1>1, <1>2, <1>3, LeaveSessionType, Zenon

\* Returning to the top of the session loop does too.
LEMMA NextRequestType ==
    ASSUME HandoffInv, NEW p \in Proc, pc[p] = "loop", conn[C(p)].req # <<>>,
           NEW s \in SessionState, NEW q \in ConsumerState, NEW out \in Seq(Message),
           NextRequest(p, s, q, out)
    PROVE  /\ pc' \in [Proc -> ProcPC]
           /\ consumer' \in [Proc -> ConsumerState]
           /\ sess' \in [Proc -> SessionState]
           /\ conn' \in [Conn -> ConnState]
<1>1. C(p) \in Conn /\ conn[C(p)] \in ConnState /\ TypeOK
  BY SessionConn DEF InLoop, HandoffInv
<1>2. Tail(conn[C(p)].req) \in Seq(Message) /\ (conn[C(p)].rsp \o out) \in Seq(Message)
  <2>1. conn[C(p)].req \in Seq(Message) /\ conn[C(p)].rsp \in Seq(Message)
    BY <1>1 DEF ConnState
  <2>2. QED
    BY <2>1
<1>3. Answer(conn[C(p)], out) \in ConnState
  BY <1>1, <1>2, Zenon DEF ConnState, Answer
<1>4. conn' \in [Conn -> ConnState]
  BY <1>1, <1>3, Zenon DEF NextRequest, TypeOK
<1>5. QED
  BY <1>1, <1>4 DEF NextRequest, TypeOK, At, Consumer, Session, ProcPC, ServePC

\* A crash or an I/O error ends p.
Fault(p) == ProcCrash(p) \/ (Alive(p) /\ FatalIo(p))

\* A primitive's step is the end of a process by a fault, or a step of its code that is not.
LEMMA FaultSplit ==
    ASSUME TypeOK, NEW p \in Proc, PrimitiveStep(p)
    PROVE  \/ Fault(p)
           \/ /\ ~FatalIo(p)
              /\ \/ ColdStart(p) \/ BindColdStart(p) \/ ServeStep(p) \/ HeartbeatDuringHook(p)
                 \/ SuccessorStep(p) \/ HeartbeatDuringInit(p)
<1>1. CASE FatalIo(p)
  <2>1. faults' # faults
    BY <1>1, SMTT(30), Z3T(30) DEF FatalIo, TypeOK
  <2>2. ~ColdStart(p) BY <2>1, Zenon DEF ColdStart, othersUnchanged
  <2>3. ServeStep(p) \/ HeartbeatDuringHook(p) => pc[p] \notin {"unborn", "dead"}
    BY Zenon DEF ServeStep, HeartbeatDuringHook, Accept, RecvHelloAck, NoHelloAck, Disconnected,
       RecvPrepareHandoff, DrainOk, DrainErr, RecvSealRequest, SealOk, SendSealComplete, SealErr,
       RecvCommit, RecvResume, RecvHeartbeat, RecvUnexpected, RecoverLock, GiveUp, AcceptFails, Receives
  <2>4. BindColdStart(p) \/ SuccessorStep(p) \/ HeartbeatDuringInit(p) => pc[p] \notin {"unborn", "dead"}
    BY Zenon DEF BindColdStart, SuccessorStep, HeartbeatDuringInit, SendHello, RecvAck, RecvBegin,
       SupervisorGone, AcquireFlock, InitFails, AnnounceReady, BindAfterReady
  <2> QED BY <1>1, <2>2, <2>3, <2>4, Zenon DEF PrimitiveStep, Fault, Alive
<1> QED BY <1>1, Zenon DEF PrimitiveStep, Fault

\* Every step of an incumbent preserves the type invariant.
LEMMA IncumbentType ==
    ASSUME HandoffInv, NEW p \in Proc,
           ColdStart(p) \/ BindColdStart(p) \/ ServeStep(p) \/ HeartbeatDuringHook(p), ~FatalIo(p)
    PROVE  TypeOK'
<1> USE DEF othersUnchanged, supervisorVars, At, Consumer, Session
<1>t. TypeOK /\ 0 \in Id
  BY DEF HandoffInv, Id
<1>m. \A t \in MsgType, h \in Id : Msg(t, h) \in Message
  BY MsgType1
<1>q. \A k \in ConnState, m \in Message :
         /\ Request(k, m) \in ConnState
         /\ Reply(k, m) \in ConnState
         /\ k.req # <<>> => TakeRequest(k) \in ConnState
  BY ConnQueueType
<1>c. pc[p] \in InLoop \cup {"hello_ack"} =>
         /\ C(p) \in Conn
         /\ conn[C(p)] \in ConnState
         /\ sess[p] \in SessionState
         /\ sess[p].active \in Id
         /\ consumer[p] \in ConsumerState
  BY SessionConn, <1>t, Zenon DEF TypeOK, SessionState
<1>1. CASE ColdStart(p)
  BY <1>1, <1>t, ZenonT(30) DEF ColdStart, Acquire, TypeOK, ProcPC, ConsumerState
<1>2. CASE BindColdStart(p)
  BY <1>2, <1>t DEF BindColdStart, TypeOK, ProcPC, ServePC
<1>3. CASE Accept(p)
  <2>1. PICK c \in Backlog(p) :
           IF conn[c].sOpen
           THEN /\ conn' = [conn EXCEPT ![c] = Reply(@, Msg("Hello", 0))]
                /\ sess' = [sess EXCEPT ![p] = [NoSession EXCEPT !.conn = c]]
                /\ pc' = [pc EXCEPT ![p] = "hello_ack"]
           ELSE /\ conn' = [conn EXCEPT ![c] = CloseO(@)]
                /\ UNCHANGED <<sess, pc>>
    BY <1>3, Zenon DEF Accept
  <2>2. c \in Conn /\ conn[c] \in ConnState /\ c \in Id
    BY <1>t DEF Backlog, TypeOK, Conn, Id
  <2>3. Reply(conn[c], Msg("Hello", 0)) \in ConnState /\ CloseO(conn[c]) \in ConnState
    BY <2>2, <1>t, <1>m, <1>q, ConnCloseType, Zenon DEF MsgType
  <2>4. conn' \in [Conn -> ConnState]
    BY <2>1, <2>2, <2>3, <1>t, Zenon DEF TypeOK
  <2>5. sess' \in [Proc -> SessionState]
    <3>1. [NoSession EXCEPT !.conn = c] \in SessionState
      BY <2>2, <1>t, Zenon DEF SessionState, NoSession
    <3>2. QED
      BY <3>1, <2>1, <1>t, Zenon DEF TypeOK
  <2>6. pc' \in [Proc -> ProcPC]
    BY <2>1, <1>t, Zenon DEF TypeOK, ProcPC, ServePC
  <2>7. QED
    BY <2>4, <2>5, <2>6, <1>3, <1>t, Zenon DEF Accept, TypeOK
<1>4. CASE RecvHelloAck(p)
  <2>1. pc[p] \in InLoop \cup {"hello_ack"} /\ TakeRequest(conn[C(p)]) \in ConnState
    BY <1>4, <1>c, <1>q, <1>m, <1>t, Zenon DEF RecvHelloAck, MsgType
  <2>2. CASE SessionError(p)
    BY <2>1, <2>2, <1>4, <1>t, SessionErrorType, Zenon DEF RecvHelloAck, TypeOK
  <2>3. CASE Head(conn[C(p)].req).type = "HelloAck"
    BY <2>1, <2>3, <1>4, <1>t DEF RecvHelloAck, TypeOK, ProcPC, ServePC
  <2>4. QED
    BY <2>2, <2>3, <1>4, Zenon DEF RecvHelloAck
<1>5. CASE NoHelloAck(p)
  BY <1>5, <1>t, SessionErrorType, Zenon DEF NoHelloAck, TypeOK
<1>6. CASE Disconnected(p)
  <2>1. LeaveSession(p, sess[p], consumer[p], conn[C(p)], sess[p].sealed)
    BY <1>6, Zenon DEF Disconnected, EndSession
  <2>2. conn[C(p)] \in ConnState /\ consumer[p] \in ConsumerState
    BY <1>6, <1>c DEF Disconnected, InLoop
  <2>3. QED
    BY <2>1, <2>2, <1>6, <1>t, LeaveSessionType, Zenon DEF Disconnected, TypeOK
<1>7. CASE RecvPrepareHandoff(p)
  <2>1. PICK m \in Message :
           /\ Receives(p, m)
           /\ IF sess[p].active \in {0, m.id}
              THEN /\ sess' = [sess EXCEPT ![p] = [sess[p] EXCEPT !.active = m.id]]
                   /\ conn' = [conn EXCEPT ![C(p)] = TakeRequest(@)]
                   /\ pc' = [pc EXCEPT ![p] = "drain"]
                   /\ UNCHANGED <<flock, consumer>>
              ELSE SessionError(p)
           /\ othersUnchanged
    BY <1>7, Zenon DEF RecvPrepareHandoff
  <2>2. pc[p] \in InLoop \cup {"hello_ack"} /\ TakeRequest(conn[C(p)]) \in ConnState
    BY <2>1, <1>c, <1>q, Zenon DEF Receives, InLoop
  <2>3. CASE SessionError(p)
    BY <2>1, <2>2, <2>3, <1>t, SessionErrorType, Zenon DEF TypeOK
  <2>4. CASE sess[p].active \in {0, m.id}
    <3>1. [sess[p] EXCEPT !.active = m.id] \in SessionState
      BY <2>2, <1>c, Zenon DEF SessionState, Message
    <3>2. sess' \in [Proc -> SessionState]
      BY <3>1, <2>1, <2>4, <1>t, Zenon DEF TypeOK
    <3>3. conn' \in [Conn -> ConnState]
      BY <2>1, <2>2, <2>4, <1>t, Zenon DEF TypeOK
    <3>4. pc' \in [Proc -> ProcPC]
      BY <2>1, <2>4, <1>t, Zenon DEF TypeOK, ProcPC, ServePC
    <3>5. QED
      BY <3>2, <3>3, <3>4, <2>1, <2>4, <1>t, Zenon DEF TypeOK
  <2>5. QED
    BY <2>1, <2>3, <2>4, Zenon
<1>8. CASE DrainOk(p)
  <2> DEFINE s == [sess[p] EXCEPT !.drained = TRUE]
  <2> DEFINE q == IF consumer[p] = "sealed" THEN "sealed" ELSE "drained"
  <2>1. conn[C(p)] \in ConnState /\ s \in SessionState /\ q \in ConsumerState
    BY <1>8, <1>c, Zenon DEF DrainOk, InLoop, SessionState, ConsumerState
  <2>2. CASE CanReply(p)
    <3>1. Reply(conn[C(p)], Msg("Drained", 0)) \in ConnState
      BY <2>1, <1>t, <1>m, <1>q, Zenon DEF MsgType
    <3>2. /\ sess' = [sess EXCEPT ![p] = s]
          /\ consumer' = [consumer EXCEPT ![p] = q]
          /\ conn' = [conn EXCEPT ![C(p)] = Reply(@, Msg("Drained", 0))]
          /\ pc' = [pc EXCEPT ![p] = "loop"]
      BY <2>2, <1>8 DEF DrainOk
    <3> HIDE DEF s, q
    <3>3. QED
      BY <3>1, <3>2, <2>1, <1>8, <1>t, Zenon DEF DrainOk, TypeOK, ProcPC, ServePC
  <2>3. CASE ~CanReply(p)
    <3>1. LeaveSession(p, s, q, conn[C(p)], TRUE)
      BY <2>3, <1>8, Zenon DEF DrainOk, EndSession
    <3>2. QED
      BY <3>1, <2>1, <1>8, <1>t, LeaveSessionType, Zenon DEF DrainOk, TypeOK
  <2>4. QED
    BY <2>2, <2>3
<1>9. CASE DrainErr(p)
  <2> DEFINE q == IF consumer[p] = "sealed" THEN "sealed" ELSE "drain_failed"
  <2>1. conn[C(p)] \in ConnState /\ q \in ConsumerState
    BY <1>9, <1>c DEF DrainErr, InLoop, ConsumerState
  <2>2. LeaveSession(p, sess[p], q, conn[C(p)], TRUE)
    BY <1>9, Zenon DEF DrainErr, EndSession
  <2>3. QED
    BY <2>1, <2>2, <1>9, <1>t, LeaveSessionType, Zenon DEF DrainErr, TypeOK
<1>10. CASE RecvSealRequest(p)
  <2>1. PICK m \in Message :
           /\ Receives(p, m)
           /\ IF sess[p].active = m.id
              THEN /\ conn' = [conn EXCEPT ![C(p)] = TakeRequest(@)]
                   /\ pc' = [pc EXCEPT ![p] = "seal"]
                   /\ UNCHANGED <<flock, consumer, sess>>
              ELSE SessionError(p)
           /\ othersUnchanged
    BY <1>10, Zenon DEF RecvSealRequest
  <2>2. pc[p] \in InLoop \cup {"hello_ack"} /\ TakeRequest(conn[C(p)]) \in ConnState
    BY <2>1, <1>c, <1>q, Zenon DEF Receives, InLoop
  <2>3. CASE SessionError(p)
    BY <2>1, <2>2, <2>3, <1>t, SessionErrorType, Zenon DEF TypeOK
  <2>4. CASE sess[p].active = m.id
    BY <2>1, <2>2, <2>4, <1>t DEF TypeOK, ProcPC, ServePC
  <2>5. QED
    BY <2>1, <2>3, <2>4, Zenon
<1>11. CASE SealOk(p)
  <2>1. [sess[p] EXCEPT !.sealed = TRUE] \in SessionState
    BY <1>11, <1>c, Zenon DEF SealOk, InLoop, SessionState
  <2>2. QED
    BY <2>1, <1>11, <1>t, Zenon DEF SealOk, TypeOK, ProcPC, ServePC, ConsumerState
<1>12. CASE SendSealComplete(p)
  <2>1. /\ pc[p] \in InLoop \cup {"hello_ack"}
        /\ Reply(conn[C(p)], Msg("SealComplete", sess[p].active)) \in ConnState
    BY <1>12, <1>c, <1>m, <1>q, Zenon DEF SendSealComplete, InLoop, MsgType
  <2>2. CASE SessionError(p)
    BY <2>1, <2>2, <1>12, <1>t, SessionErrorType, Zenon DEF SendSealComplete, TypeOK
  <2>3. CASE CanReply(p)
    BY <2>1, <2>3, <1>12, <1>t DEF SendSealComplete, TypeOK, ProcPC, ServePC
  <2>4. QED
    BY <2>2, <2>3, <1>12 DEF SendSealComplete
<1>13. CASE SealErr(p)
  <2> DEFINE k == Reply(conn[C(p)], Msg("SealFailed", sess[p].active))
  <2> DEFINE s == [sess[p] EXCEPT !.drained = FALSE, !.active = 0]
  <2>1. /\ conn[C(p)] \in ConnState /\ k \in ConnState /\ consumer[p] \in ConsumerState
        /\ s \in SessionState
    BY <1>13, <1>c, <1>m, <1>q, <1>t, Zenon DEF SealErr, InLoop, MsgType, SessionState
  <2>2. CASE EndSession(p, sess[p], consumer[p], TRUE)
    BY <2>1, <2>2, <1>13, <1>t, LeaveSessionType, Zenon DEF SealErr, EndSession, TypeOK
  <2>3. CASE LeaveSession(p, sess[p], "resume_failed", k, TRUE)
    <3>1. "resume_failed" \in ConsumerState
      BY DEF ConsumerState
    <3>2. QED
      BY <3>1, <2>1, <2>3, <1>13, <1>t, LeaveSessionType, Zenon DEF SealErr, TypeOK
  <2>4. CASE /\ sess' = [sess EXCEPT ![p] = s]
             /\ consumer' = [consumer EXCEPT ![p] = "serving"]
             /\ conn' = [conn EXCEPT ![C(p)] = k]
             /\ pc' = [pc EXCEPT ![p] = "loop"]
    <3> HIDE DEF k, s
    <3>1. QED
      BY <2>1, <2>4, <1>13, <1>t, Zenon DEF SealErr, TypeOK, ProcPC, ServePC, ConsumerState
  <2>5. QED
    BY <2>2, <2>3, <2>4, <1>13, Zenon DEF SealErr
<1>14. CASE RecvCommit(p)
  <2>1. PICK m \in Message :
           /\ Receives(p, m)
           /\ Exit(p) \/ (SessionError(p) /\ UNCHANGED pipe)
           /\ UNCHANGED <<path, supervisorVars, faults>>
    BY <1>14, Zenon DEF RecvCommit
  <2>2. CASE Exit(p)
    BY <2>1, <2>2, <1>t, ExitType, Zenon DEF TypeOK
  <2>3. CASE SessionError(p) /\ UNCHANGED pipe
    BY <2>1, <2>3, <1>t, SessionErrorType, Zenon DEF TypeOK, Receives, InLoop
  <2>4. QED
    BY <2>1, <2>2, <2>3, Zenon
<1>15. CASE RecvResume(p)
  <2> DEFINE idle == [sess[p] EXCEPT !.active = 0, !.sealed = FALSE, !.drained = FALSE]
  <2>1. PICK m \in Message :
           /\ Receives(p, m)
           /\ \/ SessionError(p)
              \/ /\ Acquire(p) \/ UNCHANGED flock
                 /\ \/ \E q \in {"serving", consumer[p]} : NextRequest(p, idle, q, <<>>)
                    \/ EndSession(p, sess[p], "resume_failed", TRUE)
           /\ othersUnchanged
    BY <1>15, Zenon DEF RecvResume
  <2>2. pc[p] \in InLoop \cup {"hello_ack"} /\ pc[p] = "loop" /\ conn[C(p)].req # <<>>
    BY <2>1 DEF Receives, InLoop
  <2>3. conn[C(p)] \in ConnState /\ idle \in SessionState /\ <<>> \in Seq(Message)
    <3>1. idle \in SessionState
      BY <2>2, <1>c, <1>t, Zenon DEF SessionState
    <3>2. <<>> \in Seq(Message)
      OBVIOUS
    <3>3. QED
      BY <3>1, <3>2, <2>2, <1>c, Zenon
  <2>4. CASE SessionError(p)
    BY <2>1, <2>2, <2>4, <1>t, SessionErrorType, Zenon DEF TypeOK
  <2>5. flock' \in Proc \cup {None}
    BY <2>1, <2>2, <1>t, SessionErrorType, Zenon DEF Acquire, TypeOK
  <2>6. CASE EndSession(p, sess[p], "resume_failed", TRUE)
    <3>1. "resume_failed" \in ConsumerState
      BY DEF ConsumerState
    <3>2. QED
      BY <3>1, <2>1, <2>3, <2>5, <2>6, <1>t, LeaveSessionType, Zenon DEF EndSession, TypeOK
  <2>7. ASSUME NEW q \in {"serving", consumer[p]}, NextRequest(p, idle, q, <<>>)
        PROVE  TypeOK'
    <3>1. q \in ConsumerState
      BY <2>2, <1>c, Zenon DEF ConsumerState
    <3> HIDE DEF idle
    <3>2. QED
      BY <3>1, <2>1, <2>2, <2>3, <2>5, <2>7, <1>t, NextRequestType, Zenon DEF TypeOK
  <2>8. QED
    BY <2>1, <2>4, <2>6, <2>7, Zenon
<1>16. CASE RecvHeartbeat(p)
  <2>1. PICK m \in Message :
           /\ Receives(p, m)
           /\ \/ NextRequest(p, sess[p], consumer[p], <<Msg("Heartbeat", 0)>>) /\ UNCHANGED flock
              \/ SessionError(p)
           /\ othersUnchanged
    BY <1>16, Zenon DEF RecvHeartbeat
  <2>2. pc[p] \in InLoop \cup {"hello_ack"} /\ pc[p] = "loop" /\ conn[C(p)].req # <<>>
    BY <2>1 DEF Receives, InLoop
  <2>3. <<Msg("Heartbeat", 0)>> \in Seq(Message)
    <3>1. Msg("Heartbeat", 0) \in Message
      BY <1>m, <1>t, Zenon DEF MsgType
    <3>2. QED
      BY <3>1
  <2>4. CASE SessionError(p)
    BY <2>1, <2>2, <2>4, <1>t, SessionErrorType, Zenon DEF TypeOK
  <2>5. CASE NextRequest(p, sess[p], consumer[p], <<Msg("Heartbeat", 0)>>) /\ UNCHANGED flock
    BY <2>1, <2>2, <2>3, <2>5, <1>c, <1>t, NextRequestType, Zenon DEF TypeOK
  <2>6. QED
    BY <2>1, <2>4, <2>5, Zenon
<1>17. CASE RecvUnexpected(p)
  BY <1>17, <1>t, SessionErrorType, Zenon DEF RecvUnexpected, Receives, InLoop, TypeOK
<1>18. CASE RecoverLock(p)
  BY <1>18, <1>t, ZenonT(30) DEF RecoverLock, Acquire, TypeOK, ProcPC, ServePC, ConsumerState, ResumeOutcome
<1>19. CASE GiveUp(p)
  BY <1>19, <1>t, ExitType, Zenon DEF GiveUp, TypeOK
<1>20. CASE HeartbeatDuringHook(p)
  <2>1. Reply(conn[C(p)], Msg("Heartbeat", 0)) \in ConnState
    BY <1>20, <1>c, <1>m, <1>q, <1>t, Zenon DEF HeartbeatDuringHook, InLoop, MsgType
  <2>2. QED
    BY <2>1, <1>20, <1>t, Zenon DEF HeartbeatDuringHook, TypeOK
<1>21. CASE AcceptFails(p)
  BY <1>21, <1>t, Zenon DEF AcceptFails, vars, TypeOK
<1>22. QED
  BY <1>1, <1>2, <1>3, <1>4, <1>5, <1>6, <1>7, <1>8, <1>9, <1>10, <1>11, <1>12, <1>13,
     <1>14, <1>15, <1>16, <1>17, <1>18, <1>19, <1>20, <1>21, ZenonT(30) DEF ServeStep

\* Appending a frame to a socketpair, and taking one from it, yields a
\* socketpair.
LEMMA PipeQueueType ==
    ASSUME NEW w \in PipeState, NEW m \in Message
    PROVE  /\ SendToN(w, m) \in PipeState
           /\ SendToS(w, m) \in PipeState
           /\ w.toN # <<>> => TakeFromS(w) \in PipeState
           /\ w.toS # <<>> => TakeFromN(w) \in PipeState
<1>1. w.toN \in Seq(Message) /\ w.toS \in Seq(Message)
  BY DEF PipeState
<1>2. Append(w.toN, m) \in Seq(Message) /\ Append(w.toS, m) \in Seq(Message)
  BY <1>1
<1>3. w.toN # <<>> => Tail(w.toN) \in Seq(Message)
  BY <1>1
<1>4. w.toS # <<>> => Tail(w.toS) \in Seq(Message)
  BY <1>1
<1>5. SendToN(w, m) \in PipeState
  BY <1>2, Zenon DEF PipeState, SendToN
<1>6. SendToS(w, m) \in PipeState
  BY <1>2, Zenon DEF PipeState, SendToS
<1>7. QED
  BY <1>3, <1>4, <1>5, <1>6, Zenon DEF PipeState, TakeFromS, TakeFromN

\* Every step of a successor, and a fault that ends a primitive, preserves the type
\* invariant.
LEMMA SuccessorType ==
    ASSUME HandoffInv, NEW p \in Proc,
           SuccessorStep(p) \/ HeartbeatDuringInit(p) \/ Fault(p), ~FatalIo(p) \/ Fault(p)
    PROVE  TypeOK'
<1> USE DEF successorFrame, supervisorVars, Step
<1>t. TypeOK /\ 0 \in Id /\ pipe[p] \in PipeState /\ pipe[p].id \in Id
  <2>1. TypeOK /\ 0 \in Id /\ pipe[p] \in PipeState
    BY DEF HandoffInv, TypeOK, Id
  <2>2. QED
    BY <2>1, Zenon DEF PipeState
<1>m. \A t \in MsgType, h \in Id : Msg(t, h) \in Message
  BY MsgType1, Zenon
<1>f. ASSUME Fails(p) PROVE TypeOK'
  BY <1>f, <1>t, ExitType, Zenon DEF Fails, TypeOK
<1>1. CASE SendHello(p)
  <2>1. SendToS(pipe[p], Msg("Hello", 0)) \in PipeState
    BY <1>t, <1>m, PipeQueueType, Zenon DEF MsgType
  <2>2. CASE Fails(p)
    BY <2>2, <1>f, Zenon
  <2>3. CASE ~Fails(p)
    BY <2>1, <2>3, <1>1, <1>t DEF SendHello, TypeOK, ProcPC, SuccessorPC
  <2>4. QED
    BY <2>2, <2>3, Zenon
<1>2. CASE RecvAck(p)
  <2>1. CASE Fails(p)
    BY <2>1, <1>f
  <2>2. CASE Head(ToN(p)).type = "HelloAck"
    <3>1. Tail(pipe[p].toN) \in Seq(Message) /\ Head(pipe[p].toN) \in Message
      BY <1>2, <1>t DEF RecvAck, ToN, PipeState
    <3>2. Handshook(pipe[p]) \in PipeState
      BY <3>1, <1>t, Zenon DEF PipeState, Handshook, Message
    <3>3. QED
      BY <3>2, <2>2, <1>2, <1>t DEF RecvAck, TypeOK, ProcPC, SuccessorPC
  <2>3. QED
    BY <2>1, <2>2, <1>2, Zenon DEF RecvAck
<1>3. CASE RecvBegin(p)
  <2>1. CASE Fails(p)
    BY <2>1, <1>f
  <2>2. CASE ~Fails(p)
    <3>1. TakeFromS(pipe[p]) \in PipeState
      <4>1. Msg("Begin", 0) \in Message
        BY <1>t, <1>m DEF MsgType
      <4>2. QED
        BY <4>1, <1>3, <1>t, PipeQueueType, Zenon DEF RecvBegin, ToN
    <3>2. QED
      BY <3>1, <2>2, <1>3, <1>t DEF RecvBegin, TypeOK, ProcPC, SuccessorPC
  <2>3. QED
    BY <2>1, <2>2
<1>4. CASE SupervisorGone(p)
  BY <1>4, <1>f, Zenon DEF SupervisorGone
<1>5. CASE AcquireFlock(p)
  <2>1. CASE Fails(p)
    BY <2>1, <1>f
  <2>2. CASE ~Fails(p)
    BY <2>2, <1>5, <1>t, Zenon DEF AcquireFlock, Acquire, TypeOK, ProcPC, SuccessorPC, ConsumerState
  <2>3. QED
    BY <2>1, <2>2
<1>6. CASE AnnounceReady(p)
  <2>1. CASE Fails(p)
    BY <2>1, <1>f
  <2>2. CASE ~Fails(p)
    <3>1. CloseN(SendToS(pipe[p], Msg("Ready", pipe[p].id))) \in PipeState
      BY <1>t, <1>m, PipeQueueType, PipeCloseType, Zenon DEF MsgType
    <3>2. QED
      BY <3>1, <2>2, <1>6, <1>t DEF AnnounceReady, TypeOK, ProcPC, SuccessorPC
  <2>3. QED
    BY <2>1, <2>2
<1>7. CASE BindAfterReady(p) /\ ~FatalIo(p)
  BY <1>7, <1>t, Zenon DEF BindAfterReady, TypeOK, ProcPC, ServePC
<1>8. CASE HeartbeatDuringInit(p)
  <2>1. SendToS(pipe[p], Msg("Heartbeat", 0)) \in PipeState
    BY <1>t, <1>m, PipeQueueType, Zenon DEF MsgType
  <2>2. QED
    BY <2>1, <1>8, <1>t, Zenon DEF HeartbeatDuringInit, TypeOK
<1>9. CASE Fault(p)
  <2>1. faults' \in [s: 0..MaxSupCrash, p: 0..MaxProcCrash, io: 0..MaxIoError]
    BY <1>9, <1>t, SMTT(30) DEF Fault, ProcCrash, FatalIo, TypeOK
  <2>2. Exit(p) /\ UNCHANGED <<path, supervisorVars>>
    BY <1>9, Zenon DEF Fault, ProcCrash, FatalIo
  <2>3. QED
    BY <2>1, <2>2, <1>t, ExitType, Zenon DEF TypeOK
<1>10. CASE InitFails(p)
  BY <1>10, <1>f, Zenon DEF InitFails
<1>11. QED
  BY <1>1, <1>2, <1>3, <1>4, <1>5, <1>6, <1>7, <1>8, <1>9, <1>10, Zenon DEF SuccessorStep

\* Where S uses its connection and its child it has them.
LEMMA SupervisorUses ==
    ASSUME HandoffInv
    PROVE  /\ spc \notin {"down", "boot", "probe_clear", "idle"} =>
                 hid \in Conn /\ O \in ConnState
           /\ spc \notin {"down", "boot", "probe", "probe_clear", "idle", "hello_o", "spawn",
                          "return"} => child \in Proc /\ N \in PipeState
BY DEF HandoffInv, SupervisorInv, TypeOK, Id, Conn, O, N

\* A best-effort Abort keeps the socketpairs in their type.
LEMMA AbortNType ==
    ASSUME TypeOK, child \in Proc, N \in PipeState, AbortN
    PROVE  pipe' \in [Proc -> PipeState]
<1>1. Msg("Abort", hid) \in Message
  BY MsgType1 DEF TypeOK, MsgType
<1>2. SendToN(N, Msg("Abort", hid)) \in PipeState
  BY <1>1, PipeQueueType
<1>3. QED
  BY <1>2, Zenon DEF AbortN, ToPipe, TypeOK

\* Opening a connection keeps hid and conn in their types.
LEMMA ConnectType ==
    ASSUME TypeOK, Connect
    PROVE  hid' \in Id /\ hid' \in Conn /\ conn' \in [Conn -> ConnState]
<1>1. hid + 1 \in Conn /\ hid + 1 \in Id
  BY DEF Connect, TypeOK, Id, Conn
<1>2. <<>> \in Seq(Message)
  OBVIOUS
<1>3. [NoConn EXCEPT !.o = path, !.sOpen = TRUE, !.oOpen = TRUE] \in ConnState
  BY <1>2, Zenon DEF NoConn, ConnState, TypeOK
<1>4. QED
  BY <1>1, <1>3, Zenon DEF Connect, TypeOK

\* Every step of the supervisor preserves the type invariant.
LEMMA SupervisorType ==
    ASSUME HandoffInv, SupervisorStep
    PROVE  TypeOK'
<1> USE DEF primitivesUnchanged, primitiveVars, Goto, FailWith
<1>t. TypeOK /\ 0 \in Id /\ hid \in Id
  BY DEF HandoffInv, TypeOK, Id
<1>o. spc \notin {"down", "boot", "probe_clear", "idle"} => hid \in Conn /\ O \in ConnState
  BY SupervisorUses
<1>n. spc \notin {"down", "boot", "probe", "probe_clear", "idle", "hello_o", "spawn",
                  "return"} => child \in Proc /\ N \in PipeState
  BY SupervisorUses, Zenon
<1>m. \A t \in MsgType : Msg(t, hid) \in Message
  BY <1>t, MsgType1, Zenon
<1>q. \A k \in ConnState, m \in Message :
         Request(k, m) \in ConnState /\ (k.rsp # <<>> => TakeReply(k) \in ConnState)
  BY ConnQueueType, Zenon
<1>w. \A w \in PipeState, m \in Message :
         SendToN(w, m) \in PipeState /\ (w.toS # <<>> => TakeFromN(w) \in PipeState)
  BY PipeQueueType, Zenon
<1>c. \A k \in ConnState : CloseS(k) \in ConnState
  BY ConnCloseType, Zenon
<1>j. \A f \in Phase : [phase |-> f, id |-> hid] \in JournalState
  BY <1>t, Zenon DEF JournalState
<1>e. NoJournal \in JournalState
  BY <1>t, Zenon DEF JournalState, NoJournal
<1>js. ASSUME NEW at, NEW f \in Phase, NEW next \in SupervisorPC, JournalSet(at, f, next)
       PROVE  TypeOK'
  BY <1>js, <1>j, <1>t DEF JournalSet, TypeOK, SupervisorPC
<1>so. ASSUME NEW at \in {"prepare", "seal_request", "resume"}, NEW type \in MsgType,
              NEW next \in SupervisorPC, SendToO(at, type, next)
       PROVE  TypeOK'
  <2>1. hid \in Conn /\ Request(O, Msg(type, hid)) \in ConnState
    BY <1>so, <1>o, <1>q, <1>m, Zenon DEF SendToO
  <2>2. QED
    BY <2>1, <1>so, <1>t DEF SendToO, ToO, TypeOK, SupervisorPC
<1>1. CASE ResumeFromJournal
  <2>1. CASE Connect
    BY <2>1, <1>1, <1>t, ConnectType, Zenon DEF ResumeFromJournal, TypeOK, SupervisorPC
  <2>2. CASE UNCHANGED <<conn, hid>>
    BY <2>2, <1>1, <1>t, Zenon DEF ResumeFromJournal, TypeOK, SupervisorPC
  <2>3. QED
    BY <2>1, <2>2, <1>1, Zenon DEF ResumeFromJournal
<1>2. CASE Probe
  BY <1>2, <1>t, <1>o, <1>c, Zenon DEF Probe, ToO, TypeOK, SupervisorPC
<1>3. CASE ProbeClear
  BY <1>3, <1>t, <1>e, Zenon DEF ProbeClear, TypeOK, SupervisorPC
<1>4. CASE PerformHandoff
  <2>1. CASE Connect
    BY <2>1, <1>4, <1>t, ConnectType, Zenon DEF PerformHandoff, TypeOK, SupervisorPC
  <2>2. CASE UNCHANGED <<conn, hid>>
    BY <2>2, <1>4, <1>t, Zenon DEF PerformHandoff, TypeOK, SupervisorPC
  <2>3. QED
    BY <2>1, <2>2, <1>4, Zenon DEF PerformHandoff
<1>5. CASE HelloO
  <2>1. hid \in Conn /\ (O.rsp # <<>> => Request(TakeReply(O), Msg("HelloAck", hid)) \in ConnState)
    BY <1>5, <1>o, <1>q, <1>m, Zenon DEF HelloO, MsgType
  <2>2. QED
    BY <2>1, <1>5, <1>t DEF HelloO, ToO, TypeOK, SupervisorPC
<1>6. CASE SpawnSuccessor
  <2>1. [NoPipe EXCEPT !.sOpen = TRUE, !.nOpen = TRUE] \in PipeState
    <3>1. <<>> \in Seq(Message)
      OBVIOUS
    <3>2. QED
      BY <3>1, <1>t, ZenonT(30) DEF NoPipe, PipeState
  <2>2. QED
    BY <2>1, <1>6, <1>t DEF SpawnSuccessor, TypeOK, SupervisorPC, ProcPC, SuccessorPC
<1>7. CASE HelloN
  <2>1. child \in Proc /\ (N.toS # <<>> => SendToN(TakeFromN(N), Msg("HelloAck", hid)) \in PipeState)
    BY <1>7, <1>n, <1>w, <1>m, Zenon DEF HelloN, MsgType
  <2>2. QED
    BY <2>1, <1>7, <1>t, ZenonT(30) DEF HelloN, ToPipe, TypeOK, SupervisorPC
<1>8. CASE JournalNegotiating \/ JournalDraining \/ JournalSealing \/ JournalAwaitingReady
           \/ JournalResuming
  <2>1. {"Negotiating", "Draining", "Sealing", "AwaitingReady", "ResumingAfterAbort"} \subseteq Phase
    BY DEF Phase
  <2>2. {"prepare", "seal_request", "begin", "ready", "clear"} \subseteq SupervisorPC
    BY DEF SupervisorPC
  <2>3. QED
    BY <2>1, <2>2, <1>8, <1>js, Zenon DEF JournalNegotiating, JournalDraining, JournalSealing,
       JournalAwaitingReady, JournalResuming
<1>9. CASE PrepareHandoff \/ SealRequest \/ ResumeAfterAbort
  <2>1. {"drained", "seal", "resuming"} \subseteq SupervisorPC
    BY DEF SupervisorPC
  <2>2. {"PrepareHandoff", "SealRequest", "ResumeAfterAbort"} \subseteq MsgType
    BY Zenon DEF MsgType
  <2>3. QED
    BY <2>1, <2>2, <1>9, <1>so, Zenon DEF PrepareHandoff, SealRequest, ResumeAfterAbort
<1>10. CASE AwaitDrained
  <2>1. hid \in Conn /\ (O.rsp # <<>> => TakeReply(O) \in ConnState)
    BY <1>10, <1>o, <1>q, <1>m, Zenon DEF AwaitDrained, MsgType
  <2>2. QED
    BY <2>1, <1>10, <1>t DEF AwaitDrained, ToO, TypeOK, SupervisorPC
<1>11. CASE DrainedDeadline
  <2>1. hid \in Conn /\ TakeReply(O) \in ConnState
    BY <1>11, <1>o, <1>q, <1>m, Zenon DEF DrainedDeadline, MsgType
  <2>2. QED
    BY <2>1, <1>11, <1>t, Zenon DEF DrainedDeadline, ToO, TypeOK, SupervisorPC
<1>12. CASE RecvSealReply
  <2>1. hid \in Conn /\ TakeReply(O) \in ConnState
    BY <1>12, <1>o, <1>q, <1>m, Zenon DEF RecvSealReply, MsgType
  <2>2. pipe' \in [Proc -> PipeState]
    <3>1. CASE UNCHANGED pipe
      BY <3>1, <1>t, Zenon DEF TypeOK
    <3>2. CASE AbortN
      BY <3>2, <1>12, <1>t, <1>n, AbortNType, Zenon DEF RecvSealReply
    <3>3. QED
      BY <3>1, <3>2, <1>12, Zenon DEF RecvSealReply, AbortSealPhase
  <2>3. QED
    BY <2>1, <2>2, <1>12, <1>t, Zenon DEF RecvSealReply, AbortSealPhase, ToO, TypeOK, SupervisorPC
<1>13. CASE SealDeadline
  <2>1. hid \in Conn /\ TakeReply(O) \in ConnState
    BY <1>13, <1>o, <1>q, <1>m, Zenon DEF SealDeadline, MsgType
  <2>2. pipe' \in [Proc -> PipeState]
    BY <1>13, <1>t, <1>n, AbortNType, Zenon DEF SealDeadline, AbortSealPhase
  <2>3. QED
    BY <2>1, <2>2, <1>13, <1>t, Zenon DEF SealDeadline, AbortSealPhase, ToO, TypeOK, SupervisorPC
<1>14. CASE SealTimeout
  <2>1. pipe' \in [Proc -> PipeState]
    BY <1>14, <1>t, <1>n, AbortNType, Zenon DEF SealTimeout, AbortSealPhase
  <2>2. QED
    BY <2>1, <1>14, <1>t, Zenon DEF SealTimeout, AbortSealPhase, TypeOK, SupervisorPC
<1>15. CASE SealReadError
  BY <1>15, <1>t, Zenon DEF SealReadError, TypeOK, SupervisorPC
<1>16. CASE Begin
  <2>1. child \in Proc /\ SendToN(N, Msg("Begin", hid)) \in PipeState
    BY <1>16, <1>n, <1>w, <1>m, Zenon DEF Begin, MsgType
  <2>2. pipe' \in [Proc -> PipeState]
    BY <2>1, <1>16, <1>t, <1>n, AbortNType, Zenon DEF Begin, AbortReadyPhase, ToPipe, TypeOK
  <2>3. QED
    BY <2>2, <1>16, <1>t, Zenon DEF Begin, AbortReadyPhase, TypeOK, SupervisorPC
<1>17. CASE AwaitReady
  <2>1. child \in Proc /\ (N.toS # <<>> => TakeFromN(N) \in PipeState)
    BY <1>17, <1>n, <1>w, <1>m, Zenon DEF AwaitReady, MsgType
  <2>2. pipe' \in [Proc -> PipeState]
    BY <2>1, <1>17, <1>t, <1>n, AbortNType, Zenon DEF AwaitReady, AbortReadyPhase, ToPipe, TypeOK
  <2>3. QED
    BY <2>2, <1>17, <1>t, Zenon DEF AwaitReady, AbortReadyPhase, TypeOK, SupervisorPC
<1>18. CASE ReadyDeadline
  <2>1. pipe' \in [Proc -> PipeState]
    BY <1>18, <1>t, <1>n, AbortNType, Zenon DEF ReadyDeadline, AbortReadyPhase
  <2>2. QED
    BY <2>1, <1>18, <1>t, Zenon DEF ReadyDeadline, AbortReadyPhase, TypeOK, SupervisorPC
<1>19. CASE Commit
  <2>1. hid \in Conn /\ O \in ConnState /\ Request(O, Msg("Commit", hid)) \in ConnState
    BY <1>19, <1>o, <1>q, <1>m, Zenon DEF Commit, MsgType
  <2>2. QED
    BY <2>1, <1>19, <1>t, Zenon DEF Commit, ToO, TypeOK, SupervisorPC
<1>20. CASE JournalCommitted
  <2>1. [phase |-> "Committed", id |-> hid] \in JournalState
    BY <1>j, Zenon DEF Phase
  <2>2. QED
    BY <2>1, <1>20, <1>t, Zenon DEF JournalCommitted, TypeOK, SupervisorPC
<1>21. CASE JournalClear
  BY <1>21, <1>t, <1>e, Zenon DEF JournalClear, TypeOK, SupervisorPC
<1>22. CASE Kill
  <2>1. CASE Exit(child)
    BY <2>1, <1>22, <1>t, <1>n, ExitType, Zenon DEF Kill, TypeOK, SupervisorPC
  <2>2. CASE UNCHANGED <<flock, pc, consumer, sess, conn, pipe>>
    BY <2>2, <1>22, <1>t, Zenon DEF Kill, TypeOK, SupervisorPC
  <2>3. QED
    BY <2>1, <2>2, <1>22, Zenon DEF Kill, KillAndReap
<1>23. CASE Return
  <2>1. hid \in Conn /\ CloseS(O) \in ConnState
    BY <1>23, <1>o, <1>c, Zenon DEF Return
  <2>2. pipe' \in [Proc -> PipeState]
    BY <1>23, <1>t, PipeCloseType, Zenon DEF Return, TypeOK
  <2>3. QED
    BY <2>1, <2>2, <1>23, <1>t, Zenon DEF Return, ToO, TypeOK, SupervisorPC
<1>24. CASE Restart
  BY <1>24, <1>t, Zenon DEF Restart, TypeOK, SupervisorPC
<1>25. CASE SupervisorCrash
  <2>1. conn' \in [Conn -> ConnState]
    BY <1>25, <1>t, <1>c, Zenon DEF SupervisorCrash, TypeOK
  <2>2. pipe' \in [Proc -> PipeState]
    BY <1>25, <1>t, PipeCloseType, Zenon DEF SupervisorCrash, TypeOK
  <2>3. faults' \in [s: 0..MaxSupCrash, p: 0..MaxProcCrash, io: 0..MaxIoError]
    BY <1>25, <1>t DEF SupervisorCrash, TypeOK
  <2>4. QED
    BY <2>1, <2>2, <2>3, <1>25, <1>t, Zenon DEF SupervisorCrash, TypeOK, SupervisorPC
<1>26. QED
  BY <1>1, <1>2, <1>3, <1>4, <1>5, <1>6, <1>7, <1>8, <1>9, <1>10, <1>11, <1>12, <1>13, Zenon,
     <1>14, <1>15, <1>16, <1>17, <1>18, <1>19, <1>20, <1>21, <1>22, <1>23, <1>24, <1>25
     DEF SupervisorStep, HandoffStep, BootStep
-----------------------------------------------------------------------------
\* The next frame of p's session is the Commit of the handoff it sealed for.
ToldToExit(p) ==
    /\ pc[p] = "loop" /\ conn[C(p)].req # <<>> /\ sess[p].sealed
    /\ Head(conn[C(p)].req) = Msg("Commit", sess[p].active)

\* serve ends only by a fault, by giving up a recovery, or by a Commit after seal; a cold
\* start ends at once when it does not get the flock.
LEMMA Departs ==
    ASSUME TypeOK, NEW p \in Proc, PrimitiveStep(p)
    PROVE  \/ pc[p] \in Unannounced
           \/ pc'[p] \in Serving
           \/ /\ pc'[p] = "dead"
              /\ pc[p] = "unborn" \/ Fault(p) \/ GiveUp(p) \/ ToldToExit(p)
<1>t. pc \in [Proc -> ProcPC] BY Zenon DEF TypeOK
<1>f. Fault(p) => pc'[p] = "dead" BY <1>t, Zenon DEF Fault, ProcCrash, FatalIo, Exit
<1> SUFFICES ASSUME ~Fault(p), ~FatalIo(p),
                    \/ ColdStart(p) \/ BindColdStart(p) \/ ServeStep(p) \/ HeartbeatDuringHook(p)
                    \/ SuccessorStep(p) \/ HeartbeatDuringInit(p)
             PROVE  \/ pc[p] \in Unannounced
                    \/ pc'[p] \in Serving
                    \/ /\ pc'[p] = "dead"
                       /\ pc[p] = "unborn" \/ GiveUp(p) \/ ToldToExit(p)
  BY <1>f, FaultSplit, Zenon
<1> USE <1>t DEF At, Serving, ServePC
<1>l. ASSUME NEW s, NEW q, NEW k, NEW e, LeaveSession(p, s, q, k, e) PROVE pc'[p] \in Serving
  BY <1>l, Zenon DEF LeaveSession
<1>x. Exit(p) => pc'[p] = "dead" BY DEF Exit
<1>e. SessionError(p) => pc'[p] \in Serving BY <1>l, Zenon DEF SessionError, EndSession
<1>1. CASE ColdStart(p) \/ BindColdStart(p) \/ RecoverLock(p) \/ SealOk(p)
  BY <1>1 DEF ColdStart, BindColdStart, RecoverLock, SealOk
<1>2. CASE NoHelloAck(p) \/ Disconnected(p) \/ RecvUnexpected(p)
  BY <1>2, <1>l, <1>e, Zenon DEF NoHelloAck, Disconnected, RecvUnexpected, EndSession
<1>3. CASE RecvHelloAck(p) \/ RecvPrepareHandoff(p) \/ RecvSealRequest(p) \/ SendSealComplete(p)
  <2>1. \/ \E w \in {"loop", "drain", "seal"} : pc' = [pc EXCEPT ![p] = w]
        \/ SessionError(p)
    BY <1>3, Zenon DEF RecvHelloAck, RecvPrepareHandoff, RecvSealRequest, SendSealComplete
  <2> QED BY <1>e, <2>1
<1>4. CASE DrainOk(p) \/ DrainErr(p)
  <2>1. \/ pc' = [pc EXCEPT ![p] = "loop"]
        \/ \E s, q, k, e : LeaveSession(p, s, q, k, e)
    BY <1>4, Zenon DEF DrainOk, DrainErr, EndSession
  <2> QED BY <1>l, <2>1
<1>5. CASE SealErr(p)
  <2>1. \/ pc' = [pc EXCEPT ![p] = "loop"]
        \/ \E s, q, k, e : LeaveSession(p, s, q, k, e)
    BY <1>5, Zenon DEF SealErr, EndSession
  <2> QED BY <1>l, <2>1
<1>6. CASE RecvResume(p)
  <2>1. \/ pc' = [pc EXCEPT ![p] = "loop"] \/ SessionError(p)
        \/ \E s, q, k, e : LeaveSession(p, s, q, k, e)
    BY <1>6, Zenon DEF RecvResume, NextRequest, EndSession
  <2> QED BY <1>l, <1>e, <2>1, Zenon
<1>7. CASE RecvHeartbeat(p)
  <2>1. pc' = [pc EXCEPT ![p] = "loop"] \/ SessionError(p)
    BY <1>7, Zenon DEF RecvHeartbeat, NextRequest
  <2> QED BY <1>e, <2>1, Zenon
<1>8. CASE HeartbeatDuringHook(p) \/ Accept(p) \/ AcceptFails(p)
  BY <1>8, Zenon DEF HeartbeatDuringHook, Accept, AcceptFails, vars
<1>9. CASE RecvCommit(p)
  <2>1. PICK m \in Message :
          /\ Receives(p, m) /\ m.type = "Commit"
          /\ (sess[p].active = m.id /\ sess[p].sealed /\ Exit(p)) \/ SessionError(p)
    BY <1>9, Zenon DEF RecvCommit
  <2>2. m = Msg(m.type, m.id) BY Zenon DEF Message, Msg
  <2> QED BY <2>1, <2>2, <1>e, <1>x, Zenon DEF Receives, ToldToExit
<1>10. CASE SuccessorStep(p) \/ HeartbeatDuringInit(p)
  BY <1>10, Zenon DEF SuccessorStep, HeartbeatDuringInit, SendHello, RecvAck, RecvBegin, SupervisorGone,
     AcquireFlock, InitFails, AnnounceReady, BindAfterReady, Step, Unannounced
<1>11. CASE GiveUp(p) BY <1>11, <1>x DEF GiveUp
<1> QED BY <1>1, <1>2, <1>3, <1>4, <1>5, <1>6, <1>7, <1>8, <1>9, <1>10, <1>11, Zenon
        DEF ServeStep
-----------------------------------------------------------------------------
\* No operation on a connection moves it to another process.
LEMMA EndKept ==
    ASSUME NEW k \in ConnState, NEW m, NEW out
    PROVE  /\ Request(k, m).o = k.o /\ Reply(k, m).o = k.o /\ Answer(k, out).o = k.o
           /\ TakeRequest(k).o = k.o /\ TakeReply(k).o = k.o
           /\ Request(TakeReply(k), m).o = k.o
           /\ CloseO(k).o \in {k.o, None} /\ CloseS(k).o \in {k.o, None}
           /\ CloseO(Reply(k, m)).o \in {k.o, None}
BY Zenon DEF ConnState, Request, Reply, Answer, TakeRequest, TakeReply, CloseO, CloseS, NoConn

\* A step of a session on its connection.
Turns(p, k) == conn' = [conn EXCEPT ![C(p)] = k]

\* Connections keep the process they were made to, or are forgotten.
SameEnds == \A c \in Conn : conn'[c].o \in {conn[c].o, None}

\* The end of a process closes its connections.
LEMMA ExitEnds ==
    ASSUME TypeOK, NEW p, Exit(p)
    PROVE  SameEnds
<1>1. ASSUME NEW c \in Conn PROVE conn'[c].o \in {conn[c].o, None}
  <2>1. conn[c] \in ConnState BY Zenon DEF TypeOK
  <2>2. CloseO(conn[c]).o \in {conn[c].o, None} BY <2>1, EndKept, Zenon
  <2> QED BY <2>2, Zenon DEF Exit
<1> QED BY <1>1, Zenon DEF SameEnds

\* The end of a session closes its connection.
LEMMA LeaveEnds ==
    ASSUME HandoffInv, NEW p \in Proc, pc[p] \in InLoop \cup {"hello_ack"},
           NEW s, NEW q, NEW k, k.o = conn[C(p)].o, k \in ConnState, NEW e, LeaveSession(p, s, q, k, e)
    PROVE  SameEnds
<1> DEFINE d == C(p)
           l == CloseO(k)
<1>1. d \in Conn BY SessionConn, Zenon
<1>2. l.o \in {conn[d].o, None} BY EndKept, Zenon
<1>3. conn' = [conn EXCEPT ![d] = l] BY Zenon DEF LeaveSession
<1>4. conn \in [Conn -> ConnState] BY Zenon DEF HandoffInv, TypeOK
<1> HIDE DEF d, l
<1> QED BY <1>1, <1>2, <1>3, <1>4, Zenon DEF SameEnds

\* A session whose connection keeps its peer, or ends, leaves the other ends alone.
LEMMA TurnEnds ==
    ASSUME HandoffInv, NEW p \in Proc, pc[p] \in InLoop \cup {"hello_ack"},
           NEW k, k.o = conn[C(p)].o, Turns(p, k)
    PROVE  SameEnds
<1> DEFINE d == C(p)
<1>1. d \in Conn BY SessionConn, Zenon
<1>2. k.o = conn[d].o BY Zenon
<1>3. conn' = [conn EXCEPT ![d] = k] BY Zenon DEF Turns
<1>4. conn \in [Conn -> ConnState] BY Zenon DEF HandoffInv, TypeOK
<1> HIDE DEF d
<1> QED BY <1>1, <1>2, <1>3, <1>4, Zenon DEF SameEnds

\* Neither a cold start nor a step of serve connects anything.
LEMMA IncumbentEnds ==
    ASSUME HandoffInv, NEW p \in Proc,
           ColdStart(p) \/ BindColdStart(p) \/ ServeStep(p) \/ HeartbeatDuringHook(p), ~FatalIo(p)
    PROVE  SameEnds
<1>t. TypeOK /\ conn \in [Conn -> ConnState] BY DEF HandoffInv, TypeOK
<1>s. ASSUME UNCHANGED conn PROVE SameEnds BY <1>s DEF SameEnds
<1>e. ASSUME pc[p] \in InLoop \cup {"hello_ack"}, SessionError(p) PROVE SameEnds
  <2>1. LeaveSession(p, sess[p], consumer[p], conn[C(p)], TRUE)
    BY <1>e, Zenon DEF SessionError, EndSession
  <2>2. conn[C(p)] \in ConnState BY <1>e, SessionConn, Zenon
  <2> QED BY <1>e, <2>1, <2>2, LeaveEnds, Zenon
<1>l. ASSUME pc[p] \in InLoop \cup {"hello_ack"}, NEW s, NEW q, NEW e, EndSession(p, s, q, e)
      PROVE  SameEnds
  <2>1. LeaveSession(p, s, q, conn[C(p)], e) BY <1>l, Zenon DEF EndSession
  <2>2. conn[C(p)] \in ConnState BY <1>l, SessionConn, Zenon
  <2> QED BY <1>l, <2>1, <2>2, LeaveEnds, Zenon
<1>k. ASSUME pc[p] \in InLoop \cup {"hello_ack"}, NEW m, NEW out
      PROVE  /\ Turns(p, TakeRequest(conn[C(p)])) => SameEnds
             /\ Turns(p, Reply(conn[C(p)], m)) => SameEnds
             /\ Turns(p, Answer(conn[C(p)], out)) => SameEnds
  <2>2. conn[C(p)] \in ConnState BY <1>k, SessionConn, Zenon
  <2>3. /\ TakeRequest(conn[C(p)]).o = conn[C(p)].o /\ Reply(conn[C(p)], m).o = conn[C(p)].o
        /\ Answer(conn[C(p)], out).o = conn[C(p)].o
    BY <2>2, EndKept, Zenon
  <2> QED BY <1>k, <2>3, TurnEnds, Zenon
<1>1. CASE ColdStart(p) \/ BindColdStart(p) \/ RecoverLock(p) \/ SealOk(p) \/ AcceptFails(p)
  BY <1>1, <1>s, Zenon DEF ColdStart, BindColdStart, RecoverLock, SealOk, AcceptFails, vars
<1>2. CASE GiveUp(p) BY <1>2, <1>t, ExitEnds, Zenon DEF GiveUp
<1>3. CASE NoHelloAck(p) BY <1>3, <1>e, Zenon DEF NoHelloAck
<1>4. CASE Disconnected(p) BY <1>4, <1>l, Zenon DEF Disconnected, InLoop
<1>5. CASE RecvUnexpected(p) BY <1>5, <1>e, Zenon DEF RecvUnexpected, Receives, InLoop
<1>6. CASE RecvHelloAck(p) BY <1>6, <1>e, <1>k, Zenon DEF RecvHelloAck, Turns
<1>7. CASE RecvPrepareHandoff(p)
  BY <1>7, <1>e, <1>k, Zenon DEF RecvPrepareHandoff, Receives, InLoop, Turns
<1>8. CASE RecvSealRequest(p)
  BY <1>8, <1>e, <1>k DEF RecvSealRequest, Receives, InLoop, Turns
<1>9. CASE DrainOk(p) BY <1>9, <1>l, <1>k, Zenon DEF DrainOk, InLoop, Turns
<1>10. CASE DrainErr(p) BY <1>10, <1>l, Zenon DEF DrainErr, InLoop
<1>11. CASE SendSealComplete(p) BY <1>11, <1>e, <1>k DEF SendSealComplete, InLoop, Turns
<1>12. CASE SealErr(p)
  <2>1. pc[p] \in InLoop \cup {"hello_ack"} BY <1>12 DEF SealErr, InLoop
  <2> DEFINE k == Reply(conn[C(p)], Msg("SealFailed", sess[p].active))
  <2>2. k.o = conn[C(p)].o /\ k \in ConnState
    <3>1. C(p) \in Conn /\ conn[C(p)] \in ConnState BY <2>1, SessionConn, Zenon
    <3>2. Msg("SealFailed", sess[p].active) \in Message
      BY <1>t, MsgType1, Zenon DEF TypeOK, SessionState, MsgType
    <3> QED BY <3>1, <3>2, EndKept, ConnQueueType, ZenonT(30)
  <2>3. CASE Turns(p, k) BY <2>1, <2>2, <2>3, TurnEnds, Zenon
  <2>4. CASE LeaveSession(p, sess[p], "resume_failed", k, TRUE) BY <2>1, <2>2, <2>4, LeaveEnds, Zenon
  <2>5. CASE EndSession(p, sess[p], consumer[p], TRUE) BY <2>1, <2>5, <1>l, Zenon
  <2> QED BY <1>12, <2>3, <2>4, <2>5, Zenon DEF SealErr, Turns
<1>13. CASE RecvCommit(p) BY <1>13, <1>e, <1>t, ExitEnds, Zenon DEF RecvCommit, Receives, InLoop
<1>14. CASE RecvResume(p)
  <2>1. pc[p] \in InLoop \cup {"hello_ack"} BY <1>14 DEF RecvResume, Receives, InLoop
  <2>2. ASSUME NEW s, NEW q, NextRequest(p, s, q, <<>>) PROVE SameEnds
    BY <2>1, <2>2, <1>k, Zenon DEF NextRequest, Turns
  <2> QED BY <1>14, <2>1, <2>2, <1>e, <1>l, Zenon DEF RecvResume
<1>15. CASE RecvHeartbeat(p)
  <2>1. pc[p] \in InLoop \cup {"hello_ack"}
    BY <1>15, Zenon DEF RecvHeartbeat, Receives, InLoop
  <2> QED BY <1>15, <2>1, <1>e, <1>k, Zenon DEF RecvHeartbeat, NextRequest, Turns
<1>16. CASE HeartbeatDuringHook(p) BY <1>16, <1>k, Zenon DEF HeartbeatDuringHook, InLoop, Turns
<1>17. CASE Accept(p)
  <2>1. PICK c \in Conn : \/ conn' = [conn EXCEPT ![c] = Reply(conn[c], Msg("Hello", 0))]
                          \/ conn' = [conn EXCEPT ![c] = CloseO(conn[c])]
    BY <1>17, <1>t, Zenon DEF Accept, Backlog
  <2> DEFINE l == Reply(conn[c], Msg("Hello", 0))
             g == CloseO(conn[c])
  <2>2. conn[c] \in ConnState BY <1>t, Zenon
  <2>3. l.o = conn[c].o /\ g.o \in {conn[c].o, None} BY <2>2, EndKept, Zenon
  <2>4. conn' = [conn EXCEPT ![c] = l] \/ conn' = [conn EXCEPT ![c] = g] BY <2>1, Zenon
  <2> HIDE DEF l, g
  <2> QED BY <1>t, <2>3, <2>4, Zenon DEF SameEnds
<1> QED
  BY <1>1, <1>2, <1>3, <1>4, <1>5, <1>6, <1>7, <1>8, <1>9, <1>10, <1>11, <1>12, <1>13, ZenonT(30),
           <1>14, <1>15, <1>16, <1>17 DEF ServeStep
-----------------------------------------------------------------------------
\* Only Ready itself puts a Ready into the socketpair.
LEMMA ReadyQueue ==
    ASSUME NEW w \in PipeState, NEW m \in Message, NoReady(w)
    PROVE  /\ m.type # "Ready" => NoReady(SendToS(w, m))
           /\ NoReady(SendToN(w, m)) /\ NoReady(TakeFromS(w)) /\ NoReady(Handshook(w))
           /\ w.toS # <<>> => NoReady(TakeFromN(w)) /\ NoReady(SendToN(TakeFromN(w), m))
<1>1. w.toS \in Seq(Message) BY Zenon DEF PipeState
<1>2. ASSUME m.type # "Ready" PROVE NoReady(SendToS(w, m))
  <2>1. SendToS(w, m).toS = Append(w.toS, m) BY DEF SendToS, PipeState
  <2> QED BY <1>1, <1>2, <2>1 DEF NoReady
<1>3. /\ SendToN(w, m).toS = w.toS /\ TakeFromS(w).toS = w.toS /\ Handshook(w).toS = w.toS
      /\ TakeFromN(w).toS = Tail(w.toS) /\ SendToN(TakeFromN(w), m).toS = Tail(w.toS)
  BY Zenon DEF SendToN, TakeFromS, Handshook, TakeFromN, PipeState
<1>4. ASSUME w.toS # <<>>
      PROVE  \A i \in DOMAIN Tail(w.toS) : Tail(w.toS)[i].type # "Ready"
  BY <1>1, <1>4, SMTT(30), Z3T(30) DEF NoReady
<1> QED BY <1>2, <1>3, <1>4, Zenon DEF NoReady

\* serve and a cold start move one process, and none that is still starting up for
\* the supervisor's handoff unless a connection waits in its backlog.
LEMMA IncumbentMoves ==
    ASSUME HandoffInv, NEW p \in Proc,
           ColdStart(p) \/ BindColdStart(p) \/ ServeStep(p) \/ HeartbeatDuringHook(p), ~FatalIo(p)
    PROVE  /\ \A q \in Proc : q # p => pc'[q] = pc[q] /\ pipe'[q] = pipe[q]
           /\ pc[p] # "dead" /\ pc'[p] # "unborn"
           /\ pc[p] \in Starting => Accept(p) \/ AcceptFails(p)
<1>t. pc \in [Proc -> ProcPC] /\ pipe \in [Proc -> PipeState] BY Zenon DEF HandoffInv, TypeOK
<1> USE <1>t DEF At, othersUnchanged, Starting, SuccessorPC
<1>x. ASSUME Exit(p)
      PROVE  /\ \A q \in Proc : q # p => pc'[q] = pc[q] /\ pipe'[q] = pipe[q]
             /\ pc'[p] = "dead"
  BY <1>x, Zenon DEF Exit
<1>l. ASSUME NEW s, NEW q, NEW k, NEW e, LeaveSession(p, s, q, k, e)
      PROVE  /\ \A r \in Proc : r # p => pc'[r] = pc[r]
             /\ pc'[p] # "unborn"
  BY <1>l DEF LeaveSession
<1>1. CASE ColdStart(p) \/ BindColdStart(p) \/ RecoverLock(p) \/ SealOk(p)
  BY <1>1, Zenon DEF ColdStart, BindColdStart, RecoverLock, SealOk
<1>2. CASE GiveUp(p) BY <1>2, <1>x, Zenon DEF GiveUp
<1>3. CASE NoHelloAck(p) \/ Disconnected(p) \/ RecvUnexpected(p)
  BY <1>3, <1>l, Zenon DEF NoHelloAck, Disconnected, RecvUnexpected, Receives, SessionError, EndSession
<1>4. CASE RecvHelloAck(p) \/ RecvPrepareHandoff(p) \/ RecvSealRequest(p) \/ SendSealComplete(p)
  BY <1>4, <1>l, Zenon DEF RecvHelloAck, RecvPrepareHandoff, RecvSealRequest, SendSealComplete,
     Receives, SessionError, EndSession
<1>5. CASE DrainOk(p) \/ DrainErr(p) \/ SealErr(p)
  BY <1>5, <1>l, Zenon DEF DrainOk, DrainErr, SealErr, EndSession
<1>6. CASE RecvCommit(p)
  BY <1>6, <1>l, <1>x, Zenon DEF RecvCommit, Receives, SessionError, EndSession
<1>7. CASE RecvResume(p) \/ RecvHeartbeat(p)
  BY <1>7, <1>l, Zenon DEF RecvResume, RecvHeartbeat, Receives, NextRequest, SessionError, EndSession
<1>8. CASE HeartbeatDuringHook(p) BY <1>8, Zenon DEF HeartbeatDuringHook
<1>9. CASE Accept(p) \/ AcceptFails(p) BY <1>9, ZenonT(30) DEF Accept, AcceptFails, vars
<1> QED BY <1>1, <1>2, <1>3, <1>4, <1>5, <1>6, <1>7, <1>8, <1>9, ZenonT(30) DEF ServeStep

\* A successor moves forward through its startup, and is past announce_ready when a
\* Ready appears.
LEMMA SuccessorMoves ==
    ASSUME HandoffInv, NEW p \in Proc,
           SuccessorStep(p) \/ HeartbeatDuringInit(p) \/ Fault(p), ~FatalIo(p) \/ Fault(p)
    PROVE  /\ \A q \in Proc : q # p => pc'[q] = pc[q] /\ pipe'[q] = pipe[q]
           /\ pc[p] \notin {"unborn", "dead"} /\ pc'[p] # "unborn"
           /\ pc[p] \in Starting => pc'[p] \in Starting
           /\ pc[p] \in Announced => pc'[p] \in Announced
           /\ pc'[p] \in Announced \/ (NoReady(pipe[p]) => NoReady(pipe'[p]))
           /\ SameEnds
<1>t. TypeOK /\ pc \in [Proc -> ProcPC] /\ pipe \in [Proc -> PipeState] /\ pipe[p] \in PipeState
  BY Zenon DEF HandoffInv, TypeOK
<1> USE <1>t DEF Step, successorFrame, Starting, SuccessorPC, Announced
<1>m. Msg("Hello", 0) \in Message /\ Msg("Heartbeat", 0) \in Message
  BY MsgType1 DEF MsgType, Id
<1>n. Msg("Hello", 0).type # "Ready" /\ Msg("Heartbeat", 0).type # "Ready" BY DEF Msg
<1>x. ASSUME Exit(p), pc[p] \notin {"unborn", "dead"}
      PROVE  /\ \A q \in Proc : q # p => pc'[q] = pc[q] /\ pipe'[q] = pipe[q]
             /\ pc'[p] = "dead" /\ SameEnds
  BY <1>x, ExitEnds, ZenonT(30) DEF Exit
<1>s. ASSUME UNCHANGED conn PROVE SameEnds BY <1>s, Zenon DEF SameEnds
<1>1. CASE SendHello(p)
  <2>1. CASE Fails(p) BY <1>1, <2>1, <1>x, Zenon DEF SendHello, Fails
  <2>2. CASE ~Fails(p)
    <3>1. /\ pc[p] = "spawned" /\ pc' = [pc EXCEPT ![p] = "handshake"] /\ UNCHANGED conn
          /\ pipe' = [pipe EXCEPT ![p] = SendToS(pipe[p], Msg("Hello", 0))]
      BY <1>1, <2>2, Zenon DEF SendHello
    <3>2. NoReady(pipe[p]) => NoReady(pipe'[p]) BY <3>1, <1>m, <1>n, ReadyQueue, Zenon
    <3> QED BY <3>1, <3>2, <1>s, Zenon
  <2> QED BY <2>1, <2>2, Zenon
<1>2. CASE RecvAck(p)
  <2>1. CASE Fails(p) BY <1>2, <2>1, <1>x, Zenon DEF RecvAck, Fails
  <2>2. CASE ~Fails(p)
    <3>1. /\ pc[p] = "handshake" /\ pc' = [pc EXCEPT ![p] = "wait_for_begin"] /\ UNCHANGED conn
          /\ pipe' = [pipe EXCEPT ![p] = Handshook(pipe[p])]
      BY <1>2, <2>2, Zenon DEF RecvAck
    <3>2. NoReady(pipe[p]) => NoReady(pipe'[p]) BY <3>1, <1>m, ReadyQueue, Zenon
    <3> QED BY <3>1, <3>2, <1>s, Zenon
  <2> QED BY <2>1, <2>2
<1>3. CASE RecvBegin(p)
  <2>1. CASE Fails(p) BY <1>3, <2>1, <1>x, Zenon DEF RecvBegin, Fails
  <2>2. CASE ~Fails(p)
    <3>1. /\ pc[p] = "wait_for_begin" /\ UNCHANGED conn
          /\ pc' = [pc EXCEPT ![p] = "begun"] \/ pc' = [pc EXCEPT ![p] = "wait_for_begin"]
          /\ pipe' = [pipe EXCEPT ![p] = TakeFromS(pipe[p])]
      BY <1>3, <2>2, Zenon DEF RecvBegin
    <3>2. NoReady(pipe[p]) => NoReady(pipe'[p]) BY <3>1, <1>m, ReadyQueue, Zenon
    <3> QED BY <3>1, <3>2, <1>s, Zenon
  <2> QED BY <2>1, <2>2
<1>4. CASE SupervisorGone(p) BY <1>4, <1>x, Zenon DEF SupervisorGone, Fails
<1>5. CASE AcquireFlock(p) BY <1>5, <1>x, <1>s, Zenon DEF AcquireFlock, Fails
<1>6. CASE AnnounceReady(p)
  BY <1>6, <1>x, <1>s, Zenon DEF AnnounceReady, Fails
<1>7. CASE BindAfterReady(p) /\ ~FatalIo(p) BY <1>7, <1>s, Zenon DEF BindAfterReady
<1>8. CASE HeartbeatDuringInit(p)
  <2>1. /\ pc[p] \in {"begun", "locked"} /\ UNCHANGED <<pc, conn>>
        /\ pipe' = [pipe EXCEPT ![p] = SendToS(pipe[p], Msg("Heartbeat", 0))]
    BY <1>8, Zenon DEF HeartbeatDuringInit
  <2>2. NoReady(pipe[p]) => NoReady(pipe'[p]) BY <2>1, <1>m, <1>n, ReadyQueue, Zenon
  <2> QED BY <2>1, <2>2, <1>s, Zenon
<1>9. CASE Fault(p) BY <1>9, <1>x DEF Fault, ProcCrash, FatalIo, Alive
<1>10. CASE InitFails(p) BY <1>10, <1>x, Zenon DEF InitFails, Fails
<1> QED BY <1>1, <1>2, <1>3, <1>4, <1>5, <1>6, <1>7, <1>8, <1>9, <1>10, Zenon DEF SuccessorStep
-----------------------------------------------------------------------------
\* A primitive's step leaves the supervisor's locals alone.
LEMMA PrimitiveFrame ==
    ASSUME NEW p \in Proc, PrimitiveStep(p)
    PROVE  UNCHANGED <<spc, hid, child, result>>
BY Zenon DEF PrimitiveStep, ColdStart, BindColdStart, ServeStep, HeartbeatDuringHook, Accept,
   RecvHelloAck, NoHelloAck, Disconnected, RecvPrepareHandoff, DrainOk, DrainErr,
   RecvSealRequest, SealOk, SendSealComplete, SealErr, RecvCommit, RecvResume, RecvHeartbeat,
   RecvUnexpected, RecoverLock, GiveUp, AcceptFails, vars, SuccessorStep,
   HeartbeatDuringInit, ProcCrash, FatalIo, SendHello, RecvAck, RecvBegin, SupervisorGone, AcquireFlock,
   InitFails, AnnounceReady, BindAfterReady, Fails, successorFrame, othersUnchanged, supervisorVars

\* What S does to N's socketpair adds no Ready.
LEMMA SupervisorPipe ==
    ASSUME HandoffInv, child # None, NEW m \in Message
    PROVE  /\ UNCHANGED pipe => (NoReady(pipe[child]) => NoReady(pipe'[child]))
           /\ ToPipe(SendToN(N, m)) => (NoReady(pipe[child]) => NoReady(pipe'[child]))
           /\ ToPipe(N) => (NoReady(pipe[child]) => NoReady(pipe'[child]))
           /\ (N.toS # <<>> /\ ToPipe(TakeFromN(N))) =>
                 (NoReady(pipe[child]) => NoReady(pipe'[child]))
           /\ (N.toS # <<>> /\ ToPipe(SendToN(TakeFromN(N), m))) =>
                 (NoReady(pipe[child]) => NoReady(pipe'[child]))
<1>1. child \in Proc /\ pipe \in [Proc -> PipeState] /\ N = pipe[child] /\ N \in PipeState
  BY Zenon DEF HandoffInv, TypeOK, N
<1>2. ASSUME NEW w, ToPipe(w) PROVE pipe'[child] = w
  BY <1>1, <1>2, Zenon DEF ToPipe
<1>3. ASSUME NoReady(N)
      PROVE  /\ NoReady(SendToN(N, m))
             /\ N.toS # <<>> => NoReady(TakeFromN(N)) /\ NoReady(SendToN(TakeFromN(N), m))
  BY <1>1, <1>3, ReadyQueue, Zenon
<1> QED BY <1>1, <1>2, <1>3, ZenonT(30)

\* Initially S has no child and nobody is connected.
LEMMA InitChild == Init => ChildInv
BY DEF Init, ChildInv, GuardInv, ReadyInv, NoStraySuccessor, NoConn

\* A successor of a handoff under way has no session, whatever the primitives do, and
\* a dead one stays dead.
LEMMA PrimitiveChild ==
    ASSUME HandoffInv, ChildInv, NEW p \in Proc, PrimitiveStep(p)
    PROVE  ChildInv'
<1>u. UNCHANGED <<spc, hid, child, result>> BY PrimitiveFrame, Zenon
<1>t. child \in Proc \cup {None} BY Zenon DEF HandoffInv, TypeOK
<1> DEFINE incumbent == /\ ~FatalIo(p)
                        /\ ColdStart(p) \/ BindColdStart(p) \/ ServeStep(p) \/ HeartbeatDuringHook(p)
           starting == /\ ~FatalIo(p) \/ Fault(p)
                       /\ SuccessorStep(p) \/ HeartbeatDuringInit(p) \/ Fault(p)
<1>s. incumbent \/ starting BY FaultSplit, Zenon DEF HandoffInv
<1>1. /\ \A q \in Proc : q # p => pc'[q] = pc[q] /\ pipe'[q] = pipe[q]
      /\ pc[p] # "dead" /\ pc'[p] # "unborn" /\ SameEnds
  BY <1>s, IncumbentMoves, IncumbentEnds, SuccessorMoves, ZenonT(30)
<1>2. GuardInv'
  BY <1>1, <1>u, <1>t, ZenonT(30) DEF ChildInv, GuardInv, NoStraySuccessor
<1>3. \A q \in Proc, c \in Conn : pc'[q] = "unborn" => conn'[c].o # q
  BY <1>1, ZenonT(30) DEF SameEnds, ChildInv, ReadyInv
<1>4. ASSUME child # None, spc # "idle"
      PROVE  /\ \A c \in Conn : conn'[c].o # child
             /\ pc'[child] \in Starting
             /\ pc[child] \in Announced => pc'[child] \in Announced
             /\ pc'[child] \in Announced \/ NoReady(pipe'[child])
  <2>1. /\ child \in Proc /\ \A c \in Conn : conn[c].o # child
        /\ pc[child] \in Starting /\ (pc[child] \in Announced \/ NoReady(pipe[child]))
    BY <1>4, <1>t, ZenonT(30) DEF ChildInv, ReadyInv
  <2>2. \A c \in Conn : conn'[c].o # child
    BY <1>1, <1>4, <2>1, ZenonT(30) DEF SameEnds
  <2>3. CASE child # p BY <1>1, <2>1, <2>2, <2>3, ZenonT(30)
  <2>4. CASE child = p
    <3>1. ~Accept(p) /\ (~AcceptFails(p) \/ FatalIo(p))
      BY <2>1, <2>4, ZenonT(30) DEF Accept, AcceptFails, Backlog
    <3>2. starting BY <1>s, <2>1, <2>4, <3>1, IncumbentMoves, ZenonT(30)
    <3> QED BY <2>1, <2>2, <2>4, <3>2, SuccessorMoves, ZenonT(30)
  <2> QED BY <2>3, <2>4, Zenon
<1>5. ReadyInv'
  BY <1>u, <1>3, <1>4, ZenonT(30) DEF ChildInv, ReadyInv
<1> QED BY <1>2, <1>5, Zenon DEF ChildInv

\* A step of S in a handoff that kills nobody, adds no Ready and connects nothing.
LEMMA ReadyFrame ==
    ASSUME HandoffInv, ReadyInv, UNCHANGED <<pc, child>>, SameEnds, spc # "idle",
           child # None => (NoReady(pipe[child]) => NoReady(pipe'[child])),
           (spc' = "commit" \/ (result' = "committed" /\ spc' # "idle")) =>
              child # None /\ pc[child] \in Announced
    PROVE  ReadyInv'
<1>t. child \in Proc \cup {None} BY Zenon DEF HandoffInv, TypeOK
<1>1. \A q \in Proc, c \in Conn : pc'[q] = "unborn" => conn'[c].o # q
  BY Zenon DEF SameEnds, ReadyInv
<1>2. child # None => \A c \in Conn : conn'[c].o # child
  BY <1>t, ZenonT(30) DEF SameEnds, ReadyInv
<1> QED BY <1>1, <1>2, ZenonT(30) DEF ReadyInv

\* What S does to its connection moves it nowhere.
LEMMA SupervisorEnds ==
    ASSUME HandoffInv, spc \notin {"down", "boot", "probe_clear", "idle"}, NEW m
    PROVE  /\ UNCHANGED conn => SameEnds
           /\ ToO(TakeReply(O)) => SameEnds
           /\ ToO(Request(O, m)) => SameEnds
           /\ ToO(O) => SameEnds
           /\ ToO(Request(TakeReply(O), m)) => SameEnds
           /\ ToO(CloseS(O)) => SameEnds
<1>1. hid \in Conn /\ conn \in [Conn -> ConnState]
  BY DEF HandoffInv, TypeOK, SupervisorInv, Id, Conn
<1>2. O \in ConnState /\ O = conn[hid] BY <1>1, Zenon DEF O
<1>3. ASSUME NEW k, k.o \in {O.o, None}, ToO(k) PROVE SameEnds
  <2>1. conn' = [conn EXCEPT ![hid] = k] BY <1>3, Zenon DEF ToO
  <2>2. k.o \in {conn[hid].o, None} BY <1>3, <1>2, ZenonT(30)
  <2> QED BY <1>1, <2>1, <2>2, Zenon DEF SameEnds
<1>4. /\ TakeReply(O).o = O.o /\ Request(O, m).o = O.o /\ Request(TakeReply(O), m).o = O.o
      /\ CloseS(O).o \in {O.o, None}
  BY <1>2, EndKept, ZenonT(30)
<1>5. UNCHANGED conn => SameEnds BY DEF SameEnds
<1> QED BY <1>3, <1>4, <1>5

\* S's steps: the guard kills before S lets go of O, and only a Ready commits.
LEMMA SupervisorChild ==
    ASSUME HandoffInv, ChildInv, SupervisorStep
    PROVE  ChildInv'
<1>t. /\ child \in Proc \cup {None} /\ pc \in [Proc -> ProcPC] /\ SupervisorInv
      /\ conn \in [Conn -> ConnState] /\ pipe \in [Proc -> PipeState] /\ hid \in Id
  BY Zenon DEF HandoffInv, TypeOK
<1>g. GuardInv /\ ReadyInv BY Zenon DEF ChildInv
<1>h. \A type \in MsgType : Msg(type, hid) \in Message BY <1>t, MsgType1, ZenonT(30)
<1> USE DEF Goto
<1>1. CASE ResumeFromJournal
  <2>1. child = None /\ child' = None /\ UNCHANGED <<pc, result>>
        /\ spc' \in {"idle", "probe", "probe_clear"}
    BY <1>1, <1>g, ZenonT(30) DEF ResumeFromJournal, GuardInv, primitivesUnchanged, primitiveVars
  <2>2. result # "committed" BY <1>1, <1>g, ZenonT(30) DEF ResumeFromJournal, GuardInv
  <2>3. \A q \in Proc, c \in Conn : pc[q] = "unborn" => conn'[c].o # q
    <3>1. CASE UNCHANGED conn BY <1>g, <3>1, ZenonT(30) DEF ReadyInv
    <3>2. CASE Connect /\ Connectable
      <4>1. \A c \in Conn : conn'[c].o \in {conn[c].o, path}
        BY <1>t, <3>2, ZenonT(30) DEF Connect, NoConn
      <4>2. \A q \in Proc : pc[q] = "unborn" => q # path
        BY <3>2, ZenonT(30) DEF Connectable, Listening, ServePC
      <4> QED BY <1>g, <4>1, <4>2, ZenonT(30) DEF ReadyInv
    <3> QED BY <1>1, <3>1, <3>2, ZenonT(30) DEF ResumeFromJournal
  <2> QED BY <2>1, <2>2, <2>3, ZenonT(30) DEF ChildInv, GuardInv, ReadyInv, NoStraySuccessor
<1>2. CASE PerformHandoff
  <2>1. child' = None /\ UNCHANGED pc /\ result' \in {"none", "error"}
        /\ spc' \in {"idle", "hello_o"}
    BY <1>2, ZenonT(30) DEF PerformHandoff, primitivesUnchanged, primitiveVars
  <2>3. \A q \in Proc, c \in Conn : pc[q] = "unborn" => conn'[c].o # q
    <3>1. CASE UNCHANGED conn BY <1>g, <3>1 DEF ReadyInv
    <3>2. CASE Connect /\ Connectable
      <4>1. \A c \in Conn : conn'[c].o \in {conn[c].o, path}
        BY <1>t, <3>2 DEF Connect, NoConn
      <4>2. \A q \in Proc : pc[q] = "unborn" => q # path
        BY <3>2 DEF Connectable, Listening, ServePC
      <4> QED BY <1>g, <4>1, <4>2 DEF ReadyInv
    <3> QED BY <1>2, <3>1, <3>2, ZenonT(30) DEF PerformHandoff
  <2> QED BY <2>1, <2>3, ZenonT(30) DEF ChildInv, GuardInv, ReadyInv, NoStraySuccessor
<1>3. CASE SupervisorCrash
  <2>1. child' = None /\ UNCHANGED pc /\ result' = "none" /\ spc' = "down"
    BY <1>3, Zenon DEF SupervisorCrash, primitiveVars
  <2>2. ASSUME NEW c \in Conn PROVE conn'[c].o \in {conn[c].o, None}
    <3>1. conn[c] \in ConnState /\ conn'[c] = CloseS(conn[c]) BY <1>3, <1>t, ZenonT(30) DEF SupervisorCrash
    <3> QED BY <3>1, EndKept, ZenonT(30)
  <2>3. \A q \in Proc, c \in Conn : pc[q] = "unborn" => conn'[c].o # q
    BY <1>g, <2>2, ZenonT(30) DEF ReadyInv
  <2> QED BY <2>1, <2>3, ZenonT(30) DEF ChildInv, GuardInv, ReadyInv, NoStraySuccessor
<1>4. CASE Restart \/ ProbeClear
  <2>1. /\ UNCHANGED <<pc, conn, pipe, child, result>> /\ child = None
        /\ spc' \in {"boot", "idle"} /\ result # "committed"
    BY <1>4, <1>g, ZenonT(30) DEF Restart, ProbeClear, primitivesUnchanged, primitiveVars, GuardInv
  <2> QED BY <1>g, <2>1, ZenonT(30) DEF ChildInv, GuardInv, ReadyInv, NoStraySuccessor
<1>5. CASE Probe
  <2>1. /\ UNCHANGED <<pc, pipe, child, result>> /\ child = None /\ spc = "probe"
        /\ spc' = "probe_clear" /\ result # "committed" /\ ToO(CloseS(O))
    BY <1>5, <1>g, ZenonT(30) DEF Probe, primitivesUnchanged, primitiveVars, GuardInv
  <2>2. SameEnds BY <2>1, SupervisorEnds, ZenonT(30)
  <2>3. ReadyInv' BY <1>g, <2>1, <2>2, ReadyFrame, ZenonT(30)
  <2> QED BY <1>g, <2>1, <2>3, ZenonT(30) DEF ChildInv, GuardInv, NoStraySuccessor
<1>6. CASE HandoffStep
  <2>h. spc \notin {"down", "boot", "probe", "probe_clear", "idle"}
    BY <1>6, ZenonT(30) DEF HandoffStep, HelloO, SpawnSuccessor, HelloN, JournalNegotiating, PrepareHandoff,
       AwaitDrained, DrainedDeadline, JournalDraining, SealRequest, RecvSealReply, SealDeadline,
       SealTimeout, SealReadError, JournalSealing, Begin, JournalAwaitingReady, AwaitReady,
       ReadyDeadline, Commit, JournalCommitted, ResumeAfterAbort, JournalResuming, JournalClear,
       Kill, Return, JournalSet, SendToO
  <2> USE DEF primitivesUnchanged, primitiveVars
  <2>1. CASE SpawnSuccessor
    <3>1. CASE UNCHANGED <<pc, pipe, child>>
      <4>1. /\ UNCHANGED conn /\ result' = "error" /\ spc = "spawn"
            /\ spc' = IF child = None THEN "return" ELSE "kill_return"
        BY <2>1, <3>1, <1>t, ZenonT(30) DEF SpawnSuccessor, FailWith
      <4>2. ReadyInv' BY <1>g, <3>1, <4>1, ReadyFrame, ZenonT(30) DEF SameEnds
      <4> QED BY <1>g, <3>1, <4>1, <4>2, ZenonT(30) DEF ChildInv, GuardInv, NoStraySuccessor
    <3>2. CASE ~UNCHANGED <<pc, pipe, child>>
      <4>1. PICK p \in Proc :
              /\ pc[p] = "unborn" /\ pc' = [pc EXCEPT ![p] = "spawned"] /\ child' = p
              /\ pipe' = [pipe EXCEPT ![p] = [NoPipe EXCEPT !.sOpen = TRUE, !.nOpen = TRUE]]
              /\ spc = "spawn" /\ spc' = "hello_n" /\ UNCHANGED <<result, conn>>
        BY <2>1, <3>2, ZenonT(30) DEF SpawnSuccessor
      <4>2. NoReady(pipe'[p]) BY <4>1, <1>t DEF NoReady, NoPipe
      <4>3. pc'[p] = "spawned" /\ \A q \in Proc : q # p => pc'[q] = pc[q] BY <4>1, <1>t, Zenon
      <4>4. ReadyInv'
        BY <1>g, <4>1, <4>2, <4>3, Zenon DEF ReadyInv, GuardInv, Starting, SuccessorPC
      <4> QED BY <1>g, <4>1, <4>3, <4>4, ZenonT(30) DEF ChildInv, GuardInv, NoStraySuccessor
    <3> QED BY <3>1, <3>2, ZenonT(30)
  <2>2. CASE Kill
    <3>1. /\ UNCHANGED <<child, result>> /\ child \in Proc
          /\ spc \in {"kill_clear", "kill_resume", "kill_return"}
          /\ spc' \in {"clear", "resume", "return"} /\ result # "committed"
      BY <2>2, <1>t, <1>g, ZenonT(30) DEF Kill, SupervisorInv, GuardInv
    <3>2. /\ pc'[child] = "dead" /\ SameEnds
          /\ \A q \in Proc : q # child => pc'[q] = pc[q]
      <4>1. CASE Alive(child) /\ Exit(child)
        BY <4>1, <3>1, <1>t, ExitEnds, Zenon DEF Exit, HandoffInv
      <4>2. CASE ~Alive(child) /\ UNCHANGED <<pc, conn>>
        BY <4>2, <3>1, <1>g, ZenonT(30) DEF Alive, GuardInv, SameEnds
      <4> QED BY <2>2, <4>1, <4>2, ZenonT(30) DEF Kill, KillAndReap
    <3>3. \A q \in Proc, c \in Conn : pc'[q] = "unborn" => conn'[c].o # q
      BY <1>g, <3>2, ZenonT(30) DEF ReadyInv, SameEnds
    <3>4. \A c \in Conn : conn'[c].o # child
      BY <1>g, <3>1, <3>2, <2>h, ZenonT(30) DEF ReadyInv, SameEnds
    <3>5. ReadyInv' BY <3>1, <3>2, <3>3, <3>4, ZenonT(30) DEF ReadyInv, Starting, Announced
    <3> QED BY <1>g, <3>1, <3>2, <3>5, Zenon DEF ChildInv, GuardInv, NoStraySuccessor
  <2>3. CASE Return
    <3>1. /\ UNCHANGED <<pc, child, result>> /\ spc = "return" /\ spc' = "idle" /\ ToO(CloseS(O))
      BY <2>3, ZenonT(30) DEF Return
    <3>2. SameEnds BY <3>1, SupervisorEnds, ZenonT(30)
    <3>3. ReadyInv' BY <1>g, <3>1, <3>2, ZenonT(30) DEF ReadyInv, SameEnds
    <3> QED BY <1>g, <3>1, <3>3, ZenonT(30) DEF ChildInv, GuardInv, NoStraySuccessor
  <2>4. CASE HelloO
    <3>1. /\ UNCHANGED <<pc, pipe, child>> /\ spc = "hello_o"
          /\ ToO(Request(TakeReply(O), Msg("HelloAck", hid))) \/ UNCHANGED conn
          /\ \/ spc' = "spawn" /\ UNCHANGED result
             \/ FailWith("error")
      BY <2>4, Zenon DEF HelloO
    <3>2. SameEnds BY <3>1, SupervisorEnds, ZenonT(30)
    <3>3. ReadyInv' BY <1>g, <3>1, <3>2, ReadyFrame, ZenonT(30) DEF GuardInv, FailWith
    <3> QED BY <1>g, <3>1, <3>3, ZenonT(30) DEF ChildInv, GuardInv, NoStraySuccessor, FailWith
  <2>n. ASSUME child # None, UNCHANGED <<pc, child>>, SameEnds,
               NoReady(pipe[child]) => NoReady(pipe'[child]),
               \/ /\ result' = result /\ result # "committed"
                  /\ spc' \notin {"resume", "resuming", "clear", "return", "idle", "commit",
                                  "committed", "down", "boot", "probe", "probe_clear"}
               \/ /\ result' \in {"aborted", "error"}
                  /\ spc' \in {"kill_return", "kill_clear", "kill_resume"}
        PROVE  ChildInv'
    <3>1. ReadyInv' BY <1>g, <2>h, <2>n, ReadyFrame, ZenonT(30)
    <3> QED BY <1>g, <2>n, <3>1, ZenonT(30) DEF ChildInv, GuardInv, NoStraySuccessor
  <2>f. ASSUME child # None, NEW r, FailWith(r) PROVE spc' = "kill_return" /\ result' = r
    BY <2>f, Zenon DEF FailWith
  <2>c. spc \notin {"hello_o", "spawn", "return"} => child # None BY <2>h, <1>t, ZenonT(30) DEF SupervisorInv
  <2>r. result = "committed" => spc \in {"committed", "clear", "return"} BY <1>g, <2>h, ZenonT(30) DEF GuardInv
  <2>e. /\ UNCHANGED conn => SameEnds
        /\ ToO(TakeReply(O)) => SameEnds
        /\ ToO(O) => SameEnds
        /\ \A m : ToO(Request(O, m)) => SameEnds
    BY <2>h, SupervisorEnds, ZenonT(30)
  <2>5. CASE HelloN
    <3>1. UNCHANGED <<pc, conn, child>> /\ spc = "hello_n" BY <2>5, ZenonT(30) DEF HelloN
    <3>2. NoReady(pipe[child]) => NoReady(pipe'[child])
      BY <2>5, <2>c, <3>1, <1>h, SupervisorPipe, ZenonT(30) DEF HelloN, MsgType
    <3>3. (spc' = "negotiating" /\ result' = result) \/ (spc' = "kill_return" /\ result' = "error")
      BY <2>5, <2>f, <2>c, <3>1, ZenonT(30) DEF HelloN
    <3> QED BY <2>n, <2>c, <2>r, <2>e, <3>1, <3>2, <3>3, ZenonT(30)
  <2>6. CASE \/ JournalNegotiating \/ JournalDraining \/ JournalSealing \/ JournalAwaitingReady
    <3>1. /\ UNCHANGED <<pc, conn, pipe, child>>
          /\ spc \in {"negotiating", "draining", "sealing", "awaiting_ready"}
          /\ \/ spc' \in {"prepare", "seal_request", "begin", "ready"} /\ result' = result
             \/ FailWith("error")
      BY <2>6, Zenon DEF JournalNegotiating, JournalDraining, JournalSealing, JournalAwaitingReady, JournalSet
    <3> QED BY <2>n, <2>c, <2>r, <2>e, <2>f, <3>1, ZenonT(30)
  <2>7. CASE JournalResuming
    <3>1. /\ UNCHANGED <<pc, conn, pipe, child>> /\ spc = "resuming"
          /\ (spc' = "clear" /\ result' = result) \/ FailWith("error")
      BY <2>7, ZenonT(30) DEF JournalResuming, JournalSet
    <3>2. CASE FailWith("error") BY <2>n, <2>c, <2>e, <2>f, <3>1, <3>2, ZenonT(30)
    <3>3. CASE spc' = "clear" /\ result' = result
      <4>1. ReadyInv' BY <1>g, <2>h, <2>e, <2>r, <3>1, <3>3, ReadyFrame, ZenonT(30)
      <4> QED
        BY <1>g, <2>c, <2>r, <3>1, <3>3, <4>1, SMTT(30), Z3T(30) DEF ChildInv, GuardInv, NoStraySuccessor
    <3> QED BY <3>1, <3>2, <3>3, ZenonT(30)
  <2>8. CASE PrepareHandoff \/ SealRequest
    <3>1. /\ UNCHANGED <<pc, pipe, child>> /\ spc \in {"prepare", "seal_request"}
          /\ \/ /\ spc' \in {"drained", "seal"} /\ result' = result
                /\ \E m : ToO(Request(O, m))
             \/ FailWith("error") /\ UNCHANGED conn
      BY <2>8, ZenonT(30) DEF PrepareHandoff, SealRequest, SendToO
    <3> QED BY <2>n, <2>c, <2>r, <2>e, <2>f, <3>1, ZenonT(30)
  <2>9. CASE ResumeAfterAbort
    <3>1. /\ UNCHANGED <<pc, pipe, child>> /\ spc = "resume"
          /\ \/ /\ spc' = "resuming" /\ result' = result
                /\ \E m : ToO(Request(O, m))
             \/ FailWith("error") /\ UNCHANGED conn
      BY <2>9, ZenonT(30) DEF ResumeAfterAbort, SendToO
    <3>2. CASE FailWith("error") /\ UNCHANGED conn
      BY <2>n, <2>c, <2>e, <2>f, <3>1, <3>2, ZenonT(30)
    <3>3. CASE spc' = "resuming" /\ result' = result /\ \E m : ToO(Request(O, m))
      <4>1. ReadyInv' BY <1>g, <2>h, <2>e, <2>r, <3>1, <3>3, ReadyFrame, ZenonT(30)
      <4> QED
        BY <1>g, <2>c, <2>r, <3>1, <3>3, <4>1, ZenonT(30) DEF ChildInv, GuardInv, NoStraySuccessor
    <3> QED BY <3>1, <3>2, <3>3, ZenonT(30)
  <2>10. CASE AwaitDrained \/ DrainedDeadline
    <3>1. /\ UNCHANGED <<pc, pipe, child>> /\ spc = "drained"
          /\ ToO(TakeReply(O)) \/ UNCHANGED conn
          /\ (spc' \in {"drained", "draining"} /\ result' = result) \/ FailWith("error")
      BY <2>10, Zenon DEF AwaitDrained, DrainedDeadline
    <3> QED BY <2>n, <2>c, <2>r, <2>e, <2>f, <3>1, ZenonT(30)
  <2>a. AbortN => (child # None => (NoReady(pipe[child]) => NoReady(pipe'[child])))
    BY <1>h, SupervisorPipe, ZenonT(30) DEF AbortN, MsgType
  <2>11. CASE RecvSealReply
    <3>1. /\ UNCHANGED <<pc, child>> /\ spc = "seal" /\ ToO(TakeReply(O))
          /\ UNCHANGED pipe \/ AbortN
          /\ \/ spc' \in {"seal", "sealing"} /\ result' = result
             \/ spc' = "kill_clear" /\ result' = "aborted"
             \/ FailWith("error")
      BY <2>11, Zenon DEF RecvSealReply, AbortSealPhase
    <3>2. child # None /\ SameEnds /\ result # "committed" BY <2>c, <2>e, <2>r, <3>1, ZenonT(30)
    <3>3. NoReady(pipe[child]) => NoReady(pipe'[child]) BY <2>a, <3>1, <3>2, ZenonT(30)
    <3>4. CASE FailWith("error") BY <2>n, <2>f, <3>1, <3>2, <3>3, <3>4, ZenonT(30)
    <3>5. CASE spc' \in {"seal", "sealing"} /\ result' = result
      BY <2>n, <3>1, <3>2, <3>3, <3>5, ZenonT(30)
    <3>6. CASE spc' = "kill_clear" /\ result' = "aborted"
      BY <2>n, <3>1, <3>2, <3>3, <3>6, ZenonT(30)
    <3> QED BY <3>1, <3>4, <3>5, <3>6, ZenonT(30)
  <2>12. CASE SealDeadline \/ SealTimeout \/ SealReadError
    <3>1. /\ UNCHANGED <<pc, child>> /\ spc = "seal"
          /\ ToO(TakeReply(O)) \/ UNCHANGED conn
          /\ UNCHANGED pipe \/ AbortN
          /\ (spc' = "kill_clear" /\ result' = "error") \/ FailWith("error")
      BY <2>12, ZenonT(30) DEF SealDeadline, SealTimeout, SealReadError, AbortSealPhase
    <3> QED BY <2>n, <2>c, <2>r, <2>e, <2>f, <2>a, <3>1, ZenonT(30)
  <2>13. CASE Begin \/ ReadyDeadline
    <3>1. /\ UNCHANGED <<pc, conn, child>> /\ spc \in {"begin", "ready"}
          /\ \/ /\ ToPipe(SendToN(N, Msg("Begin", hid)))
                /\ spc' = "awaiting_ready" /\ result' = result
             \/ AbortN /\ spc' = "kill_resume" /\ result' = "aborted"
      BY <2>13, Zenon DEF Begin, ReadyDeadline, AbortReadyPhase
    <3>2. NoReady(pipe[child]) => NoReady(pipe'[child])
      BY <2>a, <2>c, <3>1, <1>h, SupervisorPipe, ZenonT(30) DEF MsgType
    <3> QED BY <2>n, <2>c, <2>r, <2>e, <3>1, <3>2, ZenonT(30)
  <2>14. CASE AwaitReady
    <3>1. UNCHANGED <<pc, conn, child>> /\ spc = "ready" BY <2>14, ZenonT(30) DEF AwaitReady
    <3>2. CASE AbortReadyPhase
      BY <2>n, <2>c, <2>e, <2>a, <3>1, <3>2, ZenonT(30) DEF AbortReadyPhase
    <3>3. CASE ~AbortReadyPhase
      <4>1. /\ N.toS # <<>> /\ ToPipe(TakeFromN(N)) /\ result' = result
            /\ spc' = IF Head(N.toS).type = "Ready" THEN "commit" ELSE "ready"
        BY <2>14, <3>3, ZenonT(30) DEF AwaitReady
      <4>2. NoReady(pipe[child]) => NoReady(pipe'[child])
        BY <2>c, <3>1, <4>1, <1>h, SupervisorPipe, ZenonT(30) DEF MsgType
      <4>3. CASE spc' = "ready" BY <2>n, <2>c, <2>r, <2>e, <3>1, <4>1, <4>2, <4>3, ZenonT(30)
      <4>4. CASE spc' = "commit"
        <5>1. Head(N.toS).type = "Ready" BY <4>1, <4>4, ZenonT(30)
        <5>2. ~NoReady(pipe[child])
          <6>1. pipe[child].toS \in Seq(Message) /\ N = pipe[child]
            BY <2>c, <3>1, <1>t, ZenonT(30) DEF N, PipeState
          <6> QED BY <4>1, <5>1, <6>1 DEF NoReady
        <5>3. pc[child] \in Announced BY <1>g, <2>c, <3>1, <5>2, ZenonT(30) DEF ReadyInv
        <5>4. ReadyInv' BY <1>g, <2>h, <2>c, <2>e, <3>1, <4>2, <5>3, ReadyFrame, ZenonT(30)
        <5> QED
          BY <1>g, <2>c, <2>r, <3>1, <4>1, <4>4, <5>4, ZenonT(30) DEF ChildInv, GuardInv, NoStraySuccessor
      <4> QED BY <4>1, <4>3, <4>4, ZenonT(30)
    <3> QED BY <3>2, <3>3, ZenonT(30)
  <2>15. CASE Commit \/ JournalCommitted \/ JournalClear
    <3>1. /\ UNCHANGED <<pc, pipe, child>>
          /\ UNCHANGED conn \/ ToO(O) \/ \E m : ToO(Request(O, m))
          /\ \/ spc = "commit" /\ spc' = "committed" /\ result' = "committed"
             \/ spc = "committed" /\ spc' = "clear" /\ result' = result
             \/ spc = "clear" /\ spc' = "return" /\ result' = result
      BY <2>15, ZenonT(30) DEF Commit, JournalCommitted, JournalClear
    <3>2. (spc' = "commit" \/ (result' = "committed" /\ spc' # "idle")) =>
             child # None /\ pc[child] \in Announced
      BY <1>g, <2>h, <3>1, ZenonT(30) DEF ReadyInv, GuardInv
    <3>3. ReadyInv' BY <1>g, <2>h, <2>e, <3>1, <3>2, ReadyFrame, ZenonT(30)
    <3> QED BY <1>g, <2>c, <2>r, <3>1, <3>3, ZenonT(30) DEF ChildInv, GuardInv, NoStraySuccessor
  <2> QED
    BY <1>6, <2>1, <2>2, <2>3, <2>4, <2>5, <2>6, <2>7, <2>8, <2>9, <2>10, <2>11, <2>12, ZenonT(30),
             <2>13, <2>14, <2>15 DEF HandoffStep
<1> QED BY <1>1, <1>2, <1>3, <1>4, <1>5, <1>6, ZenonT(30) DEF SupervisorStep, BootStep

\* ChildInv, with HandoffInv, is inductive.
LEMMA ChildStep ==
    ASSUME HandoffInv, ChildInv, [Next]_vars
    PROVE  ChildInv'
<1>1. CASE UNCHANGED vars
  BY <1>1, ZenonT(30) DEF vars, ChildInv, GuardInv, ReadyInv, NoStraySuccessor, NoReady
<1> QED BY <1>1, SupervisorChild, PrimitiveChild, ZenonT(30) DEF Next
=============================================================================
