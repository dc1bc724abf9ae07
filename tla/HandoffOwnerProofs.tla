------------------------- MODULE HandoffOwnerProofs -------------------------
(***************************************************************************)
(* HandoffInv is inductive.  Every step of Handoff taken from a state of   *)
(* it preserves what it says of the flock, the writers and where each      *)
(* primitive is, and is a step of SingleWriter or a stutter; and every     *)
(* step, what it says of the SealRequests that S sends.                    *)
(***************************************************************************)
EXTENDS HandoffTypeProofs

USE NoneAssumption, BoundAssumption
-----------------------------------------------------------------------------
Ownership == OwnerIsWriter /\ \A p \in Proc : OwnershipInv(p)

\* A step of SingleWriter, or a stutter.
AbstractStep == Abstract!Next \/ UNCHANGED <<flock, [p \in Proc |-> Status(p)]>>

OwnershipStep == Ownership' /\ AbstractStep

\* A step that changes nothing anybody owns.
LEMMA OwnershipStutter ==
    ASSUME HandoffInv, UNCHANGED <<flock, pc, consumer, sess>>
    PROVE  OwnershipStep
<1>1. Ownership'
  BY DEF HandoffInv, Ownership, OwnerIsWriter, OwnershipInv, Writing
<1>2. UNCHANGED <<flock, [p \in Proc |-> Status(p)]>>
  BY DEF Status
<1>3. QED
  BY <1>1, <1>2, Zenon DEF OwnershipStep, AbstractStep

\* A step of one process disturbs the ownership of no other, and claims, seals
\* or leaves at most once.
LEMMA OwnershipFrame ==
    ASSUME HandoffInv, NEW p \in Proc,
           \A q \in Proc \ {p} :
              pc'[q] = pc[q] /\ consumer'[q] = consumer[q] /\ sess'[q] = sess[q],
           flock' = flock \/ {flock, flock'} \subseteq {p, None},
           Writing(p)' <=> flock' = p,
           OwnershipInv(p)',
           pc[p] # "dead",
           pc'[p] = "dead" \/ (consumer'[p] = "none" => consumer[p] = "none"),
           consumer'[p] = "sealed" => consumer[p] # "none"
    PROVE  OwnershipStep
<1>1. ASSUME NEW q \in Proc PROVE Writing(q)' <=> flock' = q
  <2>1. CASE q = p
    BY <2>1
  <2>2. CASE q # p
    <3>1. (Writing(q) <=> flock = q) /\ consumer'[q] = consumer[q]
      BY <2>2 DEF HandoffInv, OwnerIsWriter
    <3>2. flock' = q <=> flock = q
      BY <2>2
    <3>3. QED
      BY <3>1, <3>2 DEF Writing
  <2>3. QED
    BY <2>1, <2>2
<1>2. ASSUME NEW q \in Proc PROVE OwnershipInv(q)'
  <2>1. CASE q = p
    BY <2>1, Zenon
  <2>2. CASE q # p
    <3>1. OwnershipInv(q) /\ pc'[q] = pc[q] /\ consumer'[q] = consumer[q] /\ sess'[q] = sess[q]
      BY <2>2 DEF HandoffInv
    <3>2. QED
      BY <3>1 DEF OwnershipInv
  <2>3. QED
    BY <2>1, <2>2
<1>3. Ownership'
  BY <1>1, <1>2 DEF Ownership, OwnerIsWriter
<1>4. AbstractStep
  <2> DEFINE st == [r \in Proc |-> Status(r)]
  <2>1. \A q \in Proc \ {p} : Status(q)' = Status(q)
    BY DEF Status
  <2>2. st' = [st EXCEPT ![p] = Status(p)'] /\ st[p] = Status(p)
    BY <2>1, Zenon
  <2>3. (Writing(p) <=> flock = p) /\ flock \in Proc \cup {None}
    BY DEF HandoffInv, OwnerIsWriter, TypeOK
  <2>4. Status(p) \in {"fresh", "sealed", "writing"} /\ (Status(p) = "writing" <=> flock = p)
    BY <2>3 DEF Status, Writing
  <2>5. CASE Status(p)' = "gone"
    <3>1. flock' # p
      BY <2>5 DEF Status, OwnershipInv, BeforeFlock, Writing
    <3>2. flock' = IF flock = p THEN None ELSE flock
      BY <3>1, <2>3, Zenon
    <3>3. Abstract!Leave(p)
      BY <2>2, <2>4, <2>5, <3>2, Zenon DEF Abstract!Leave
    <3>4. QED
      BY <3>3 DEF AbstractStep, Abstract!Next
  <2>6. CASE Status(p)' = "writing"
    <3>1. flock' = p
      BY <2>6, Zenon DEF Status, Writing
    <3>2. CASE flock = p
      <4>1. Status(p)' = Status(p)
        BY <3>2, <2>4, <2>6, Zenon
      <4>2. st' = st /\ flock' = flock
        BY <4>1, <3>1, <3>2, <2>1, Zenon
      <4>3. QED
        BY <4>2 DEF AbstractStep
    <3>3. CASE flock # p
      <4>1. flock = None /\ Status(p) \in {"fresh", "sealed"}
        BY <3>1, <3>3, <2>3, <2>4, Zenon
      <4>2. Abstract!Claim(p)
        BY <4>1, <3>1, <2>2, <2>6, Zenon DEF Abstract!Claim
      <4>3. QED
        BY <4>2, Zenon DEF AbstractStep, Abstract!Next
    <3>4. QED
      BY <3>2, <3>3
  <2>7. CASE Status(p)' \in {"fresh", "sealed"}
    <3>1. flock' # p
      BY <2>7, Zenon DEF Status, Writing
    <3>2. CASE flock = p
      <4>1. Status(p) = "writing" /\ flock' = None
        BY <3>1, <3>2, <2>4, Zenon
      <4>2. Status(p)' = "sealed"
        BY <4>1, <2>7, Zenon DEF Status
      <4>3. Abstract!Seal(p)
        BY <4>1, <4>2, <3>2, <2>2, Zenon DEF Abstract!Seal
      <4>4. QED
        BY <4>3, Zenon DEF AbstractStep, Abstract!Next
    <3>3. CASE flock # p
      <4>1. Status(p)' = Status(p)
        BY <3>3, <2>4, <2>7 DEF Status
      <4>2. st' = st /\ flock' = flock
        BY <4>1, <3>1, <3>3, <2>1, Zenon
      <4>3. QED
        BY <4>2 DEF AbstractStep
    <3>4. QED
      BY <3>2, <3>3
  <2>8. QED
    BY <2>5, <2>6, <2>7, Zenon DEF Status
<1>5. QED
  BY <1>3, <1>4 DEF OwnershipStep

\* What HandoffInv says of a process in a session.
LEMMA InSession ==
    ASSUME HandoffInv, NEW p \in Proc, pc[p] \in InLoop \cup {"hello_ack"}
    PROVE  /\ sess[p] \in SessionState
           /\ consumer[p] \in ConsumerState \ {"none"}
           /\ consumer[p] = "sealed" <=> sess[p].sealed
           /\ consumer[p] = "drained" => sess[p].drained
           /\ consumer[p] # "sealed" <=> flock = p
<1>1. TypeOK /\ OwnershipInv(p) /\ (Writing(p) <=> flock = p)
  BY DEF HandoffInv, OwnerIsWriter
<1>2. QED
  BY <1>1 DEF TypeOK, OwnershipInv, Writing, Owning, InLoop

\* The end of a process takes its flock and its writer together.
LEMMA ExitOwnership ==
    ASSUME HandoffInv, NEW p \in Proc, pc[p] # "dead", Exit(p)
    PROVE  OwnershipStep
<1>1. TypeOK
  BY DEF HandoffInv
<1>2. /\ pc'[p] = "dead" /\ consumer'[p] = "none"
      /\ sess'[p] = NoSession
      /\ \A q \in Proc \ {p} :
            pc'[q] = pc[q] /\ consumer'[q] = consumer[q] /\ sess'[q] = sess[q]
  BY <1>1 DEF Exit, TypeOK
<1>3. flock' # p /\ (flock' = flock \/ {flock, flock'} \subseteq {p, None})
  BY Zenon DEF Exit
<1>4. OwnershipInv(p)'
  BY <1>2 DEF OwnershipInv, NoSession, BeforeFlock, Owning, InLoop
<1>5. Writing(p)' <=> flock' = p
  BY <1>2, <1>3, Zenon DEF Writing
<1>6. QED
  BY <1>2, <1>3, <1>4, <1>5, OwnershipFrame, Zenon

\* Leaving a session: the consumer is running exactly when p holds the flock,
\* and a sealed one goes to recovery.
LEMMA LeaveSessionOwnership ==
    ASSUME HandoffInv, NEW p \in Proc, pc[p] \in InLoop \cup {"hello_ack"},
           NEW s, NEW q \in ConsumerState \ {"none"}, NEW k, NEW e \in BOOLEAN, LeaveSession(p, s, q, k, e),
           flock' = flock \/ {flock, flock'} \subseteq {p, None},
           q # "sealed" <=> flock' = p,
           s.drained /\ ~s.sealed => q # "sealed",
           q = "drained" => s.drained /\ ~s.sealed,
           q = "sealed" => e
    PROVE  OwnershipStep
<1>1. TypeOK
  BY DEF HandoffInv
<1>2. /\ sess'[p] = NoSession
      /\ pc'[p] = IF e /\ flock' # p THEN "recover" ELSE "accept"
      /\ \A r \in Proc \ {p} :
            pc'[r] = pc[r] /\ consumer'[r] = consumer[r] /\ sess'[r] = sess[r]
  BY <1>1, Zenon DEF LeaveSession, Session, At, Consumer, TypeOK
<1>3. consumer'[p] \in IF s.drained /\ ~s.sealed THEN ResumeOutcome ELSE {q}
  BY <1>1, Zenon DEF LeaveSession, Consumer, TypeOK
<1>4. Writing(p)' <=> flock' = p
  BY <1>3, Zenon DEF Writing, ResumeOutcome
<1>5. OwnershipInv(p)'
  BY <1>2, <1>3 DEF OwnershipInv, NoSession, BeforeFlock, Owning, InLoop, ResumeOutcome,
     ConsumerState
<1>6. consumer[p] # "none" /\ consumer'[p] # "none" /\ pc[p] # "dead"
  BY <1>3, InSession, Zenon DEF ResumeOutcome, InLoop
<1>7. QED
  BY <1>2, <1>4, <1>5, <1>6, OwnershipFrame, Zenon

\* A session that ends with nothing changed since its last request leaves
\* ownership intact.
LEMMA EndSessionOwnership ==
    ASSUME HandoffInv, NEW p \in Proc, pc[p] \in InLoop \cup {"hello_ack"}, UNCHANGED flock,
           NEW e \in BOOLEAN, sess[p].sealed => e, EndSession(p, sess[p], consumer[p], e)
    PROVE  OwnershipStep
<1>1. LeaveSession(p, sess[p], consumer[p], conn[C(p)], e)
  BY DEF EndSession
<1>2. QED
  BY <1>1, InSession, LeaveSessionOwnership

\* So does an early error return.
LEMMA SessionErrorOwnership ==
    ASSUME HandoffInv, NEW p \in Proc, pc[p] \in InLoop \cup {"hello_ack"}, SessionError(p)
    PROVE  OwnershipStep
BY EndSessionOwnership, Zenon DEF SessionError

\* A step that moves p within the session loop.
LEMMA LoopOwnership ==
    ASSUME HandoffInv, NEW p \in Proc, pc[p] \in InLoop \cup {"hello_ack"},
           NEW where \in InLoop, NEW s \in SessionState, NEW q \in ConsumerState \ {"none"},
           pc' = [pc EXCEPT ![p] = where],
           sess' = [sess EXCEPT ![p] = s],
           consumer' = [consumer EXCEPT ![p] = q],
           flock' = flock \/ {flock, flock'} \subseteq {p, None},
           s.conn # 0,
           q = "sealed" <=> s.sealed,
           q = "drained" => s.drained,
           q # "sealed" <=> flock' = p,
           where = "seal" => ~s.sealed
    PROVE  OwnershipStep
<1>1. TypeOK
  BY DEF HandoffInv
<1>2. /\ pc'[p] = where /\ sess'[p] = s /\ consumer'[p] = q
      /\ \A r \in Proc \ {p} :
            pc'[r] = pc[r] /\ consumer'[r] = consumer[r] /\ sess'[r] = sess[r]
  BY <1>1, Zenon DEF TypeOK
<1>3. Writing(p)' <=> flock' = p
  BY <1>2, Zenon DEF Writing
<1>4. OwnershipInv(p)'
  BY <1>2, Zenon DEF OwnershipInv, BeforeFlock, Owning, InLoop
<1>5. consumer[p] # "none" /\ pc[p] # "dead"
  BY InSession, Zenon DEF InLoop
<1>6. QED
  BY <1>2, <1>3, <1>4, <1>5, OwnershipFrame, Zenon

\* A step that moves p within the session loop and changes nothing p has.
LEMMA LoopMoveOwnership ==
    ASSUME HandoffInv, NEW p \in Proc, pc[p] \in InLoop \cup {"hello_ack"},
           NEW where \in InLoop, pc' = [pc EXCEPT ![p] = where],
           UNCHANGED <<flock, consumer, sess>>, sess[p].conn # 0,
           where = "seal" => ~sess[p].sealed
    PROVE  OwnershipStep
<1>1. TypeOK
  BY DEF HandoffInv
<1>2. /\ pc'[p] = where /\ sess'[p] = sess[p] /\ consumer'[p] = consumer[p]
      /\ \A r \in Proc \ {p} :
            pc'[r] = pc[r] /\ consumer'[r] = consumer[r] /\ sess'[r] = sess[r]
  BY <1>1, Zenon DEF TypeOK
<1>3. /\ consumer[p] \in ConsumerState \ {"none"}
      /\ consumer[p] = "sealed" <=> sess[p].sealed
      /\ consumer[p] = "drained" => sess[p].drained
      /\ consumer[p] # "sealed" <=> flock = p
  BY InSession
<1>4. Writing(p)' <=> flock' = p
  BY <1>3, Zenon DEF Writing
<1>5. OwnershipInv(p)'
  BY <1>2, <1>3, Zenon DEF OwnershipInv, BeforeFlock, Owning, InLoop
<1>6. consumer[p] # "none" /\ pc[p] # "dead"
  BY <1>3, Zenon DEF InLoop
<1>7. QED
  BY <1>2, <1>4, <1>5, <1>6, OwnershipFrame, Zenon

\* A step that takes p from or to a state outside the session loop, with its
\* session untouched and not begun.
LEMMA OutsideOwnership ==
    ASSUME HandoffInv, NEW p \in Proc, pc[p] \notin InLoop, pc[p] # "dead",
           NEW where \in ProcPC \ (InLoop \cup {"hello_ack", "recover"}),
           NEW q \in ConsumerState,
           pc' = [pc EXCEPT ![p] = where],
           consumer' = [consumer EXCEPT ![p] = q],
           UNCHANGED sess,
           flock' = flock \/ {flock, flock'} \subseteq {p, None},
           where \in BeforeFlock => q = "none" /\ flock' # p /\ pc[p] \in BeforeFlock,
           where \in Owning => q \in {"serving", "resume_failed", "drain_failed"} /\ flock' = p
    PROVE  OwnershipStep
<1>1. TypeOK /\ OwnershipInv(p)
  BY Zenon DEF HandoffInv
<1>2. /\ pc'[p] = where /\ sess'[p] = sess[p] /\ consumer'[p] = q
      /\ \A r \in Proc \ {p} :
            pc'[r] = pc[r] /\ consumer'[r] = consumer[r] /\ sess'[r] = sess[r]
  BY <1>1, Zenon DEF TypeOK
<1>3. where \in BeforeFlock \cup Owning
  BY Zenon DEF ProcPC, SuccessorPC, ServePC, BeforeFlock, Owning, InLoop
<1>4. Writing(p)' <=> flock' = p
  BY <1>2, <1>3, Zenon DEF Writing
<1>5. OwnershipInv(p)'
  BY <1>1, <1>2, Zenon DEF OwnershipInv, BeforeFlock, Owning, InLoop
<1>6. q # "sealed" /\ (q = "none" => consumer[p] = "none")
  BY <1>1, <1>3, Zenon DEF OwnershipInv
<1>7. QED
  BY <1>2, <1>4, <1>5, <1>6, OwnershipFrame, Zenon

\* Every step of a successor, and a fault that ends a primitive, preserves ownership:
\* N has a writer only from its acquisition of the flock on.
LEMMA SuccessorOwnership ==
    ASSUME HandoffInv, NEW p \in Proc,
           SuccessorStep(p) \/ HeartbeatDuringInit(p) \/ Fault(p), ~FatalIo(p) \/ Fault(p)
    PROVE  OwnershipStep
<1> USE DEF successorFrame, Step
<1>t. TypeOK /\ OwnershipInv(p) /\ (Writing(p) <=> flock = p) /\ consumer[p] \in ConsumerState
  BY Zenon DEF HandoffInv, OwnerIsWriter, TypeOK
<1>d. pc[p] # "dead"
  BY Zenon DEF SuccessorStep, HeartbeatDuringInit, Fault, ProcCrash, Alive, SendHello, RecvAck, RecvBegin,
     SupervisorGone, AcquireFlock, InitFails, AnnounceReady, BindAfterReady
<1>f. Fails(p) => OwnershipStep
  BY <1>d, ExitOwnership, Zenon DEF Fails
<1>s. consumer = [consumer EXCEPT ![p] = consumer[p]]
  BY <1>t, Zenon DEF TypeOK
<1>1. CASE SendHello(p) /\ ~Fails(p)
  BY <1>1, <1>t, <1>s, OutsideOwnership
     DEF SendHello, OwnershipInv, Writing, BeforeFlock, Owning, InLoop, ProcPC, SuccessorPC
<1>2. CASE RecvAck(p) /\ ~Fails(p)
  <2>1. /\ pc[p] = "handshake" /\ pc' = [pc EXCEPT ![p] = "wait_for_begin"]
        /\ UNCHANGED <<flock, consumer, sess>>
    BY <1>2 DEF RecvAck
  <2>2. QED
    BY <2>1, <1>t, <1>s, OutsideOwnership, Zenon
       DEF OwnershipInv, Writing, BeforeFlock, Owning, InLoop, ProcPC, SuccessorPC
<1>3. CASE RecvBegin(p) /\ ~Fails(p)
  <2>1. PICK where \in {"begun", "wait_for_begin"} : pc' = [pc EXCEPT ![p] = where]
    BY <1>3 DEF RecvBegin
  <2>2. pc[p] = "wait_for_begin" /\ UNCHANGED <<flock, consumer, sess>>
    BY <1>3 DEF RecvBegin
  <2>3. where \in ProcPC \ (InLoop \cup {"hello_ack", "recover"}) /\ where \in BeforeFlock
    BY Zenon DEF InLoop, ProcPC, SuccessorPC, BeforeFlock
  <2>4. consumer[p] = "none" /\ flock # p /\ pc[p] \notin InLoop /\ where \notin Owning
    BY <2>2, <1>t, Zenon DEF OwnershipInv, Writing, BeforeFlock, InLoop, Owning
  <2>5. QED
    BY <2>1, <2>2, <2>3, <2>4, <1>d, <1>t, <1>s, OutsideOwnership, Zenon DEF BeforeFlock
<1>4. CASE SupervisorGone(p)
  BY <1>4, <1>f, Zenon DEF SupervisorGone
<1>5. CASE AcquireFlock(p) /\ ~Fails(p)
  BY <1>5, <1>t, OutsideOwnership, Zenon
     DEF AcquireFlock, Acquire, ConsumerState, BeforeFlock, Owning, InLoop, ProcPC, SuccessorPC
<1>6. CASE AnnounceReady(p) /\ ~Fails(p)
  BY <1>6, <1>t, <1>s, OutsideOwnership
     DEF AnnounceReady, OwnershipInv, Writing, BeforeFlock, Owning, InLoop, ProcPC, SuccessorPC
<1>7. CASE BindAfterReady(p) /\ ~FatalIo(p)
  <2>1. /\ pc[p] = "announced" /\ pc' = [pc EXCEPT ![p] = "accept"]
        /\ UNCHANGED <<flock, consumer, sess>>
    BY <1>7, Zenon DEF BindAfterReady
  <2>2. QED
    BY <2>1, <1>t, <1>s, OutsideOwnership, Zenon
       DEF OwnershipInv, Writing, BeforeFlock, Owning, InLoop, ProcPC, ServePC
<1>8. CASE HeartbeatDuringInit(p)
  BY <1>8, OwnershipStutter DEF HeartbeatDuringInit, successorFrame
<1>9. CASE Fault(p)
  BY <1>9, <1>d, ExitOwnership, Zenon DEF Fault, ProcCrash, FatalIo
<1>10. CASE InitFails(p)
  BY <1>10, <1>f, Zenon DEF InitFails
<1>11. QED
  BY <1>f, <1>1, <1>2, <1>3, <1>4, <1>5, <1>6, <1>7, <1>8, <1>9, <1>10, Zenon DEF SuccessorStep

\* No step of the supervisor changes who owns the data dir, except by killing
\* its child.
LEMMA SupervisorOwnership ==
    ASSUME HandoffInv, SupervisorStep
    PROVE  OwnershipStep
<1>1. CASE SpawnSuccessor
  <2>1. CASE UNCHANGED pc
    BY <2>1, <1>1, OwnershipStutter, Zenon DEF SpawnSuccessor
  <2>2. CASE pc' # pc
    <3>1. PICK p \in Proc : pc[p] = "unborn" /\ pc' = [pc EXCEPT ![p] = "spawned"]
      BY <2>2, <1>1, Zenon DEF SpawnSuccessor
    <3>2. /\ TypeOK /\ OwnershipInv(p) /\ (Writing(p) <=> flock = p)
          /\ consumer[p] \in ConsumerState /\ consumer = [consumer EXCEPT ![p] = consumer[p]]
      BY DEF HandoffInv, OwnerIsWriter, TypeOK
    <3>3. QED
      BY <3>1, <3>2, <1>1, OutsideOwnership, Zenon
         DEF SpawnSuccessor, OwnershipInv, Writing, BeforeFlock, Owning, InLoop, ProcPC,
             SuccessorPC
  <2>3. QED
    BY <2>1, <2>2
<1>2. CASE Kill /\ Alive(child)
  <2>1. child \in Proc /\ Exit(child) /\ pc[child] # "dead"
    BY <1>2, SupervisorUses, Zenon DEF Kill, KillAndReap, Alive
  <2>2. QED
    BY <2>1, <1>2, ExitOwnership, Zenon
<1>3. CASE UNCHANGED <<flock, pc, consumer, sess>>
  BY <1>3, OwnershipStutter
<1>4. CASE ~SpawnSuccessor /\ ~(Kill /\ Alive(child))
  <2>1. UNCHANGED <<flock, pc, consumer, sess>>
    BY <1>4, Zenon DEF SupervisorStep, HandoffStep, BootStep, primitivesUnchanged, primitiveVars,
       HelloO, HelloN, JournalSet, JournalNegotiating, JournalDraining, JournalSealing,
       JournalAwaitingReady, JournalResuming, SendToO, PrepareHandoff, SealRequest,
       ResumeAfterAbort, AwaitDrained, DrainedDeadline, RecvSealReply, SealDeadline,
       SealTimeout, SealReadError, Begin, AwaitReady, ReadyDeadline, Commit,
       JournalCommitted, JournalClear, Kill, KillAndReap, Return, ResumeFromJournal, Probe,
       ProbeClear, PerformHandoff, SupervisorCrash, Restart
  <2>2. QED
    BY <2>1, <1>3, Zenon
<1>5. QED
  BY <1>1, <1>2, <1>4, Zenon

\* Every step of an incumbent preserves ownership.  The case that needs
\* SealOnceInv is RecvSealRequest: a sealed session finds no second SealRequest.
LEMMA IncumbentOwnership ==
    ASSUME HandoffInv, NEW p \in Proc,
           ColdStart(p) \/ BindColdStart(p) \/ ServeStep(p) \/ HeartbeatDuringHook(p), ~FatalIo(p)
    PROVE  OwnershipStep
<1> USE DEF At, Consumer, Session
<1>t. TypeOK /\ OwnershipInv(p) /\ (Writing(p) <=> flock = p) /\ consumer[p] \in ConsumerState
  BY Zenon DEF HandoffInv, OwnerIsWriter, TypeOK
<1>s. consumer = [consumer EXCEPT ![p] = consumer[p]] /\ sess = [sess EXCEPT ![p] = sess[p]]
  BY <1>t, Zenon DEF TypeOK
<1>c. pc[p] \in InLoop => sess[p].conn # 0
  BY <1>t, Zenon DEF OwnershipInv
<1>i. pc[p] \in InLoop \cup {"hello_ack"} =>
         /\ sess[p] \in SessionState
         /\ consumer[p] \in ConsumerState \ {"none"}
         /\ consumer[p] = "sealed" <=> sess[p].sealed
         /\ consumer[p] = "drained" => sess[p].drained
         /\ consumer[p] # "sealed" <=> flock = p
  BY InSession
<1>z. 0 \in Id
  BY DEF Id
<1>e. pc[p] \in InLoop \cup {"hello_ack"} /\ SessionError(p) => OwnershipStep
  BY SessionErrorOwnership
<1>x. pc[p] # "dead" /\ Exit(p) => OwnershipStep
  BY ExitOwnership, Zenon
<1>1. CASE ColdStart(p)
  <2>1. pc[p] = "unborn" /\ UNCHANGED sess
    BY <1>1 DEF ColdStart
  <2>2. CASE Acquire(p) /\ pc' = [pc EXCEPT ![p] = "cold_bind"]
             /\ consumer' = [consumer EXCEPT ![p] = "serving"]
    BY <2>1, <2>2, <1>t, OutsideOwnership, Zenon
       DEF Acquire, ConsumerState, BeforeFlock, Owning, InLoop, ProcPC
  <2>3. CASE pc' = [pc EXCEPT ![p] = "dead"] /\ UNCHANGED <<flock, consumer>>
    BY <2>1, <2>3, <1>t, <1>s, OutsideOwnership, Zenon
       DEF OwnershipInv, Writing, BeforeFlock, Owning, InLoop, ProcPC
  <2>4. QED
    BY <2>2, <2>3, <1>1, Zenon DEF ColdStart
<1>2. CASE BindColdStart(p)
  <2>1. /\ pc[p] = "cold_bind" /\ pc' = [pc EXCEPT ![p] = "accept"]
        /\ UNCHANGED <<flock, consumer, sess>>
    BY <1>2, Zenon DEF BindColdStart
  <2>2. QED
    BY <2>1, <1>t, <1>s, OutsideOwnership, Zenon
       DEF OwnershipInv, Writing, BeforeFlock, Owning, InLoop, ProcPC, ServePC
<1>3. CASE Accept(p)
  <2>1. PICK c \in Backlog(p) :
           \/ /\ sess' = [sess EXCEPT ![p] = [NoSession EXCEPT !.conn = c]]
              /\ pc' = [pc EXCEPT ![p] = "hello_ack"]
           \/ UNCHANGED <<sess, pc>>
    BY <1>3 DEF Accept
  <2>2. CASE UNCHANGED <<sess, pc>>
    BY <2>2, <1>3, OwnershipStutter, Zenon DEF Accept
  <2>3. CASE /\ sess' = [sess EXCEPT ![p] = [NoSession EXCEPT !.conn = c]]
             /\ pc' = [pc EXCEPT ![p] = "hello_ack"]
    <3>1. c # 0 /\ UNCHANGED <<flock, consumer>> /\ pc[p] = "accept"
      BY <1>3 DEF Accept, Backlog, Conn
    <3>2. /\ pc'[p] = "hello_ack"
          /\ sess'[p].conn # 0 /\ ~sess'[p].sealed /\ ~sess'[p].drained
          /\ \A q \in Proc \ {p} :
                pc'[q] = pc[q] /\ consumer'[q] = consumer[q] /\ sess'[q] = sess[q]
      BY <2>3, <3>1, <1>t, Zenon DEF TypeOK, NoSession
    <3>3. OwnershipInv(p)'
      BY <3>1, <3>2, <1>t, Zenon DEF OwnershipInv, BeforeFlock, Owning, InLoop
    <3>4. Writing(p)' <=> flock' = p
      BY <3>1, <1>t, Zenon DEF Writing
    <3>5. QED
      BY <3>1, <3>2, <3>3, <3>4, OwnershipFrame, Zenon
  <2>4. QED
    BY <2>1, <2>2, <2>3, Zenon
<1>4. CASE RecvHelloAck(p)
  <2>1. pc[p] = "hello_ack"
    BY <1>4 DEF RecvHelloAck
  <2>2. CASE SessionError(p)
    BY <2>1, <2>2, <1>e
  <2>3. CASE pc' = [pc EXCEPT ![p] = "loop"] /\ UNCHANGED <<flock, consumer, sess>>
    <3>1. sess[p].conn # 0
      BY <2>1, <1>t, Zenon DEF OwnershipInv
    <3>2. QED
      BY <2>1, <2>3, <3>1, LoopMoveOwnership, Zenon DEF InLoop
  <2>4. QED
    BY <2>2, <2>3, <1>4, Zenon DEF RecvHelloAck
<1>5. CASE NoHelloAck(p)
  BY <1>5, <1>e, Zenon DEF NoHelloAck
<1>6. CASE Disconnected(p)
  <2>1. pc[p] \in InLoop \cup {"hello_ack"} /\ sess[p].sealed \in BOOLEAN
    BY <1>6, <1>i, Zenon DEF Disconnected, InLoop, SessionState
  <2>2. QED
    BY <2>1, <1>6, EndSessionOwnership, Zenon DEF Disconnected
<1>7. CASE RecvPrepareHandoff(p)
  <2>1. PICK m \in Message :
           /\ pc[p] = "loop"
           /\ \/ /\ sess' = [sess EXCEPT ![p] = [sess[p] EXCEPT !.active = m.id]]
                 /\ pc' = [pc EXCEPT ![p] = "drain"]
                 /\ UNCHANGED <<flock, consumer>>
              \/ SessionError(p)
    BY <1>7 DEF RecvPrepareHandoff, Receives
  <2> DEFINE s == [sess[p] EXCEPT !.active = m.id]
  <2>2. CASE SessionError(p)
    BY <2>1, <2>2, <1>e DEF InLoop
  <2>3. CASE ~SessionError(p)
    <3>1. s \in SessionState /\ s.conn # 0 /\ s.sealed = sess[p].sealed /\ s.drained = sess[p].drained
      BY <2>1, <1>i, <1>c, Zenon DEF SessionState, InLoop, Message
    <3>2. sess' = [sess EXCEPT ![p] = s]
      BY <2>1, <2>3
    <3>3. consumer' = [consumer EXCEPT ![p] = consumer[p]] /\ UNCHANGED flock
      BY <2>1, <2>3, <1>s
    <3> HIDE DEF s
    <3>4. QED
      BY <2>1, <2>3, <3>1, <3>2, <3>3, <1>i, LoopOwnership, Zenon DEF InLoop
  <2>4. QED
    BY <2>2, <2>3, Zenon
<1>8. CASE DrainOk(p)
  <2> DEFINE s == [sess[p] EXCEPT !.drained = TRUE]
  <2> DEFINE q == IF consumer[p] = "sealed" THEN "sealed" ELSE "drained"
  <2>1. pc[p] = "drain" /\ UNCHANGED flock
    BY <1>8 DEF DrainOk
  <2>2. /\ s \in SessionState /\ s.conn # 0 /\ s.sealed = sess[p].sealed /\ s.drained
        /\ q \in ConsumerState \ {"none"}
        /\ q = "sealed" <=> s.sealed
        /\ q # "sealed" <=> flock' = p
    BY <2>1, <1>i, <1>c, Zenon DEF SessionState, InLoop, ConsumerState
  <2>3. \/ /\ sess' = [sess EXCEPT ![p] = s]
           /\ consumer' = [consumer EXCEPT ![p] = q]
           /\ pc' = [pc EXCEPT ![p] = "loop"]
        \/ LeaveSession(p, s, q, conn[C(p)], TRUE)
    BY <1>8, Zenon DEF DrainOk, EndSession
  <2> HIDE DEF s, q
  <2>4. CASE LeaveSession(p, s, q, conn[C(p)], TRUE)
    BY <2>1, <2>2, <2>4, LeaveSessionOwnership, Zenon DEF InLoop
  <2>5. CASE ~LeaveSession(p, s, q, conn[C(p)], TRUE)
    BY <2>1, <2>2, <2>3, <2>5, LoopOwnership, ZenonT(30) DEF InLoop
  <2>6. QED
    BY <2>4, <2>5, Zenon
<1>9. CASE DrainErr(p)
  <2> DEFINE q == IF consumer[p] = "sealed" THEN "sealed" ELSE "drain_failed"
  <2>1. pc[p] = "drain" /\ UNCHANGED flock /\ LeaveSession(p, sess[p], q, conn[C(p)], TRUE)
    BY <1>9, Zenon DEF DrainErr, EndSession
  <2>2. /\ q \in ConsumerState \ {"none"} /\ q # "drained"
        /\ q = "sealed" <=> sess[p].sealed
        /\ q # "sealed" <=> flock' = p
    BY <2>1, <1>i DEF InLoop, ConsumerState
  <2> HIDE DEF q
  <2>3. QED
    BY <2>1, <2>2, LeaveSessionOwnership, Zenon DEF InLoop
<1>10. CASE RecvSealRequest(p)
  <2>1. PICK m \in Message :
           /\ Receives(p, m) /\ m.type = "SealRequest"
           /\ \/ pc' = [pc EXCEPT ![p] = "seal"] /\ UNCHANGED <<flock, consumer, sess>>
              \/ SessionError(p)
    BY <1>10 DEF RecvSealRequest
  <2>2. pc[p] = "loop"
    BY <2>1 DEF Receives
  <2>3. ~sess[p].sealed
    <3>1. conn[C(p)].req # <<>> /\ Head(conn[C(p)].req).type = "SealRequest"
      BY <2>1, Zenon DEF Receives
    <3>2. conn[C(p)].req \in Seq(Message)
      BY <2>2, SessionConn, Zenon DEF InLoop, ConnState
    <3>3. ~NoSealRequest(conn[C(p)].req)
      BY <3>1, <3>2 DEF NoSealRequest
    <3>4. QED
      BY <3>3, Zenon DEF HandoffInv, SealOnceInv, SealTaken, C
  <2>4. CASE SessionError(p)
    BY <2>2, <2>4, <1>e, Zenon DEF InLoop
  <2>5. CASE ~SessionError(p)
    BY <2>1, <2>2, <2>3, <2>5, <1>c, LoopMoveOwnership, Zenon DEF InLoop
  <2>6. QED
    BY <2>4, <2>5
<1>11. CASE SealOk(p)
  <2> DEFINE s == [sess[p] EXCEPT !.sealed = TRUE]
  <2>1. /\ pc[p] = "seal" /\ pc' = [pc EXCEPT ![p] = "seal_complete"]
        /\ sess' = [sess EXCEPT ![p] = s]
        /\ consumer' = [consumer EXCEPT ![p] = "sealed"]
        /\ flock' = IF flock = p THEN None ELSE flock
    BY <1>11 DEF SealOk
  <2>2. s \in SessionState /\ s.conn # 0 /\ s.sealed
    BY <2>1, <1>i, <1>c, Zenon DEF SessionState, InLoop
  <2> HIDE DEF s
  <2>3. QED
    BY <2>1, <2>2, LoopOwnership, Zenon DEF InLoop, ConsumerState
<1>12. CASE SendSealComplete(p)
  <2>1. pc[p] = "seal_complete"
    BY <1>12, Zenon DEF SendSealComplete
  <2>2. CASE SessionError(p)
    BY <2>1, <2>2, <1>e, Zenon DEF InLoop
  <2>3. CASE pc' = [pc EXCEPT ![p] = "loop"] /\ UNCHANGED <<flock, consumer, sess>>
    BY <2>1, <2>3, <1>c, LoopMoveOwnership, Zenon DEF InLoop
  <2>4. QED
    BY <2>2, <2>3, <1>12, Zenon DEF SendSealComplete
<1>13. CASE SealErr(p)
  <2> DEFINE k == Reply(conn[C(p)], Msg("SealFailed", sess[p].active))
  <2> DEFINE s == [sess[p] EXCEPT !.drained = FALSE, !.active = 0]
  <2>1. pc[p] = "seal" /\ UNCHANGED flock
    BY <1>13, Zenon DEF SealErr
  <2>2. ~sess[p].sealed /\ flock = p
    BY <2>1, <1>t, <1>i, Zenon DEF OwnershipInv, InLoop
  <2>3. CASE EndSession(p, sess[p], consumer[p], TRUE)
    BY <2>1, <2>3, EndSessionOwnership, Zenon DEF InLoop
  <2>4. CASE LeaveSession(p, sess[p], "resume_failed", k, TRUE)
    <3>1. "resume_failed" \in ConsumerState \ {"none"}
      BY DEF ConsumerState
    <3> HIDE DEF k
    <3>2. QED
      BY <2>1, <2>2, <2>4, <3>1, LeaveSessionOwnership, Zenon DEF InLoop
  <2>5. CASE /\ sess' = [sess EXCEPT ![p] = s]
             /\ consumer' = [consumer EXCEPT ![p] = "serving"]
             /\ pc' = [pc EXCEPT ![p] = "loop"]
    <3>1. s \in SessionState /\ s.conn # 0 /\ ~s.sealed
      BY <2>1, <2>2, <1>i, <1>c, <1>z, Zenon DEF SessionState, InLoop
    <3> HIDE DEF s
    <3>2. QED
      BY <2>1, <2>2, <2>5, <3>1, LoopOwnership, Zenon DEF InLoop, ConsumerState
  <2>6. QED
    BY <2>3, <2>4, <2>5, <1>13, Zenon DEF SealErr
<1>14. CASE RecvCommit(p)
  <2>1. pc[p] = "loop" /\ (Exit(p) \/ SessionError(p))
    BY <1>14 DEF RecvCommit, Receives
  <2>2. QED
    BY <2>1, <1>x, <1>e, Zenon DEF InLoop
<1>15. CASE RecvResume(p)
  <2> DEFINE idle == [sess[p] EXCEPT !.active = 0, !.sealed = FALSE, !.drained = FALSE]
  <2>1. /\ pc[p] = "loop"
        /\ \/ SessionError(p)
           \/ /\ sess[p].sealed /\ Acquire(p)
              /\ \/ NextRequest(p, idle, "serving", <<>>)
                 \/ EndSession(p, sess[p], "resume_failed", TRUE)
           \/ /\ ~sess[p].sealed /\ UNCHANGED flock
              /\ \/ NextRequest(p, idle, "serving", <<>>)
                 \/ EndSession(p, sess[p], "resume_failed", TRUE)
                 \/ ~sess[p].drained /\ NextRequest(p, idle, consumer[p], <<>>)
    BY <1>15, Zenon DEF RecvResume, Receives
  <2>2. CASE SessionError(p)
    BY <2>1, <2>2, <1>e, Zenon DEF InLoop
  <2>3. idle \in SessionState /\ idle.conn # 0 /\ ~idle.sealed /\ ~idle.drained
    BY <2>1, <1>i, <1>c, <1>z, Zenon DEF SessionState, InLoop
  <2>4. ~SessionError(p) =>
           flock' = p /\ (flock' = flock \/ {flock, flock'} \subseteq {p, None})
    BY <2>1, <1>i, Zenon DEF Acquire, InLoop
  <2>5. CASE ~SessionError(p) /\ EndSession(p, sess[p], "resume_failed", TRUE)
    <3>1. LeaveSession(p, sess[p], "resume_failed", conn[C(p)], TRUE)
      BY <2>5, Zenon DEF EndSession
    <3>2. "resume_failed" \in ConsumerState \ {"none"}
      BY DEF ConsumerState
    <3>3. QED
      BY <2>1, <2>4, <2>5, <3>1, <3>2, LeaveSessionOwnership, Zenon DEF InLoop
  <2> HIDE DEF idle
  <2>6. ASSUME NEW q \in ConsumerState \ {"none", "sealed", "drained"}, ~SessionError(p),
               NextRequest(p, idle, q, <<>>)
        PROVE  OwnershipStep
    <3>1. /\ pc' = [pc EXCEPT ![p] = "loop"]
          /\ sess' = [sess EXCEPT ![p] = idle]
          /\ consumer' = [consumer EXCEPT ![p] = q]
      BY <2>6, Zenon DEF NextRequest
    <3>2. QED
      BY <2>1, <2>3, <2>4, <2>6, <3>1, LoopOwnership, Zenon DEF InLoop
  <2>7. ~sess[p].sealed /\ ~sess[p].drained =>
           consumer[p] \in ConsumerState \ {"none", "sealed", "drained"}
    BY <2>1, <1>i, Zenon DEF InLoop
  <2>8. "serving" \in ConsumerState \ {"none", "sealed", "drained"}
    BY Zenon DEF ConsumerState
  <2>9. QED
    BY <2>1, <2>2, <2>5, <2>6, <2>7, <2>8, Zenon
<1>16. CASE RecvHeartbeat(p)
  <2>1. /\ pc[p] = "loop"
        /\ \/ SessionError(p)
           \/ NextRequest(p, sess[p], consumer[p], <<Msg("Heartbeat", 0)>>) /\ UNCHANGED flock
    BY <1>16, Zenon DEF RecvHeartbeat, Receives
  <2>2. CASE SessionError(p)
    BY <2>1, <2>2, <1>e, Zenon DEF InLoop
  <2>3. CASE NextRequest(p, sess[p], consumer[p], <<Msg("Heartbeat", 0)>>) /\ UNCHANGED flock
    <3>1. /\ pc' = [pc EXCEPT ![p] = "loop"]
          /\ sess' = [sess EXCEPT ![p] = sess[p]]
          /\ consumer' = [consumer EXCEPT ![p] = consumer[p]]
          /\ UNCHANGED flock
      BY <2>3, Zenon DEF NextRequest
    <3>2. QED
      BY <2>1, <3>1, <1>i, <1>c, LoopOwnership, Zenon DEF InLoop
  <2>4. QED
    BY <2>1, <2>2, <2>3, Zenon
<1>17. CASE RecvUnexpected(p)
  BY <1>17, <1>e, Zenon DEF RecvUnexpected, Receives, InLoop
<1>18. CASE RecoverLock(p)
  <2>1. /\ pc[p] = "recover" /\ pc' = [pc EXCEPT ![p] = "accept"]
        /\ flock = None /\ flock' = p /\ UNCHANGED sess
    BY <1>18, Zenon DEF RecoverLock, Acquire
  <2>2. PICK q \in ResumeOutcome : consumer' = [consumer EXCEPT ![p] = q]
    BY <1>18, Zenon DEF RecoverLock
  <2>3. QED
    BY <2>1, <2>2, OutsideOwnership, Zenon
       DEF ResumeOutcome, ConsumerState, BeforeFlock, Owning, InLoop, ProcPC, ServePC
<1>19. CASE GiveUp(p)
  BY <1>19, <1>x, Zenon DEF GiveUp
<1>20. CASE HeartbeatDuringHook(p)
  BY <1>20, OwnershipStutter, Zenon DEF HeartbeatDuringHook
<1>21. CASE AcceptFails(p)
  BY <1>21, OwnershipStutter, Zenon DEF AcceptFails, vars
<1>22. QED
  BY <1>1, <1>2, <1>3, <1>4, <1>5, <1>6, <1>7, <1>8, <1>9, <1>10, <1>11, <1>12, <1>13, ZenonT(30),
     <1>14, <1>15, <1>16, <1>17, <1>18, <1>19, <1>20, <1>21 DEF ServeStep
-----------------------------------------------------------------------------
\* r has no SealRequest that q does not have.
NoNewSeal(q, r) ==
    /\ NoSealRequest(q) => NoSealRequest(r)
    /\ OneSealRequest(q) => OneSealRequest(r)

\* Appending another frame, and taking a frame, adds no SealRequest; taking the
\* only one leaves none.
LEMMA SealQueue ==
    ASSUME NEW q \in Seq(Message), NEW m \in Message
    PROVE  /\ m.type # "SealRequest" => NoNewSeal(q, Append(q, m))
           /\ NoSealRequest(q) => OneSealRequest(Append(q, m))
           /\ q # <<>> => NoNewSeal(q, Tail(q))
           /\ NoNewSeal(q, <<>>)
           /\ (q # <<>> /\ Head(q).type = "SealRequest" /\ OneSealRequest(q)) =>
                 NoSealRequest(Tail(q))
<1>1. m.type # "SealRequest" => NoNewSeal(q, Append(q, m))
  BY DEF NoNewSeal, NoSealRequest, OneSealRequest
<1>2. NoSealRequest(q) => OneSealRequest(Append(q, m))
  BY DEF NoSealRequest, OneSealRequest
<1>3. ASSUME q # <<>>
      PROVE  /\ NoNewSeal(q, Tail(q))
             /\ Head(q).type = "SealRequest" /\ OneSealRequest(q) => NoSealRequest(Tail(q))
  <2>1. /\ Tail(q) \in Seq(Message) /\ Len(Tail(q)) = Len(q) - 1 /\ Len(q) \in Nat \ {0}
        /\ \A i \in 1..Len(q) - 1 : Tail(q)[i] = q[i + 1]
        /\ Head(q) = q[1]
    BY <1>3
  <2>2. DOMAIN Tail(q) = 1..Len(q) - 1 /\ DOMAIN q = 1..Len(q)
    BY <2>1
  <2>3. \A i \in DOMAIN Tail(q) : i + 1 \in DOMAIN q /\ Tail(q)[i] = q[i + 1] /\ i + 1 # 1
    BY <2>1, <2>2
  <2>4. NoSealRequest(q) => NoSealRequest(Tail(q))
    BY <2>3, Zenon DEF NoSealRequest
  <2>5. OneSealRequest(q) => OneSealRequest(Tail(q))
    BY <2>2, <2>3 DEF OneSealRequest
  <2>6. Head(q).type = "SealRequest" /\ OneSealRequest(q) => NoSealRequest(Tail(q))
    <3>1. 1 \in DOMAIN q
      BY <2>1, <2>2
    <3>2. QED
      BY <2>1, <2>3, <3>1, Zenon DEF OneSealRequest, NoSealRequest
  <2>7. QED
    BY <2>4, <2>5, <2>6, Zenon DEF NoNewSeal
<1>4. NoNewSeal(q, <<>>)
  BY DEF NoNewSeal, NoSealRequest, OneSealRequest
<1>5. QED
  BY <1>1, <1>2, <1>3, <1>4, Zenon

\* What each operation on a connection does to its requests and to O's end.
LEMMA ConnFields ==
    ASSUME NEW k \in ConnState, NEW m \in Message
    PROVE  /\ k.req \in Seq(Message)
           /\ Request(k, m).req = Append(k.req, m) /\ Request(k, m).oOpen = k.oOpen
           /\ Reply(k, m).req = k.req /\ Reply(k, m).oOpen = k.oOpen
           /\ TakeRequest(k).req = Tail(k.req) /\ TakeRequest(k).oOpen = k.oOpen
           /\ TakeReply(k).req = k.req /\ TakeReply(k).oOpen = k.oOpen
           /\ CloseO(k).req = <<>> /\ CloseO(k).oOpen = FALSE
           /\ CloseS(k).req \in {k.req, <<>>} /\ (CloseS(k).oOpen => k.oOpen)
BY Zenon DEF ConnState, Request, Reply, TakeRequest, TakeReply, CloseO, CloseS, NoConn

\* Another frame sent to O adds no SealRequest.
LEMMA OtherRequest ==
    ASSUME NEW k \in ConnState, NEW m \in Message, m.type # "SealRequest"
    PROVE  NoNewSeal(k.req, Request(k, m).req) /\ Request(k, m).oOpen = k.oOpen
<1>1. /\ k.req \in Seq(Message)
      /\ Request(k, m).req = Append(k.req, m) /\ Request(k, m).oOpen = k.oOpen
  BY DEF ConnState, Request
<1>2. QED
  BY <1>1, SealQueue, Zenon

\* What the answer to a request does.
LEMMA AnswerFields ==
    ASSUME NEW k \in ConnState, NEW out
    PROVE  Answer(k, out).req = Tail(k.req) /\ Answer(k, out).oOpen = k.oOpen
BY Zenon DEF ConnState, Answer

\* Nothing about SealRequests is disturbed by a step that adds none, opens no
\* connection and lets no session take one.
LEMMA SealFrame ==
    ASSUME HandoffInv,
           \A c \in Conn :
              /\ NoNewSeal(conn[c].req, conn'[c].req)
              /\ conn'[c].oOpen => conn[c].oOpen,
           \A p \in Proc :
              /\ SealTaken(p)' => SealTaken(p) /\ sess'[p].conn = sess[p].conn
              /\ sess'[p].conn <= hid,
           hid' = hid,
           spc' \in BeforeSealRequest => spc \in BeforeSealRequest
    PROVE  SealOnceInv'
<1>1. TypeOK /\ SealOnceInv /\ SupervisorInv
  BY Zenon DEF HandoffInv
<1>2. \A p \in Proc : SealTaken(p) => sess[p].conn \in Conn
  <2>1. SUFFICES ASSUME NEW p \in Proc, SealTaken(p) PROVE sess[p].conn \in Conn
    BY Zenon
  <2>2. OwnershipInv(p) /\ sess[p] \in SessionState
    BY <1>1, Zenon DEF HandoffInv, TypeOK
  <2>3. sess[p].conn # 0
    BY <2>1, <2>2, Zenon DEF OwnershipInv, SealTaken, InLoop
  <2>4. QED
    BY <2>2, <2>3 DEF SessionState, Id, Conn
<1>3. spc \in BeforeSealRequest => hid \in Conn
  BY <1>1 DEF SupervisorInv, BeforeSealRequest, TypeOK, Id, Conn
<1>4. \A c \in Conn : OneSealRequest(conn'[c].req) /\ (conn'[c].oOpen => c <= hid')
  BY <1>1, Zenon DEF SealOnceInv, NoNewSeal
<1>5. \A p \in Proc :
         /\ sess'[p].conn <= hid'
         /\ SealTaken(p)' => NoSealRequest(conn'[sess'[p].conn].req)
  BY <1>1, <1>2, Zenon DEF SealOnceInv, NoNewSeal
<1>6. spc' \in BeforeSealRequest =>
         /\ NoSealRequest(conn'[hid'].req)
         /\ \A p \in Proc : sess'[p].conn = hid' => ~SealTaken(p)'
  BY <1>1, <1>3, Zenon DEF SealOnceInv, NoNewSeal
<1>7. QED
  BY <1>4, <1>5, <1>6, Zenon DEF SealOnceInv, NoSealRequest, OneSealRequest

\* A change of one connection that adds no SealRequest.
LEMMA OneConn ==
    ASSUME HandoffInv, NEW d \in Conn, NEW k,
           conn' = [conn EXCEPT ![d] = k],
           NoNewSeal(conn[d].req, k.req),
           k.oOpen => conn[d].oOpen
    PROVE  \A c \in Conn :
              /\ NoNewSeal(conn[c].req, conn'[c].req)
              /\ conn'[c].oOpen => conn[c].oOpen
BY Zenon DEF HandoffInv, TypeOK, NoNewSeal

\* The end of a process.
LEMMA ExitSeal ==
    ASSUME HandoffInv, NEW p \in Proc, Exit(p), hid' = hid,
           spc' \in BeforeSealRequest => spc \in BeforeSealRequest
    PROVE  SealOnceInv'
<1>1. TypeOK /\ SealOnceInv /\ 0 <= hid
  BY DEF HandoffInv, TypeOK, Id
<1>h. Msg("Abort", 0) \in Message
  BY MsgType1 DEF MsgType, Id
<1>2. \A c \in Conn : NoNewSeal(conn[c].req, conn'[c].req) /\ (conn'[c].oOpen => conn[c].oOpen)
  <2>1. SUFFICES ASSUME NEW c \in Conn
                 PROVE  NoNewSeal(conn[c].req, conn'[c].req) /\ (conn'[c].oOpen => conn[c].oOpen)
    BY Zenon
  <2>2. conn[c] \in ConnState /\ conn'[c] \in {conn[c], CloseO(conn[c])}
    BY <1>1 DEF Exit, TypeOK
  <2>3. CloseO(conn[c]).req = <<>> /\ CloseO(conn[c]).oOpen = FALSE /\ conn[c].req \in Seq(Message)
    BY <2>2, <1>h, ConnFields, Zenon
  <2>4. QED
    BY <2>2, <2>3, <1>h, SealQueue, Zenon DEF NoNewSeal
<1>3. /\ ~SealTaken(p)' /\ sess'[p].conn = 0
      /\ \A q \in Proc \ {p} : sess'[q] = sess[q] /\ pc'[q] = pc[q]
  BY <1>1, Zenon DEF Exit, TypeOK, SealTaken, NoSession
<1>4. \A q \in Proc : (SealTaken(q)' => SealTaken(q) /\ sess'[q].conn = sess[q].conn)
                      /\ sess'[q].conn <= hid
  BY <1>1, <1>3, Zenon DEF SealTaken, SealOnceInv
<1>5. QED
  BY <1>2, <1>4, SealFrame, Zenon

\* The end of a session.
LEMMA LeaveSessionSeal ==
    ASSUME HandoffInv, NEW p \in Proc, pc[p] \in InLoop \cup {"hello_ack"},
           NEW s, NEW q, NEW k \in ConnState, NEW e, LeaveSession(p, s, q, k, e),
           UNCHANGED <<spc, hid>>
    PROVE  SealOnceInv'
<1>1. TypeOK /\ SealOnceInv /\ 0 <= hid /\ C(p) \in Conn /\ conn[C(p)].req \in Seq(Message)
  <2>1. C(p) \in Conn BY SessionConn, Zenon
  <2>2. TypeOK /\ SealOnceInv /\ hid \in Id /\ conn[C(p)].req \in Seq(Message)
    BY <2>1, InvariantFacts, Zenon
  <2> QED BY <2>1, <2>2 DEF Id
<1>h. Msg("Abort", 0) \in Message
  BY MsgType1 DEF MsgType, Id
<1>2. /\ conn' = [conn EXCEPT ![C(p)] = CloseO(k)]
      /\ CloseO(k).req = <<>> /\ CloseO(k).oOpen = FALSE
  BY <1>h, ConnFields, Zenon DEF LeaveSession
<1>3. NoNewSeal(conn[C(p)].req, CloseO(k).req)
  BY <1>1, <1>2, <1>h, SealQueue, ZenonT(30)
<1>4. \A c \in Conn : NoNewSeal(conn[c].req, conn'[c].req) /\ (conn'[c].oOpen => conn[c].oOpen)
  BY <1>1, <1>2, <1>3, OneConn, Zenon
<1>5. /\ ~SealTaken(p)' /\ sess'[p].conn = 0
      /\ \A r \in Proc \ {p} : sess'[r] = sess[r] /\ pc'[r] = pc[r]
  BY <1>1, Zenon DEF LeaveSession, Session, At, TypeOK, SealTaken, NoSession
<1>6. \A r \in Proc : (SealTaken(r)' => SealTaken(r) /\ sess'[r].conn = sess[r].conn)
                      /\ sess'[r].conn <= hid
  BY <1>1, <1>5, Zenon DEF SealTaken, SealOnceInv
<1>7. QED
  BY <1>4, <1>6, SealFrame, Zenon

\* So an early error return.
LEMMA SessionErrorSeal ==
    ASSUME HandoffInv, NEW p \in Proc, pc[p] \in InLoop \cup {"hello_ack"}, SessionError(p),
           UNCHANGED <<spc, hid>>
    PROVE  SealOnceInv'
<1>1. conn[C(p)] \in ConnState /\ LeaveSession(p, sess[p], consumer[p], conn[C(p)], TRUE)
  BY SessionConn, Zenon DEF SessionError, EndSession
<1>2. QED
  BY <1>1, LeaveSessionSeal, Zenon

\* A step within a session that takes no SealRequest.
LEMMA SessionSeal ==
    ASSUME HandoffInv, NEW p \in Proc, pc[p] \in InLoop \cup {"hello_ack"},
           NEW k, NEW where, NEW s,
           conn' = [conn EXCEPT ![C(p)] = k],
           NoNewSeal(conn[C(p)].req, k.req),
           k.oOpen => conn[C(p)].oOpen,
           pc' = [pc EXCEPT ![p] = where],
           sess' = [sess EXCEPT ![p] = s],
           s.conn = sess[p].conn,
           s.sealed \/ where \in {"seal", "seal_complete"} => SealTaken(p),
           UNCHANGED <<spc, hid>>
    PROVE  SealOnceInv'
<1>1. TypeOK /\ SealOnceInv /\ C(p) \in Conn
  BY SessionConn DEF HandoffInv
<1>2. \A c \in Conn : NoNewSeal(conn[c].req, conn'[c].req) /\ (conn'[c].oOpen => conn[c].oOpen)
  BY <1>1, OneConn, Zenon
<1>3. /\ SealTaken(p)' => SealTaken(p)
      /\ sess'[p].conn = sess[p].conn
      /\ \A r \in Proc \ {p} : sess'[r] = sess[r] /\ pc'[r] = pc[r]
  BY <1>1, Zenon DEF TypeOK, SealTaken
<1>4. \A r \in Proc : (SealTaken(r)' => SealTaken(r) /\ sess'[r].conn = sess[r].conn)
                      /\ sess'[r].conn <= hid
  BY <1>1, <1>3, ZenonT(30) DEF SealTaken, SealOnceInv
<1>5. QED
  BY <1>2, <1>4, SealFrame, Zenon

\* A step of a process outside the session loop that leaves the connections.
LEMMA OutsideSeal ==
    ASSUME HandoffInv, NEW p \in Proc,
           NEW where \in ProcPC \ {"seal", "seal_complete"},
           pc' = [pc EXCEPT ![p] = where],
           UNCHANGED <<conn, sess, hid>>,
           spc' \in BeforeSealRequest => spc \in BeforeSealRequest
    PROVE  SealOnceInv'
<1>1. TypeOK /\ SealOnceInv
  BY Zenon DEF HandoffInv
<1>2. \A c \in Conn : NoNewSeal(conn[c].req, conn'[c].req) /\ (conn'[c].oOpen => conn[c].oOpen)
  BY Zenon DEF NoNewSeal
<1>3. \A r \in Proc : (SealTaken(r)' => SealTaken(r) /\ sess'[r].conn = sess[r].conn)
                      /\ sess'[r].conn <= hid
  BY <1>1, Zenon DEF TypeOK, SealTaken, SealOnceInv
<1>4. QED
  BY <1>2, <1>3, SealFrame, Zenon

\* Every step of an incumbent sends no SealRequest and takes one only once.
LEMMA IncumbentSeal ==
    ASSUME HandoffInv, NEW p \in Proc,
           ColdStart(p) \/ BindColdStart(p) \/ ServeStep(p) \/ HeartbeatDuringHook(p), ~FatalIo(p)
    PROVE  SealOnceInv'
<1> USE DEF At, Session
<1>t. TypeOK /\ SealOnceInv /\ sess = [sess EXCEPT ![p] = sess[p]]
  BY Zenon DEF HandoffInv, TypeOK
<1>u. UNCHANGED <<spc, hid>>
  BY Zenon DEF ColdStart, BindColdStart, ServeStep, HeartbeatDuringHook, Accept, RecvHelloAck,
     NoHelloAck, Disconnected, RecvPrepareHandoff, DrainOk, DrainErr, RecvSealRequest, SealOk,
     SendSealComplete, SealErr, RecvCommit, RecvResume, RecvHeartbeat, RecvUnexpected,
     RecoverLock, GiveUp, AcceptFails, vars, othersUnchanged, supervisorVars
<1>c. pc[p] \in InLoop \cup {"hello_ack"} =>
         /\ C(p) \in Conn /\ conn[C(p)] \in ConnState /\ conn[C(p)].req \in Seq(Message)
         /\ sess[p] \in SessionState
  BY <1>t, SessionConn, Zenon DEF ConnState, TypeOK
<1>z. 0 \in Id /\ \A t \in MsgType, h \in Id : Msg(t, h) \in Message
  BY MsgType1 DEF Id
<1>h. Msg("Drained", 0) \in Message /\ Msg("Heartbeat", 0) \in Message /\ Msg("Hello", 0) \in Message
  BY <1>z DEF MsgType
<1>r. \A k \in ConnState, m \in Message :
         Reply(k, m) \in ConnState /\ Reply(k, m).req = k.req /\ Reply(k, m).oOpen = k.oOpen
  BY ConnFields, ConnQueueType, ZenonT(30)
<1>k. \A k \in ConnState : k.req # <<>> =>
         /\ TakeRequest(k).req = Tail(k.req) /\ TakeRequest(k).oOpen = k.oOpen
         /\ NoNewSeal(k.req, Tail(k.req))
  BY <1>h, ConnFields, SealQueue, Zenon
<1>n. \A q : NoNewSeal(q, q)
  BY DEF NoNewSeal
<1>e. pc[p] \in InLoop \cup {"hello_ack"} /\ SessionError(p) => SealOnceInv'
  BY <1>u, SessionErrorSeal
<1>l. ASSUME NEW s, NEW q, NEW k \in ConnState, NEW e, pc[p] \in InLoop \cup {"hello_ack"},
             LeaveSession(p, s, q, k, e)
      PROVE  SealOnceInv'
  BY <1>l, <1>u, LeaveSessionSeal
<1>1. CASE ColdStart(p)
  <2>1. PICK where \in {"cold_bind", "dead"} : pc' = [pc EXCEPT ![p] = where]
    BY <1>1, Zenon DEF ColdStart
  <2>2. where \in ProcPC \ {"seal", "seal_complete"} /\ UNCHANGED <<conn, sess, hid>>
    BY <1>1, <1>u, Zenon DEF ColdStart, ProcPC
  <2>3. QED
    BY <2>1, <2>2, <1>u, OutsideSeal, Zenon
<1>2. CASE BindColdStart(p)
  BY <1>2, <1>u, OutsideSeal, Zenon DEF BindColdStart, ProcPC, ServePC
<1>3. CASE Accept(p)
  <2>1. PICK c \in Backlog(p) :
           \/ /\ conn' = [conn EXCEPT ![c] = Reply(@, Msg("Hello", 0))]
              /\ sess' = [sess EXCEPT ![p] = [NoSession EXCEPT !.conn = c]]
              /\ pc' = [pc EXCEPT ![p] = "hello_ack"]
           \/ /\ conn' = [conn EXCEPT ![c] = CloseO(@)]
              /\ UNCHANGED <<sess, pc>>
    BY <1>3, Zenon DEF Accept
  <2>2. c \in Conn /\ conn[c] \in ConnState /\ c <= hid /\ conn[c].req \in Seq(Message)
    <3>1. c \in Conn /\ conn[c] \in ConnState /\ c <= hid
      BY <1>t, Zenon DEF Backlog, TypeOK, SealOnceInv
    <3>2. QED
      BY <3>1, Zenon DEF ConnState
  <2>3. /\ NoNewSeal(conn[c].req, CloseO(conn[c]).req) /\ CloseO(conn[c]).oOpen = FALSE
        /\ NoNewSeal(conn[c].req, Reply(conn[c], Msg("Hello", 0)).req)
        /\ Reply(conn[c], Msg("Hello", 0)).oOpen = conn[c].oOpen
    <3>1. CloseO(conn[c]).req = <<>> /\ CloseO(conn[c]).oOpen = FALSE
      BY <2>2, <1>h, ConnFields, Zenon
    <3>2. NoNewSeal(conn[c].req, CloseO(conn[c]).req)
      BY <2>2, <3>1, <1>h, SealQueue, Zenon
    <3>3. QED
      BY <2>2, <3>1, <3>2, <1>h, <1>r, <1>n, Zenon
  <2>4. \A d \in Conn : NoNewSeal(conn[d].req, conn'[d].req) /\ (conn'[d].oOpen => conn[d].oOpen)
    <3>1. PICK k \in {CloseO(conn[c]), Reply(conn[c], Msg("Hello", 0))} :
             conn' = [conn EXCEPT ![c] = k]
      BY <2>1, Zenon
    <3>2. QED
      BY <3>1, <2>2, <2>3, OneConn, Zenon
  <2>5. \A r \in Proc : (SealTaken(r)' => SealTaken(r) /\ sess'[r].conn = sess[r].conn)
                        /\ sess'[r].conn <= hid
    <3>1. CASE UNCHANGED <<sess, pc>>
      BY <3>1, <1>t, Zenon DEF SealTaken, SealOnceInv
    <3>2. CASE sess' = [sess EXCEPT ![p] = [NoSession EXCEPT !.conn = c]]
               /\ pc' = [pc EXCEPT ![p] = "hello_ack"]
      <4>1. /\ ~SealTaken(p)' /\ sess'[p].conn = c
            /\ \A r \in Proc \ {p} : sess'[r] = sess[r] /\ pc'[r] = pc[r]
        BY <3>2, <1>t, Zenon DEF TypeOK, SealTaken, NoSession
      <4>2. QED
        BY <4>1, <2>2, <1>t, ZenonT(30) DEF SealTaken, SealOnceInv
    <3>3. QED
      BY <3>1, <3>2, <2>1, Zenon
  <2>6. QED
    BY <2>4, <2>5, <1>u, SealFrame, Zenon
<1>4. CASE RecvHelloAck(p)
  <2>1. pc[p] = "hello_ack" /\ conn[C(p)].req # <<>>
    BY <1>4, Zenon DEF RecvHelloAck
  <2>2. CASE SessionError(p)
    BY <2>1, <2>2, <1>e, Zenon
  <2>3. CASE ~SessionError(p)
    <3>1. /\ conn' = [conn EXCEPT ![C(p)] = TakeRequest(conn[C(p)])]
          /\ pc' = [pc EXCEPT ![p] = "loop"] /\ sess' = [sess EXCEPT ![p] = sess[p]]
      BY <2>3, <1>4, <1>t DEF RecvHelloAck
    <3>2. QED
      BY <2>1, <3>1, <1>u, <1>c, <1>k, SessionSeal, ZenonT(30) DEF SealTaken
  <2>4. QED
    BY <2>2, <2>3, Zenon
<1>5. CASE NoHelloAck(p)
  BY <1>5, <1>e, Zenon DEF NoHelloAck
<1>6. CASE Disconnected(p)
  <2>1. pc[p] \in InLoop /\ LeaveSession(p, sess[p], consumer[p], conn[C(p)], sess[p].sealed)
    BY <1>6, Zenon DEF Disconnected, EndSession, InLoop
  <2>2. QED
    BY <2>1, <1>c, <1>l, Zenon
<1>7. CASE RecvPrepareHandoff(p)
  <2>1. PICK m \in Message :
           /\ pc[p] = "loop" /\ conn[C(p)].req # <<>>
           /\ \/ /\ sess' = [sess EXCEPT ![p] = [sess[p] EXCEPT !.active = m.id]]
                 /\ conn' = [conn EXCEPT ![C(p)] = TakeRequest(conn[C(p)])]
                 /\ pc' = [pc EXCEPT ![p] = "drain"]
              \/ SessionError(p)
    BY <1>7 DEF RecvPrepareHandoff, Receives
  <2>2. CASE SessionError(p)
    BY <2>1, <2>2, <1>e, Zenon DEF InLoop
  <2>3. CASE ~SessionError(p)
    <3> DEFINE s == [sess[p] EXCEPT !.active = m.id]
    <3>1. s.conn = sess[p].conn /\ s.sealed = sess[p].sealed
      BY <2>1, <1>c, Zenon DEF SessionState, InLoop
    <3>2. sess' = [sess EXCEPT ![p] = s]
      BY <2>1, <2>3, Zenon
    <3>3. /\ pc[p] \in InLoop \cup {"hello_ack"}
          /\ NoNewSeal(conn[C(p)].req, TakeRequest(conn[C(p)]).req)
          /\ TakeRequest(conn[C(p)]).oOpen => conn[C(p)].oOpen
      BY <2>1, <1>c, <1>k, Zenon DEF InLoop
    <3>4. s.sealed \/ "drain" \in {"seal", "seal_complete"} => SealTaken(p)
      BY <3>1, Zenon DEF SealTaken
    <3> HIDE DEF s
    <3>5. QED
      BY <2>1, <2>3, <3>1, <3>2, <3>3, <3>4, <1>u, SessionSeal, Zenon
  <2>4. QED
    BY <2>2, <2>3, Zenon
<1>8. CASE DrainOk(p)
  <2> DEFINE s == [sess[p] EXCEPT !.drained = TRUE]
  <2>1. /\ pc[p] = "drain"
        /\ \/ /\ sess' = [sess EXCEPT ![p] = s]
              /\ conn' = [conn EXCEPT ![C(p)] = Reply(conn[C(p)], Msg("Drained", 0))]
              /\ pc' = [pc EXCEPT ![p] = "loop"]
           \/ \E q : LeaveSession(p, s, q, conn[C(p)], TRUE)
    BY <1>8, Zenon DEF DrainOk, EndSession
  <2>2. s.conn = sess[p].conn /\ s.sealed = sess[p].sealed
    BY <2>1, <1>c, Zenon DEF SessionState, InLoop
  <2> HIDE DEF s
  <2>3. CASE \E q : LeaveSession(p, s, q, conn[C(p)], TRUE)
    BY <2>1, <2>3, <1>c, <1>l, Zenon DEF InLoop
  <2>4. CASE ~ \E q : LeaveSession(p, s, q, conn[C(p)], TRUE)
    <3> DEFINE k == Reply(conn[C(p)], Msg("Drained", 0))
    <3>1. /\ pc[p] \in InLoop \cup {"hello_ack"}
          /\ NoNewSeal(conn[C(p)].req, k.req) /\ (k.oOpen => conn[C(p)].oOpen)
      BY <2>1, <1>c, <1>h, <1>r, <1>n, Zenon DEF InLoop
    <3>2. s.sealed \/ "loop" \in {"seal", "seal_complete"} => SealTaken(p)
      BY <2>2 DEF SealTaken
    <3>3. conn' = [conn EXCEPT ![C(p)] = k]
      BY <2>1, <2>4, Zenon
    <3> HIDE DEF k
    <3>4. QED
      BY <2>1, <2>2, <2>4, <3>1, <3>2, <3>3, <1>u, SessionSeal, Zenon
  <2>5. QED
    BY <2>3, <2>4, Zenon
<1>9. CASE DrainErr(p)
  <2>1. pc[p] \in InLoop /\ \E q : LeaveSession(p, sess[p], q, conn[C(p)], TRUE)
    BY <1>9, Zenon DEF DrainErr, EndSession, InLoop
  <2>2. QED
    BY <2>1, <1>c, <1>l, Zenon
<1>10. CASE RecvSealRequest(p)
  <2>1. PICK m \in Message :
           /\ Receives(p, m) /\ m.type = "SealRequest"
           /\ \/ /\ conn' = [conn EXCEPT ![C(p)] = TakeRequest(conn[C(p)])]
                 /\ pc' = [pc EXCEPT ![p] = "seal"]
                 /\ UNCHANGED sess
              \/ SessionError(p)
    BY <1>10, Zenon DEF RecvSealRequest
  <2>2. pc[p] = "loop" /\ conn[C(p)].req # <<>> /\ Head(conn[C(p)].req).type = "SealRequest"
    BY <2>1, Zenon DEF Receives
  <2>3. CASE SessionError(p)
    BY <2>2, <2>3, <1>e, Zenon DEF InLoop
  <2>4. CASE ~SessionError(p)
    <3>1. /\ C(p) \in Conn /\ conn[C(p)] \in ConnState /\ conn[C(p)].req \in Seq(Message)
          /\ OneSealRequest(conn[C(p)].req)
      BY <2>2, <1>c, <1>t, Zenon DEF InLoop, SealOnceInv
    <3>2. ~NoSealRequest(conn[C(p)].req) /\ NoSealRequest(Tail(conn[C(p)].req))
      BY <2>2, <3>1, <1>h, SealQueue, SMTT(30), Z3T(30) DEF NoSealRequest
    <3>3. spc \in BeforeSealRequest => C(p) # hid
      BY <3>2, <1>t, Zenon DEF SealOnceInv
    <3>4. \A c \in Conn : conn'[c].oOpen => conn[c].oOpen
      BY <2>1, <2>2, <2>4, <3>1, <1>k, <1>t, ZenonT(30) DEF TypeOK
    <3>5. /\ conn'[C(p)].req = Tail(conn[C(p)].req)
          /\ \A c \in Conn \ {C(p)} : conn'[c] = conn[c]
      BY <2>1, <2>2, <2>4, <3>1, <1>k, <1>t, ZenonT(30) DEF TypeOK
    <3>6. \A c \in Conn : NoNewSeal(conn[c].req, conn'[c].req)
      BY <2>2, <3>1, <3>5, <1>k, <1>n, Zenon
    <3>7. UNCHANGED sess /\ \A r \in Proc \ {p} : SealTaken(r)' = SealTaken(r)
      BY <2>1, <2>4, <1>t, Zenon DEF TypeOK, SealTaken
    <3>8. \A r \in Proc : SealTaken(r)' => NoSealRequest(conn'[sess[r].conn].req)
      <4>1. SUFFICES ASSUME NEW r \in Proc \ {p}, SealTaken(r)
                     PROVE  NoSealRequest(conn'[sess[r].conn].req)
        BY <3>2, <3>5, <3>7, Zenon DEF C
      <4>2. sess[r].conn \in Conn
        <5>1. OwnershipInv(r) /\ sess[r] \in SessionState
          BY <1>t, Zenon DEF HandoffInv, TypeOK
        <5>2. QED
          BY <4>1, <5>1 DEF OwnershipInv, SealTaken, InLoop, SessionState, Id, Conn
      <4>3. QED
        BY <4>1, <4>2, <3>6, <1>t, Zenon DEF SealOnceInv, NoNewSeal
    <3>9. spc \in BeforeSealRequest =>
             /\ NoSealRequest(conn'[hid].req)
             /\ \A r \in Proc : sess[r].conn = hid => ~SealTaken(r)'
      <4>1. spc \in BeforeSealRequest => hid \in Conn
        BY <1>t DEF HandoffInv, SupervisorInv, BeforeSealRequest, TypeOK, Id, Conn
      <4>2. QED
        BY <4>1, <3>3, <3>6, <3>7, <1>t, Zenon DEF SealOnceInv, NoNewSeal, C
    <3>10. /\ \A c \in Conn : OneSealRequest(conn'[c].req) /\ (conn'[c].oOpen => c <= hid)
           /\ \A r \in Proc : sess[r].conn <= hid
      BY <3>4, <3>6, <1>t, Zenon DEF SealOnceInv, NoNewSeal
    <3>11. QED
      BY <3>7, <3>8, <3>9, <3>10, <1>u, ZenonT(30) DEF SealOnceInv, NoSealRequest, OneSealRequest
  <2>5. QED
    BY <2>3, <2>4
<1>11. CASE SealOk(p)
  <2> DEFINE s == [sess[p] EXCEPT !.sealed = TRUE]
  <2>1. /\ pc[p] = "seal" /\ pc' = [pc EXCEPT ![p] = "seal_complete"]
        /\ sess' = [sess EXCEPT ![p] = s]
    BY <1>11, Zenon DEF SealOk
  <2>2. s.conn = sess[p].conn /\ conn' = [conn EXCEPT ![C(p)] = conn[C(p)]]
    BY <2>1, <1>c, <1>11, <1>t, ZenonT(30) DEF SessionState, InLoop, SealOk, TypeOK
  <2> HIDE DEF s
  <2>3. QED
    BY <2>1, <2>2, <1>u, <1>c, <1>n, SessionSeal, Zenon DEF SealTaken, InLoop
<1>12. CASE SendSealComplete(p)
  <2>1. pc[p] = "seal_complete"
    BY <1>12 DEF SendSealComplete
  <2>2. CASE SessionError(p)
    BY <2>1, <2>2, <1>e, Zenon DEF InLoop
  <2>3. CASE ~SessionError(p)
    <3> DEFINE m == Msg("SealComplete", sess[p].active)
    <3>1. /\ conn' = [conn EXCEPT ![C(p)] = Reply(conn[C(p)], m)]
          /\ pc' = [pc EXCEPT ![p] = "loop"] /\ sess' = [sess EXCEPT ![p] = sess[p]]
      BY <2>3, <1>12, <1>t, Zenon DEF SendSealComplete
    <3>2. m \in Message
      BY <2>1, <1>c, <1>z, Zenon DEF InLoop, SessionState, MsgType
    <3> HIDE DEF m
    <3>3. QED
      BY <2>1, <3>1, <3>2, <1>u, <1>c, <1>r, <1>n, SessionSeal, Zenon DEF SealTaken, InLoop
  <2>4. QED
    BY <2>2, <2>3
<1>13. CASE SealErr(p)
  <2> DEFINE k == Reply(conn[C(p)], Msg("SealFailed", sess[p].active))
  <2> DEFINE s == [sess[p] EXCEPT !.drained = FALSE, !.active = 0]
  <2>1. /\ pc[p] = "seal"
        /\ \/ /\ sess' = [sess EXCEPT ![p] = s]
              /\ conn' = [conn EXCEPT ![C(p)] = k]
              /\ pc' = [pc EXCEPT ![p] = "loop"]
           \/ \E q : LeaveSession(p, sess[p], q, k, TRUE)
           \/ \E q : LeaveSession(p, sess[p], q, conn[C(p)], TRUE)
    BY <1>13, Zenon DEF SealErr, EndSession
  <2>2. /\ s.conn = sess[p].conn /\ s.sealed = sess[p].sealed
        /\ k \in ConnState /\ k.req = conn[C(p)].req /\ k.oOpen = conn[C(p)].oOpen
    <3>1. Msg("SealFailed", sess[p].active) \in Message
      BY <2>1, <1>c, <1>z, Zenon DEF InLoop, SessionState, MsgType
    <3>2. QED
      BY <2>1, <3>1, <1>c, <1>r, Zenon DEF SessionState, InLoop
  <2> HIDE DEF s, k
  <2>3. CASE \E q : LeaveSession(p, sess[p], q, k, TRUE)
    BY <2>1, <2>2, <2>3, <1>l, Zenon DEF InLoop
  <2>4. CASE \E q : LeaveSession(p, sess[p], q, conn[C(p)], TRUE)
    BY <2>1, <2>4, <1>c, <1>l, Zenon DEF InLoop
  <2>5. CASE /\ sess' = [sess EXCEPT ![p] = s]
             /\ conn' = [conn EXCEPT ![C(p)] = k]
             /\ pc' = [pc EXCEPT ![p] = "loop"]
    BY <2>1, <2>2, <2>5, <1>u, <1>n, SessionSeal, Zenon DEF SealTaken, InLoop
  <2>6. QED
    BY <2>1, <2>3, <2>4, <2>5, Zenon
<1>14. CASE RecvCommit(p)
  <2>1. pc[p] = "loop" /\ (Exit(p) \/ SessionError(p))
    BY <1>14 DEF RecvCommit, Receives
  <2>2. QED
    BY <2>1, <1>e, <1>u, ExitSeal, Zenon DEF InLoop
<1>15. CASE RecvResume(p)
  <2> DEFINE idle == [sess[p] EXCEPT !.active = 0, !.sealed = FALSE, !.drained = FALSE]
  <2>1. /\ pc[p] = "loop" /\ conn[C(p)].req # <<>>
        /\ \/ SessionError(p)
           \/ \E q : NextRequest(p, idle, q, <<>>)
           \/ LeaveSession(p, sess[p], "resume_failed", conn[C(p)], TRUE)
    BY <1>15, Zenon DEF RecvResume, Receives, EndSession
  <2>2. idle.conn = sess[p].conn /\ ~idle.sealed
    BY <2>1, <1>c, Zenon DEF InLoop, SessionState
  <2> HIDE DEF idle
  <2>3. CASE SessionError(p)
    BY <2>1, <2>3, <1>e, Zenon DEF InLoop
  <2>4. CASE LeaveSession(p, sess[p], "resume_failed", conn[C(p)], TRUE)
    BY <2>1, <2>4, <1>c, <1>l, Zenon DEF InLoop
  <2>5. CASE \E q : NextRequest(p, idle, q, <<>>)
    <3> DEFINE k == Answer(conn[C(p)], <<>>)
    <3>1. /\ conn' = [conn EXCEPT ![C(p)] = k]
          /\ pc' = [pc EXCEPT ![p] = "loop"] /\ sess' = [sess EXCEPT ![p] = idle]
      BY <2>5, Zenon DEF NextRequest
    <3>2. k.req = Tail(conn[C(p)].req) /\ k.oOpen = conn[C(p)].oOpen
      BY <2>1, <1>c, AnswerFields, Zenon DEF InLoop
    <3> HIDE DEF k
    <3>3. QED
      BY <2>1, <2>2, <3>1, <3>2, <1>u, <1>c, <1>k, SessionSeal, Zenon DEF SealTaken, InLoop
  <2>6. QED
    BY <2>1, <2>3, <2>4, <2>5, Zenon
<1>16. CASE RecvHeartbeat(p)
  <2>1. /\ pc[p] = "loop" /\ conn[C(p)].req # <<>>
        /\ \/ SessionError(p)
           \/ NextRequest(p, sess[p], consumer[p], <<Msg("Heartbeat", 0)>>)
    BY <1>16, Zenon DEF RecvHeartbeat, Receives
  <2>2. CASE SessionError(p)
    BY <2>1, <2>2, <1>e, Zenon DEF InLoop
  <2>3. CASE NextRequest(p, sess[p], consumer[p], <<Msg("Heartbeat", 0)>>)
    <3> DEFINE k == Answer(conn[C(p)], <<Msg("Heartbeat", 0)>>)
    <3>1. /\ conn' = [conn EXCEPT ![C(p)] = k]
          /\ pc' = [pc EXCEPT ![p] = "loop"] /\ sess' = [sess EXCEPT ![p] = sess[p]]
      BY <2>3, Zenon DEF NextRequest
    <3>2. k.req = Tail(conn[C(p)].req) /\ k.oOpen = conn[C(p)].oOpen
      BY <2>1, <1>c, AnswerFields, Zenon DEF InLoop
    <3> HIDE DEF k
    <3>3. QED
      BY <2>1, <3>1, <3>2, <1>u, <1>c, <1>k, SessionSeal, Zenon DEF SealTaken, InLoop
  <2>4. QED
    BY <2>1, <2>2, <2>3, Zenon
<1>17. CASE RecvUnexpected(p)
  BY <1>17, <1>e, Zenon DEF RecvUnexpected, Receives, InLoop
<1>18. CASE RecoverLock(p)
  BY <1>18, <1>u, OutsideSeal, Zenon DEF RecoverLock, ProcPC, ServePC
<1>19. CASE GiveUp(p)
  BY <1>19, <1>u, ExitSeal, Zenon DEF GiveUp
<1>20. CASE HeartbeatDuringHook(p)
  <2>1. /\ pc[p] \in InLoop /\ pc' = [pc EXCEPT ![p] = pc[p]]
        /\ sess' = [sess EXCEPT ![p] = sess[p]]
        /\ conn' = [conn EXCEPT ![C(p)] = Reply(conn[C(p)], Msg("Heartbeat", 0))]
    BY <1>20, <1>t, Zenon DEF HeartbeatDuringHook, InLoop, TypeOK
  <2>2. QED
    BY <2>1, <1>u, <1>c, <1>h, <1>r, <1>n, SessionSeal, Zenon DEF SealTaken
<1>21. CASE AcceptFails(p)
  BY <1>21, <1>t, Zenon DEF AcceptFails, vars, SealOnceInv, SealTaken
<1>22. QED
  BY <1>1, <1>2, <1>3, <1>4, <1>5, <1>6, <1>7, <1>8, <1>9, <1>10, <1>11, <1>12, <1>13, ZenonT(30),
     <1>14, <1>15, <1>16, <1>17, <1>18, <1>19, <1>20, <1>21 DEF ServeStep

\* A successor touches no connection.
LEMMA SuccessorSeal ==
    ASSUME HandoffInv, NEW p \in Proc,
           SuccessorStep(p) \/ HeartbeatDuringInit(p) \/ Fault(p), ~FatalIo(p) \/ Fault(p)
    PROVE  SealOnceInv'
<1> USE DEF successorFrame, supervisorVars, Step
<1>t. TypeOK /\ pc = [pc EXCEPT ![p] = pc[p]]
  BY Zenon DEF HandoffInv, TypeOK
<1>x. Exit(p) /\ UNCHANGED <<spc, hid>> => SealOnceInv'
  BY ExitSeal, Zenon
<1>o. ASSUME NEW where \in SuccessorPC \cup {"accept"}, pc' = [pc EXCEPT ![p] = where],
             UNCHANGED <<conn, sess, spc, hid>>
      PROVE  SealOnceInv'
  <2>1. where \in ProcPC \ {"seal", "seal_complete"}
    BY Zenon DEF ProcPC, SuccessorPC, ServePC
  <2>2. QED
    BY <1>o, <2>1, OutsideSeal, Zenon
<1>1. CASE SendHello(p)
  BY <1>1, <1>x, <1>o, Zenon DEF SendHello, Fails, SuccessorPC
<1>2. CASE RecvAck(p)
  BY <1>2, <1>x, <1>o, Zenon DEF RecvAck, Fails, SuccessorPC
<1>3. CASE RecvBegin(p)
  <2>1. CASE Fails(p)
    BY <2>1, <1>x, Zenon DEF Fails
  <2>2. CASE ~Fails(p)
    <3>1. PICK where \in {"begun", "wait_for_begin"} : pc' = [pc EXCEPT ![p] = where]
      BY <2>2, <1>3, Zenon DEF RecvBegin
    <3>2. UNCHANGED <<conn, sess, spc, hid>>
      BY <2>2, <1>3, Zenon DEF RecvBegin
    <3>3. QED
      BY <3>1, <3>2, <1>o, Zenon DEF SuccessorPC
  <2>3. QED
    BY <2>1, <2>2, Zenon
<1>4. CASE SupervisorGone(p)
  BY <1>4, <1>x, Zenon DEF SupervisorGone, Fails
<1>5. CASE AcquireFlock(p)
  BY <1>5, <1>x, <1>o, Zenon DEF AcquireFlock, Fails, SuccessorPC
<1>6. CASE AnnounceReady(p)
  BY <1>6, <1>x, <1>o, Zenon DEF AnnounceReady, Fails, SuccessorPC
<1>7. CASE BindAfterReady(p) /\ ~FatalIo(p)
  BY <1>7, <1>o, Zenon DEF BindAfterReady
<1>8. CASE HeartbeatDuringInit(p)
  BY <1>8, <1>t, <1>o, Zenon DEF HeartbeatDuringInit, SuccessorPC
<1>9. CASE Fault(p)
  BY <1>9, <1>x, Zenon DEF Fault, ProcCrash, FatalIo
<1>10. CASE InitFails(p)
  BY <1>10, <1>x, Zenon DEF InitFails, Fails
<1>11. QED
  BY <1>1, <1>2, <1>3, <1>4, <1>5, <1>6, <1>7, <1>8, <1>9, <1>10, ZenonT(30) DEF SuccessorStep
-----------------------------------------------------------------------------
\* A new connection carries no SealRequest and no session has it.
LEMMA ConnectSeal ==
    ASSUME HandoffInv, Connect, UNCHANGED <<pc, sess>>
    PROVE  SealOnceInv'
<1>1. TypeOK /\ SealOnceInv /\ hid \in Nat /\ hid' = hid + 1 /\ hid + 1 \in Conn
  BY DEF HandoffInv, TypeOK, Connect, Id, Conn
<1>2. /\ conn'[hid + 1].req = <<>>
      /\ \A c \in Conn \ {hid + 1} : conn'[c] = conn[c]
  BY <1>1, Zenon DEF Connect, TypeOK, NoConn
<1>3. NoSealRequest(<<>>) /\ OneSealRequest(<<>>)
  BY DEF NoSealRequest, OneSealRequest
<1>4. \A c \in Conn : OneSealRequest(conn'[c].req) /\ (conn'[c].oOpen => c <= hid')
  BY <1>1, <1>2, <1>3 DEF SealOnceInv, Conn
<1>5. \A p \in Proc : SealTaken(p)' = SealTaken(p) /\ sess'[p].conn = sess[p].conn
  BY Zenon DEF SealTaken
<1>6. \A p \in Proc :
         /\ sess[p].conn \in Nat /\ sess[p].conn <= hid
         /\ SealTaken(p) => sess[p].conn \in Conn \ {hid + 1}
  <2>1. SUFFICES ASSUME NEW p \in Proc
                 PROVE  /\ sess[p].conn \in Nat /\ sess[p].conn <= hid
                        /\ SealTaken(p) => sess[p].conn \in Conn \ {hid + 1}
    OBVIOUS
  <2>2. OwnershipInv(p) /\ sess[p] \in SessionState /\ sess[p].conn <= hid
    BY <2>1, InvariantFacts, Zenon DEF SealOnceInv
  <2>3. sess[p].conn \in Id /\ (SealTaken(p) => sess[p].conn # 0)
    BY <2>2, Zenon DEF OwnershipInv, SealTaken, InLoop, SessionState
  <2>4. QED
    BY <2>2, <2>3, <1>1 DEF Id, Conn
<1>7. \A p \in Proc :
         /\ sess'[p].conn <= hid'
         /\ SealTaken(p)' => NoSealRequest(conn'[sess'[p].conn].req)
  BY <1>1, <1>2, <1>5, <1>6 DEF SealOnceInv
<1>8. /\ NoSealRequest(conn'[hid'].req)
      /\ \A p \in Proc : sess'[p].conn = hid' => ~SealTaken(p)'
  BY <1>1, <1>2, <1>3, <1>5, <1>6, Zenon
<1>9. QED
  BY <1>4, <1>7, <1>8, Zenon DEF SealOnceInv, NoSealRequest, OneSealRequest
-----------------------------------------------------------------------------
\* Initially no process exists and S has nothing.
LEMMA InitInv == Init => HandoffInv
<1> SUFFICES ASSUME Init PROVE HandoffInv
  OBVIOUS
<1>1. <<>> \in Seq(Message) /\ 0 \in Id
  BY DEF Id
<1>2. TypeOK
  <2>1. NoConn \in ConnState
    BY <1>1, ZenonT(30) DEF NoConn, ConnState
  <2>2. NoPipe \in PipeState
    BY <1>1, ZenonT(30) DEF NoPipe, PipeState
  <2>3. NoSession \in SessionState
    BY <1>1, ZenonT(30) DEF NoSession, SessionState
  <2>4. NoJournal \in JournalState
    BY <1>1, ZenonT(30) DEF NoJournal, JournalState
  <2>5. faults \in [s: 0..MaxSupCrash, p: 0..MaxProcCrash, io: 0..MaxIoError]
    BY DEF Init
  <2>6. QED
    BY <1>1, <2>1, <2>2, <2>3, <2>4, <2>5, ZenonT(30)
       DEF Init, TypeOK, ProcPC, ConsumerState, SupervisorPC
<1>3. SupervisorInv
  BY Zenon DEF Init, SupervisorInv
<1>4. OwnerIsWriter
  BY Zenon DEF Init, OwnerIsWriter, Writing
<1>5. \A p \in Proc : OwnershipInv(p)
  BY Zenon DEF Init, OwnershipInv, NoSession, BeforeFlock, Owning, InLoop
<1>6. SealOnceInv
  BY DEF Init, SealOnceInv, NoConn, NoSession, OneSealRequest, NoSealRequest, SealTaken,
     BeforeSealRequest
<1>7. QED
  BY <1>2, <1>3, <1>4, <1>5, <1>6, ZenonT(30) DEF HandoffInv

\* A step of S that leaves the primitives and sends O at most another frame.
LEMMA QuietSeal ==
    ASSUME HandoffInv, UNCHANGED <<pc, sess, hid>>, NEW k,
           UNCHANGED conn \/ (hid \in Conn /\ conn' = [conn EXCEPT ![hid] = k]),
           NoNewSeal(conn[hid].req, k.req), k.oOpen => conn[hid].oOpen,
           spc' \in BeforeSealRequest => spc \in BeforeSealRequest
    PROVE  SealOnceInv'
<1>1. \A c \in Conn : NoNewSeal(conn[c].req, conn'[c].req) /\ (conn'[c].oOpen => conn[c].oOpen)
  <2>1. CASE UNCHANGED conn
    BY <2>1, Zenon DEF NoNewSeal
  <2>2. CASE hid \in Conn /\ conn' = [conn EXCEPT ![hid] = k]
    BY <2>2, OneConn, ZenonT(30)
  <2>3. QED
    BY <2>1, <2>2, ZenonT(30)
<1>2. \A r \in Proc : (SealTaken(r)' => SealTaken(r) /\ sess'[r].conn = sess[r].conn)
                      /\ sess'[r].conn <= hid
  BY ZenonT(30) DEF HandoffInv, SealTaken, SealOnceInv
<1>3. QED
  BY <1>1, <1>2, SealFrame, ZenonT(30)

\* A SealRequest is sent where the session has neither taken nor been sent one.
LEMMA FirstSealRequest ==
    ASSUME HandoffInv, UNCHANGED <<pc, sess, hid>>, hid \in Conn, NEW m \in Message, NEW k,
           conn' = [conn EXCEPT ![hid] = k],
           k.req = Append(conn[hid].req, m), k.oOpen = conn[hid].oOpen,
           NoSealRequest(conn[hid].req), \A p \in Proc : sess[p].conn = hid => ~SealTaken(p),
           spc' \notin BeforeSealRequest
    PROVE  SealOnceInv'
<1>1. TypeOK /\ SealOnceInv /\ conn[hid].req \in Seq(Message)
  BY InvariantFacts, Zenon
<1>2. OneSealRequest(Append(conn[hid].req, m))
  BY <1>1, SealQueue, Zenon
<1>3. /\ \A c \in Conn \ {hid} : conn'[c] = conn[c]
      /\ OneSealRequest(conn'[hid].req) /\ conn'[hid].oOpen = conn[hid].oOpen
  BY <1>1, <1>2, Zenon DEF TypeOK
<1>4. \A p \in Proc : SealTaken(p) => sess[p].conn \in Conn \ {hid}
  <2>1. SUFFICES ASSUME NEW p \in Proc, SealTaken(p) PROVE sess[p].conn \in Conn
    OBVIOUS
  <2>2. OwnershipInv(p) /\ sess[p] \in SessionState
    BY <2>1, InvariantFacts, Zenon
  <2>3. QED
    BY <2>1, <2>2 DEF OwnershipInv, SealTaken, InLoop, SessionState, Id, Conn
<1>5. \A c \in Conn : OneSealRequest(conn'[c].req) /\ (conn'[c].oOpen => c <= hid)
  BY <1>1, <1>3, Zenon DEF SealOnceInv
<1>6. \A p \in Proc :
         /\ sess[p].conn <= hid
         /\ SealTaken(p) => NoSealRequest(conn'[sess[p].conn].req)
  BY <1>1, <1>3, <1>4, ZenonT(30) DEF SealOnceInv
<1>7. QED
  BY <1>5, <1>6, ZenonT(30) DEF SealOnceInv, SealTaken, NoSealRequest, OneSealRequest

\* S sends SealRequest from seal_request, where it has not sent it yet.
LEMMA SealRequestSeal ==
    ASSUME HandoffInv, SealRequest
    PROVE  SealOnceInv'
<1> USE DEF SealRequest, SendToO, primitivesUnchanged, primitiveVars, Goto, FailWith
<1> DEFINE m == Msg("SealRequest", hid)
           k == Request(O, m)
<1>1. spc = "seal_request" /\ UNCHANGED <<pc, sess, hid>> /\ spc' \notin BeforeSealRequest
  BY ZenonT(30) DEF BeforeSealRequest
<1>2. hid \in Conn /\ O \in ConnState /\ O = conn[hid] /\ m \in Message
  BY <1>1, SupervisorUses, InvariantFacts, MsgType1, ZenonT(30) DEF O, MsgType
<1>3. TypeOK /\ SealOnceInv
  BY Zenon DEF HandoffInv
<1>4. NoSealRequest(O.req) /\ \A p \in Proc : sess[p].conn = hid => ~SealTaken(p)
  BY <1>1, <1>2, <1>3, ZenonT(30) DEF SealOnceInv, BeforeSealRequest
<1>5. CASE UNCHANGED conn
  BY <1>5, <1>1, <1>3, ZenonT(30) DEF SealOnceInv, SealTaken, NoSealRequest, OneSealRequest
<1>6. CASE conn' = [conn EXCEPT ![hid] = k]
  <2>1. k.req = Append(O.req, m) /\ k.oOpen = O.oOpen
    BY <1>2, ConnFields, ZenonT(30)
  <2> HIDE DEF k, m
  <2>2. QED
    BY <1>1, <1>2, <1>4, <1>6, <2>1, FirstSealRequest, Zenon
<1>7. QED
  BY <1>5, <1>6, ZenonT(30) DEF ToO

\* Every step of the supervisor: SealRequest is sent at one place only.
LEMMA SupervisorSeal ==
    ASSUME HandoffInv, SupervisorStep
    PROVE  SealOnceInv'
<1> USE DEF primitivesUnchanged, primitiveVars, Goto, FailWith, ToO, BeforeSealRequest
<1>t. TypeOK /\ SealOnceInv /\ hid \in Id
  BY Zenon DEF HandoffInv, TypeOK
<1>o. spc \notin {"down", "boot", "probe_clear", "idle"} =>
         hid \in Conn /\ O \in ConnState /\ O = conn[hid]
  BY SupervisorUses, Zenon DEF O
<1>m. \A t \in MsgType : Msg(t, hid) \in Message
  BY <1>t, MsgType1, ZenonT(30)
<1>h. Msg("Abort", hid) \in Message
  BY <1>m, Zenon DEF MsgType
<1>n. \A q : NoNewSeal(q, q)
  BY Zenon DEF NoNewSeal
<1>q. \A k \in ConnState :
         /\ NoNewSeal(k.req, TakeReply(k).req) /\ TakeReply(k).oOpen = k.oOpen
         /\ NoNewSeal(k.req, CloseS(k).req) /\ (CloseS(k).oOpen => k.oOpen)
  <2>1. SUFFICES ASSUME NEW k \in ConnState
                 PROVE  /\ NoNewSeal(k.req, TakeReply(k).req) /\ TakeReply(k).oOpen = k.oOpen
                        /\ NoNewSeal(k.req, CloseS(k).req) /\ (CloseS(k).oOpen => k.oOpen)
    BY Zenon
  <2>2. /\ k.req \in Seq(Message)
        /\ TakeReply(k).req = k.req /\ TakeReply(k).oOpen = k.oOpen
        /\ CloseS(k).req \in {k.req, <<>>} /\ (CloseS(k).oOpen => k.oOpen)
    BY <1>h, ConnFields, Zenon
  <2>3. NoNewSeal(k.req, <<>>)
    BY <2>2, <1>h, SealQueue, ZenonT(30)
  <2>4. QED
    BY <2>2, <2>3, <1>n, ZenonT(30)
<1>r. \A k \in ConnState, t \in MsgType \ {"SealRequest"} :
         NoNewSeal(k.req, Request(k, Msg(t, hid)).req) /\ Request(k, Msg(t, hid)).oOpen = k.oOpen
  <2>1. SUFFICES ASSUME NEW k \in ConnState, NEW t \in MsgType \ {"SealRequest"}
                 PROVE  /\ NoNewSeal(k.req, Request(k, Msg(t, hid)).req)
                        /\ Request(k, Msg(t, hid)).oOpen = k.oOpen
    BY Zenon
  <2>2. Msg(t, hid) \in Message
    BY <1>m, ZenonT(30)
  <2>3. Msg(t, hid).type # "SealRequest"
    BY Zenon DEF Msg
  <2>4. QED
    BY <2>2, <2>3, OtherRequest, ZenonT(30)
<1>k. ASSUME UNCHANGED <<pc, sess, hid, conn>>,
             spc' \in BeforeSealRequest => spc \in BeforeSealRequest
      PROVE  SealOnceInv'
  BY <1>k, <1>n, QuietSeal, ZenonT(30)
<1>a. ASSUME NEW k, UNCHANGED <<pc, sess, hid>>, hid \in Conn, conn' = [conn EXCEPT ![hid] = k],
             NoNewSeal(conn[hid].req, k.req), k.oOpen => conn[hid].oOpen,
             spc' \in BeforeSealRequest => spc \in BeforeSealRequest
      PROVE  SealOnceInv'
  BY <1>a, QuietSeal, Zenon
<1>js. ASSUME NEW at, NEW f, NEW next, JournalSet(at, f, next),
              next \in BeforeSealRequest => at \in BeforeSealRequest
       PROVE  SealOnceInv'
  BY <1>js, <1>k, ZenonT(30) DEF JournalSet
<1>so. ASSUME NEW at \in {"prepare", "resume"}, NEW type \in MsgType \ {"SealRequest"},
              NEW next, SendToO(at, type, next),
              next \in BeforeSealRequest => at \in BeforeSealRequest
       PROVE  SealOnceInv'
  <2>1. hid \in Conn /\ O \in ConnState /\ O = conn[hid]
    BY <1>so, <1>o, ZenonT(30) DEF SendToO
  <2>2. /\ NoNewSeal(O.req, Request(O, Msg(type, hid)).req)
        /\ Request(O, Msg(type, hid)).oOpen = O.oOpen
    BY <2>1, <1>so, <1>r, ZenonT(30)
  <2>3. CASE UNCHANGED conn
    BY <2>3, <1>so, <1>k, ZenonT(30) DEF SendToO
  <2>4. CASE conn' = [conn EXCEPT ![hid] = Request(O, Msg(type, hid))]
    BY <2>1, <2>2, <2>4, <1>so, <1>a, Zenon DEF SendToO
  <2>5. QED
    BY <2>3, <2>4, <1>so, ZenonT(30) DEF SendToO
<1>1. CASE ResumeFromJournal
  BY <1>1, <1>k, ConnectSeal, ZenonT(30) DEF ResumeFromJournal
<1>2. CASE Probe
  <2>1. hid \in Conn /\ conn[hid] \in ConnState /\ conn' = [conn EXCEPT ![hid] = CloseS(conn[hid])]
    BY <1>2, <1>o, ZenonT(30) DEF Probe
  <2>2. QED
    BY <2>1, <1>2, <1>q, <1>a, Zenon DEF Probe
<1>3. CASE ProbeClear
  BY <1>3, <1>k, ZenonT(30) DEF ProbeClear
<1>4. CASE PerformHandoff
  BY <1>4, <1>k, ConnectSeal, ZenonT(30) DEF PerformHandoff
<1>5. CASE HelloO
  <2>1. hid \in Conn /\ O \in ConnState /\ O = conn[hid]
    BY <1>5, <1>o, ZenonT(30) DEF HelloO
  <2>2. CASE UNCHANGED conn
    BY <2>2, <1>5, <1>k, ZenonT(30) DEF HelloO
  <2>3. CASE conn' = [conn EXCEPT ![hid] = Request(TakeReply(O), Msg("HelloAck", hid))]
             /\ O.rsp # <<>>
    <3> DEFINE k == Request(TakeReply(O), Msg("HelloAck", hid))
    <3>1. TakeReply(O) \in ConnState
      BY <2>1, <2>3, <1>h, ConnQueueType, ZenonT(30)
    <3>2. /\ NoNewSeal(TakeReply(O).req, k.req)
          /\ k.oOpen = TakeReply(O).oOpen
      BY <3>1, <1>r, ZenonT(30) DEF MsgType
    <3>3. NoNewSeal(O.req, k.req) /\ (k.oOpen => O.oOpen)
      BY <3>2, <2>1, <1>q, ZenonT(30) DEF NoNewSeal
    <3>4. UNCHANGED <<pc, sess, hid>> /\ spc \in BeforeSealRequest
      BY <1>5, ZenonT(30) DEF HelloO
    <3> HIDE DEF k
    <3>5. QED
      BY <3>3, <3>4, <2>1, <2>3, <1>a, Zenon DEF k
  <2>4. QED
    BY <2>2, <2>3, <1>5, ZenonT(30) DEF HelloO
<1>6. CASE SpawnSuccessor
  <2>1. CASE UNCHANGED pc
    BY <2>1, <1>6, <1>k, ZenonT(30) DEF SpawnSuccessor
  <2>2. CASE pc' # pc
    <3>1. PICK p \in Proc : pc' = [pc EXCEPT ![p] = "spawned"]
      BY <2>2, <1>6, ZenonT(30) DEF SpawnSuccessor
    <3>2. "spawned" \in ProcPC \ {"seal", "seal_complete"}
      BY Zenon DEF ProcPC, SuccessorPC
    <3>3. QED
      BY <3>1, <3>2, <1>6, OutsideSeal, Zenon DEF SpawnSuccessor
  <2>3. QED
    BY <2>1, <2>2, ZenonT(30)
<1>7. CASE HelloN
  BY <1>7, <1>k, ZenonT(30) DEF HelloN
<1>8. CASE JournalNegotiating \/ JournalDraining \/ JournalSealing \/ JournalAwaitingReady
           \/ JournalResuming
  BY <1>8, <1>js, ZenonT(30) DEF JournalNegotiating, JournalDraining, JournalSealing,
     JournalAwaitingReady, JournalResuming
<1>9. CASE PrepareHandoff \/ ResumeAfterAbort
  BY <1>9, <1>so, ZenonT(30) DEF PrepareHandoff, ResumeAfterAbort, MsgType
<1>10. CASE SealRequest
  BY <1>10, SealRequestSeal, ZenonT(30)
<1>11. CASE AwaitDrained \/ DrainedDeadline \/ RecvSealReply \/ SealDeadline
  <2>1. hid \in Conn /\ conn[hid] \in ConnState /\ O = conn[hid]
    BY <1>11, <1>o, ZenonT(30) DEF AwaitDrained, DrainedDeadline, RecvSealReply, SealDeadline
  <2>2. CASE UNCHANGED conn
    BY <2>2, <1>11, <1>k, ZenonT(30) DEF AwaitDrained, DrainedDeadline, RecvSealReply, SealDeadline,
       AbortSealPhase
  <2>3. CASE conn' = [conn EXCEPT ![hid] = TakeReply(conn[hid])]
    <3>1. /\ UNCHANGED <<pc, sess, hid>>
          /\ spc' \in BeforeSealRequest => spc \in BeforeSealRequest
      BY <1>11, ZenonT(30) DEF AwaitDrained, DrainedDeadline, RecvSealReply, SealDeadline, AbortSealPhase
    <3>2. QED
      BY <3>1, <2>1, <2>3, <1>q, <1>a, Zenon
  <2>4. QED
    BY <2>1, <2>2, <2>3, <1>11, ZenonT(30) DEF AwaitDrained, DrainedDeadline, RecvSealReply, SealDeadline
<1>12. CASE SealTimeout \/ SealReadError \/ Begin \/ AwaitReady \/ ReadyDeadline
            \/ JournalCommitted \/ JournalClear \/ Restart
  BY <1>12, <1>k, ZenonT(30) DEF SealTimeout, SealReadError, Begin, AwaitReady, ReadyDeadline,
     JournalCommitted, JournalClear, Restart, AbortSealPhase, AbortReadyPhase
<1>13. CASE Commit
  <2>1. hid \in Conn /\ O \in ConnState /\ O = conn[hid]
    BY <1>13, <1>o, ZenonT(30) DEF Commit
  <2>2. PICK k \in {O, Request(O, Msg("Commit", hid))} : conn' = [conn EXCEPT ![hid] = k]
    BY <1>13, Zenon DEF Commit
  <2>3. NoNewSeal(O.req, k.req) /\ (k.oOpen => O.oOpen)
    BY <2>1, <2>2, <1>n, <1>r DEF MsgType
  <2>4. QED
    BY <2>1, <2>2, <2>3, <1>13, <1>a, Zenon DEF Commit
<1>14. CASE Kill
  <2>1. CASE Exit(child)
    BY <2>1, <1>14, SupervisorUses, ExitSeal, Zenon DEF Kill
  <2>2. CASE UNCHANGED <<flock, pc, consumer, sess, conn, pipe>>
    BY <2>2, <1>14, <1>k, ZenonT(30) DEF Kill
  <2>3. QED
    BY <2>1, <2>2, <1>14, Zenon DEF Kill, KillAndReap
<1>15. CASE Return
  <2>1. hid \in Conn /\ conn[hid] \in ConnState /\ conn' = [conn EXCEPT ![hid] = CloseS(conn[hid])]
    BY <1>15, <1>o, Zenon DEF Return
  <2>2. QED
    BY <2>1, <1>15, <1>q, <1>a, Zenon DEF Return
<1>16. CASE SupervisorCrash
  <2>1. \A c \in Conn : conn[c] \in ConnState /\ conn'[c] = CloseS(conn[c])
    BY <1>16, <1>t, ZenonT(30) DEF SupervisorCrash, TypeOK
  <2>2. \A c \in Conn : NoNewSeal(conn[c].req, conn'[c].req) /\ (conn'[c].oOpen => conn[c].oOpen)
    BY <2>1, <1>q
  <2>3. \A r \in Proc : (SealTaken(r)' => SealTaken(r) /\ sess'[r].conn = sess[r].conn)
                        /\ sess'[r].conn <= hid
    BY <1>16, <1>t, Zenon DEF SupervisorCrash, SealTaken, SealOnceInv
  <2>4. QED
    BY <2>2, <2>3, <1>16, SealFrame, ZenonT(30) DEF SupervisorCrash
<1>17. QED
  BY <1>1, <1>2, <1>3, <1>4, <1>5, <1>6, <1>7, <1>8, <1>9, <1>10, <1>11, <1>12, <1>13, Zenon,
     <1>14, <1>15, <1>16 DEF SupervisorStep, HandoffStep, BootStep

\* S never loses its connection or its child between the calls that use them.
LEMMA SupervisorInvStep ==
    ASSUME HandoffInv, Next
    PROVE  SupervisorInv'
<1>t. SupervisorInv /\ hid \in Nat /\ child \in Proc \cup {None}
  BY DEF HandoffInv, TypeOK, Id
<1> USE DEF Goto, FailWith, SupervisorInv
<1>1. CASE UNCHANGED <<spc, hid, child>>
  BY <1>1, <1>t, Zenon
<1>2. ASSUME NEW p \in Proc, PrimitiveStep(p) PROVE UNCHANGED <<spc, hid, child>>
  BY <1>2, Zenon DEF PrimitiveStep, ColdStart, BindColdStart, ServeStep, HeartbeatDuringHook, Accept,
     RecvHelloAck, NoHelloAck, Disconnected, RecvPrepareHandoff, DrainOk, DrainErr,
     RecvSealRequest, SealOk, SendSealComplete, SealErr, RecvCommit, RecvResume, RecvHeartbeat,
     RecvUnexpected, RecoverLock, GiveUp, AcceptFails, vars, SuccessorStep, HeartbeatDuringInit, ProcCrash,
     FatalIo, SendHello, RecvAck, RecvBegin, SupervisorGone, AcquireFlock, InitFails, AnnounceReady,
     BindAfterReady, Fails, successorFrame, othersUnchanged, supervisorVars
<1>3. CASE ResumeFromJournal \/ PerformHandoff
  BY <1>3, <1>t DEF ResumeFromJournal, PerformHandoff, Connect
<1>4. CASE Probe \/ ProbeClear \/ Restart \/ SupervisorCrash \/ Return
  BY <1>4, <1>t, Zenon DEF Probe, ProbeClear, Restart, SupervisorCrash, Return
<1>5. CASE HelloO \/ HelloN \/ SpawnSuccessor
  BY <1>5, <1>t, Zenon DEF HelloO, HelloN, SpawnSuccessor
<1>6. CASE \/ JournalNegotiating \/ JournalDraining \/ JournalSealing
           \/ JournalAwaitingReady \/ JournalResuming
  BY <1>6, <1>t, Zenon DEF JournalNegotiating, JournalDraining, JournalSealing,
     JournalAwaitingReady, JournalResuming, JournalSet
<1>7. CASE PrepareHandoff \/ SealRequest \/ ResumeAfterAbort
  BY <1>7, <1>t, Zenon DEF PrepareHandoff, SealRequest, ResumeAfterAbort, SendToO
<1>8. CASE AwaitDrained \/ DrainedDeadline
  BY <1>8, <1>t, ZenonT(30) DEF AwaitDrained, DrainedDeadline
<1>9. CASE RecvSealReply \/ SealDeadline \/ SealTimeout \/ SealReadError
  BY <1>9, <1>t, ZenonT(30) DEF RecvSealReply, SealDeadline, SealTimeout, SealReadError, AbortSealPhase
<1>10. CASE Begin \/ AwaitReady \/ ReadyDeadline
  BY <1>10, <1>t, ZenonT(30) DEF Begin, AwaitReady, ReadyDeadline, AbortReadyPhase
<1>11. CASE Commit \/ JournalCommitted \/ JournalClear \/ Kill
  BY <1>11, <1>t, ZenonT(30) DEF Commit, JournalCommitted, JournalClear, Kill
<1>12. QED
  BY <1>1, <1>2, <1>3, <1>4, <1>5, <1>6, <1>7, <1>8, <1>9, <1>10, <1>11, ZenonT(30)
     DEF Next, SupervisorStep, HandoffStep, BootStep

\* HandoffInv is inductive, and a step from it is a step of SingleWriter.
LEMMA InvStep ==
    ASSUME HandoffInv, [Next]_vars
    PROVE  HandoffInv' /\ AbstractStep
<1>1. CASE UNCHANGED vars
  <2>1. HandoffInv'
    BY <1>1 DEF vars, HandoffInv, TypeOK, SupervisorInv, OwnerIsWriter, Writing, OwnershipInv,
       SealOnceInv, SealTaken, NoSealRequest, OneSealRequest
  <2>2. AbstractStep
    BY <1>1, OwnershipStutter, ZenonT(30) DEF vars, OwnershipStep
  <2>3. QED
    BY <2>1, <2>2, ZenonT(30)
<1>2. CASE Next
  <2>1. TypeOK' /\ OwnershipStep /\ SealOnceInv'
    <3>1. CASE SupervisorStep
      BY <3>1, SupervisorType, SupervisorOwnership, SupervisorSeal, ZenonT(30)
    <3>2. ASSUME NEW p \in Proc, PrimitiveStep(p) PROVE TypeOK' /\ OwnershipStep /\ SealOnceInv'
      <4>1. CASE /\ ~FatalIo(p)
                 /\ ColdStart(p) \/ BindColdStart(p) \/ ServeStep(p) \/ HeartbeatDuringHook(p)
        BY <4>1, IncumbentType, IncumbentOwnership, IncumbentSeal, ZenonT(30)
      <4>2. CASE /\ ~FatalIo(p) \/ Fault(p)
                 /\ SuccessorStep(p) \/ HeartbeatDuringInit(p) \/ Fault(p)
        BY <4>2, SuccessorType, SuccessorOwnership, SuccessorSeal, ZenonT(30)
      <4>3. QED
        BY <3>2, <4>1, <4>2, FaultSplit, ZenonT(30) DEF HandoffInv
    <3>3. QED
      BY <1>2, <3>1, <3>2, ZenonT(30) DEF Next
  <2>2. SupervisorInv'
    BY <1>2, SupervisorInvStep, ZenonT(30)
  <2>3. QED
    BY <2>1, <2>2, ZenonT(30) DEF HandoffInv, OwnershipStep, Ownership
<1>3. QED
  BY <1>1, <1>2, ZenonT(30)
=============================================================================
