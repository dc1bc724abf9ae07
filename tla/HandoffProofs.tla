--------------------------- MODULE HandoffProofs ----------------------------
(***************************************************************************)
(* The theorems about Handoff, for every set of processes and every bound  *)
(* on connections and faults; and, last, those about an incumbent whose    *)
(* control peer is not S but anybody (AnyPeer).                            *)
(***************************************************************************)
EXTENDS HandoffOwnerProofs, HandoffSurvivalProofs, HandoffDialogueProofs, AnyPeer

USE NoneAssumption, BoundAssumption
-----------------------------------------------------------------------------
\* HandoffInv holds in every reachable state: where each primitive is in its
\* code fixes what it owns, and S seals an incumbent at most once per session.
THEOREM Invariance == Spec => []HandoffInv
<1>1. Init => HandoffInv
  BY InitInv, Zenon
<1>2. HandoffInv /\ [Next]_vars => HandoffInv'
  BY InvStep, Zenon
<1>3. QED
  BY <1>1, <1>2, PTL DEF Spec

\* Every variable keeps its type: the reads and writes of the three roles stay
\* within the connections and processes that exist.
THEOREM TypeCorrect == Spec => []TypeOK
<1>1. HandoffInv => TypeOK
  BY ZenonT(30) DEF HandoffInv
<1>2. QED
  BY <1>1, Invariance, PTL

\* The data dir has at most one writer and it is the holder of the flock, in
\* every interleaving of S, O and N and with any number of crashes and failures.
THEOREM OneWriter == Spec => []OwnerIsWriter
<1>1. HandoffInv => OwnerIsWriter
  BY Zenon DEF HandoffInv
<1>2. QED
  BY <1>1, Invariance, PTL

\* A process in accept is a writer, so it holds the flock.
LEMMA AcceptingOwns == HandoffInv => AcceptingIsResumed
<1>1. SUFFICES ASSUME HandoffInv, NEW p \in Proc, pc[p] = "accept"
               PROVE  flock = p /\ consumer[p] \in {"serving", "resume_failed", "drain_failed"}
  BY Zenon DEF AcceptingIsResumed
<1>2. OwnershipInv(p) /\ (Writing(p) <=> flock = p)
  BY <1>1, ZenonT(30) DEF HandoffInv, OwnerIsWriter
<1>3. QED
  BY <1>1, <1>2, ZenonT(30) DEF OwnershipInv, Owning, Writing

\* An incumbent that is back in accept owns its data dir and was told to resume.
THEOREM AcceptingResumed == Spec => []AcceptingIsResumed
  BY AcceptingOwns, Invariance, PTL

\* The protocol implements SingleWriter: the data dir passes from a writer to
\* the next only through a seal, or an end, that frees the flock.
THEOREM Implements == Spec => ImplementsSingleWriter
<1>1. Init => Abstract!Init
  BY Zenon DEF Init, Abstract!Init, Status
<1>2. HandoffInv /\ [Next]_vars => [Abstract!Next]_<<flock, [p \in Proc |-> Status(p)]>>
  BY InvStep, Zenon DEF AbstractStep
<1>3. QED
  BY <1>1, <1>2, Invariance, PTL DEF Spec, ImplementsSingleWriter, Abstract!Spec
-----------------------------------------------------------------------------
\* HandoffInv and ChildInv hold in every reachable state.
THEOREM ChildInvariance == Spec => [](HandoffInv /\ ChildInv)
<1>1. Init => HandoffInv /\ ChildInv
  BY InitInv, InitChild, ZenonT(30)
<1>2. HandoffInv /\ ChildInv /\ [Next]_vars => (HandoffInv /\ ChildInv)'
  BY InvStep, ChildStep, ZenonT(30)
<1>3. QED
  BY <1>1, <1>2, PTL DEF Spec

\* On every path on which perform_handoff does not commit, the ChildGuard has killed the
\* successor before the supervisor resumes the incumbent or returns.
THEOREM NoStray == Spec => []NoStraySuccessor
<1>1. HandoffInv /\ ChildInv => NoStraySuccessor
  BY ZenonT(30) DEF ChildInv, GuardInv
<1>2. QED
  BY <1>1, ChildInvariance, PTL

\* When the supervisor tells the incumbent that the handoff committed, the successor
\* holds the data dir or is dead.
THEOREM CommittedOwns == Spec => []CommittedSuccessorOwns
<1>1. HandoffInv /\ ChildInv => CommittedSuccessorOwns
  <2>1. SUFFICES ASSUME HandoffInv, ChildInv,
                        spc = "commit" \/ (result = "committed" /\ spc # "idle")
                 PROVE  flock = child \/ pc[child] = "dead"
    BY ZenonT(30) DEF CommittedSuccessorOwns
  <2>2. child \in Proc /\ pc[child] \in Announced
    BY <2>1, ZenonT(30) DEF HandoffInv, TypeOK, ChildInv, ReadyInv
  <2>3. OwnershipInv(child) /\ (Writing(child) <=> flock = child)
    BY <2>1, <2>2, ZenonT(30) DEF HandoffInv, OwnerIsWriter
  <2>4. QED
    BY <2>2, <2>3, ZenonT(30) DEF OwnershipInv, Owning, Announced, Writing
<1>2. QED
  BY <1>1, ChildInvariance, PTL

\* Nobody has a session, and S is in no handoff.
LEMMA InitSealed == Init => SealedInv
BY DEF Init, SealedInv, SessionInv, HeldInv, NoSession, InHandoff, BeforeSealRequest, Driving

\* The incumbent of a handoff waits, sealed, from its answer until it is told the outcome.
THEOREM SealedInvariance == Spec => [](HandoffInv /\ ChildInv /\ SealedInv)
<1>1. HandoffInv /\ ChildInv /\ SealedInv /\ [Next]_vars => SealedInv'
  BY SealedStep, Zenon
<1>2. QED
  BY <1>1, InitSealed, ChildInvariance, PTL DEF Spec

\* From SealComplete until the supervisor knows the outcome, the incumbent of its handoff
\* is sealed or gone: run_session_loop has nothing to read that could resume it.
THEOREM SealedDriven == Spec => []SealedWhileDriven
<1>1. HandoffInv /\ SealedInv => SealedWhileDriven
  <2>1. SUFFICES ASSUME HandoffInv, SealedInv, spc \in Driving
                 PROVE  consumer[conn[hid].o] \in {"sealed", "none"}
    BY Zenon DEF SealedWhileDriven
  <2>2. conn[hid].o \in Proc /\ Held
    BY <2>1, ZenonT(30) DEF SealedInv, HeldInv, Driving, InHandoff
  <2>3. OwnershipInv(conn[hid].o) BY <2>1, <2>2, ZenonT(30) DEF HandoffInv
  <2> QED BY <2>2, <2>3, ZenonT(30) DEF Held, OwnershipInv, BeforeFlock, InLoop
<1>2. QED
  BY <1>1, SealedInvariance, PTL
-----------------------------------------------------------------------------
\* Before the first process starts there is neither a message nor a successor.
LEMMA InitSurvival == Init => SurvivalInv
<1>1. SUFFICES ASSUME Init PROVE CommitInv /\ StageInv /\ path = None
  BY ZenonT(30) DEF SurvivalInv
<1>2. CommitInv BY <1>1 DEF Init, CommitInv, NoConn, Has, InHandoff
<1>3. StageInv
  BY <1>1, Zenon DEF Init, StageInv, Unannounced, Unwinding, Driving
<1> QED BY <1>1, <1>2, <1>3 DEF Init

\* Without a crash or a fatal I/O error, a Commit is read only by a sealed incumbent, and
\* a successor is killed only while the incumbent waits: perform_handoff never loses both.
THEOREM SurvivalInvariance == Spec => [](HandoffInv /\ ChildInv /\ SealedInv /\ SurvivalInv)
<1>1. HandoffInv /\ ChildInv /\ SealedInv /\ SurvivalInv /\ [Next]_vars => SurvivalInv'
  BY SurvivalStep, ZenonT(30)
<1>2. QED
  BY <1>1, InitSurvival, SealedInvariance, PTL DEF Spec

\* An incumbent survives every handoff, whatever write, hook, journal update, timeout,
\* acquire of N or acquire in O's own resume fails on the way, until a crash or an I/O error
\* ends a process that owns the data dir or is to take it back: the abort paths of
\* perform_handoff leave O, the commit path leaves N.
THEOREM Survived == Spec => []IncumbentSurvives
<1>1. SurvivalInv => IncumbentSurvives
  BY Zenon DEF SurvivalInv, NoFault, IncumbentSurvives, SomeIncumbent, Lasting, Serving, Incumbency
<1>2. QED
  BY <1>1, SurvivalInvariance, PTL

\* Without a crash or a fatal I/O error, resume_after_abort_with_lock gives up only to
\* another incumbent: when the lock outlasts RESUME_FLOCK_TIMEOUT, another process serves or
\* has announced Ready.
THEOREM GaveUp == Spec => GivesUpToIncumbent
<1> DEFINE Kept == \A p \in Proc :
              (NoFault /\ GiveUp(p)) =>
                 \E q \in Proc \ {p} : pc[q] \in ServePC \cup {"cold_bind", "announced"}
<1>1. HandoffInv /\ ChildInv /\ SealedInv /\ SurvivalInv => Kept
  <2>1. SUFFICES ASSUME HandoffInv, ChildInv, SealedInv, SurvivalInv, NoFault,
                        NEW p \in Proc, GiveUp(p)
                 PROVE  \E q \in Proc \ {p} : pc[q] \in ServePC \cup {"cold_bind", "announced"}
    BY ZenonT(30) DEF NoFault
  <2>2. Sound BY <2>1, ZenonT(30) DEF Sound, SurvivalInv
  <2>3. pc[p] = "recover" /\ flock # None BY <2>1, ZenonT(30) DEF GiveUp, LockHeld
  <2>4. PICK q \in Proc \ {p} : Lasting(q) BY <2>2, <2>3, GivenUp, ZenonT(30)
  <2> QED BY <2>4, ZenonT(30) DEF Lasting, Serving
<1>2. HandoffInv /\ ChildInv /\ SealedInv /\ SurvivalInv => [Kept]_vars
  BY <1>1, ZenonT(30)
<1>3. QED
  BY <1>2, SurvivalInvariance, PTL DEF GivesUpToIncumbent
-----------------------------------------------------------------------------
\* In every reachable state the queues between S and O hold one of the few words that
\* perform_handoff and run_session_loop, where they are, can have left in them.
THEOREM DialogueInvariance == Spec => [](HandoffInv /\ SealedInv /\ DialogueInv)
<1>1. HandoffInv /\ ChildInv /\ SealedInv /\ DialogueInv /\ [Next]_vars => DialogueInv'
  BY DialogueStep, Zenon
<1>2. QED
  BY <1>1, InitDialogue, SealedInvariance, PTL DEF Spec

\* The same of the socketpair of S and N: what N can have to read, with which id, and what S
\* can have to read from N, by where perform_handoff and the successor are.
THEOREM PairInvariance == Spec => [](HandoffInv /\ ChildInv /\ PairInv)
<1>1. HandoffInv /\ ChildInv /\ PairInv /\ [Next]_vars => PairInv'
  BY PairStep, Zenon
<1>2. QED
  BY <1>1, InitDialogue, ChildInvariance, PTL DEF Spec

\* No role takes the unexpected-message branch of one of its reads: whoever crashes, times
\* out or aborts, and whatever an earlier handoff left behind, perform_handoff, serve and
\* the successor find the frames, with the handoff id, that they accept there.
THEOREM FramesExpected == Spec => []NoUnexpectedFrame
<1>1. HandoffInv /\ DialogueInv /\ PairInv => NoUnexpectedFrame
  BY FramesFit, Zenon
<1>2. QED
  BY <1>1, DialogueInvariance, PairInvariance, PTL

\* run_session_loop and wait_for_begin, which have no timeout, never wait for a supervisor
\* that is not in the handoff whose stream they read: it has closed the others.
THEOREM NobodyForgotten == Spec => []NoOrphanedWait
<1>1. HandoffInv /\ SealedInv /\ DialogueInv /\ PairInv => NoOrphanedWait
  BY WaitsMet, Zenon
<1>2. QED
  BY <1>1, DialogueInvariance, PairInvariance, PTL
-----------------------------------------------------------------------------
\* There is no supervisor in AnyPeer, so what HandoffInv and SealedInv say of it is void.
PeerInv == HandoffInv /\ SealedInv /\ spc = "boot"

\* What the peer does: it takes nothing from a process, and asks for a seal only where
\* the session was not asked before.
LEMMA PeerKeeps ==
    ASSUME ~SealsAgain, PeerInv, PeerConnect \/ PeerSend \/ PeerClose
    PROVE  PeerInv'
<1>t. /\ HandoffInv /\ SealedInv /\ spc = "boot" /\ TypeOK
      /\ conn \in [Conn -> ConnState] /\ hid \in Id /\ (hid > 0 => hid \in Conn)
  BY DEF PeerInv, HandoffInv, TypeOK, Id, Conn
<1>u. /\ UNCHANGED <<flock, path, pc, consumer, sess, pipe, spc, child, result, journal, faults>>
      /\ spc' = "boot" /\ spc' \notin BeforeSealRequest
  BY <1>t, Zenon DEF PeerConnect, PeerSend, PeerClose, PeerUnchanged, primitiveVars, BeforeSealRequest
<1>1. ASSUME hid' \in Id, conn' \in [Conn -> ConnState], SealOnceInv', SealedInv' PROVE PeerInv'
  <2>1. TypeOK' BY <1>1, <1>t, <1>u, ZenonT(30) DEF TypeOK
  <2>2. Ownership' BY <1>t, <1>u, OwnershipStutter, ZenonT(30) DEF OwnershipStep
  <2>3. SupervisorInv' BY <1>u, ZenonT(30) DEF SupervisorInv
  <2> QED BY <1>1, <1>u, <2>1, <2>2, <2>3, Zenon DEF PeerInv, HandoffInv, Ownership
<1>2. CASE PeerConnect
  <2>1. Connect /\ Connectable BY <1>2, ZenonT(30) DEF PeerConnect
  <2>2. ~InHandoff BY <1>t, ZenonT(30) DEF InHandoff
  <2> QED BY <1>1, <1>t, <1>u, <2>1, <2>2, ConnectType, ConnectSeal, ConnectSealed, ZenonT(30)
<1>3. ASSUME hid \in Conn, UNCHANGED hid, NEW k \in ConnState, conn' = [conn EXCEPT ![hid] = k],
             conn[hid].oOpen => k.o = conn[hid].o /\ k.oOpen, SealOnceInv'
      PROVE  PeerInv'
  <2>1. conn' \in [Conn -> ConnState] BY <1>t, <1>3, ZenonT(30)
  <2>2. \A c \in Conn : conn[c].oOpen => conn'[c].o = conn[c].o /\ conn'[c].oOpen
    BY <1>t, <1>3, ZenonT(30)
  <2>3. SealedInv' BY <1>t, <1>u, <2>2, OutsideSealed, ZenonT(30)
  <2> QED BY <1>1, <1>3, <1>t, <2>1, <2>3, ZenonT(30)
<1>4. CASE PeerSend
  <2>1. PICK m \in Frames :
          /\ ~(m.type = "SealRequest" /\ Sealing)
          /\ conn' = [conn EXCEPT ![hid] = [Request(conn[hid], m) EXCEPT !.rsp = <<>>]]
    BY <1>4, Zenon DEF PeerSend
  <2>2. hid \in Conn /\ UNCHANGED hid /\ m \in Message /\ conn[hid] \in ConnState
    BY <1>4, <1>t, ZenonT(30) DEF PeerSend, Frames
  <2> DEFINE k == [Request(conn[hid], m) EXCEPT !.rsp = <<>>]
  <2>3. /\ k \in ConnState /\ k.o = conn[hid].o /\ k.oOpen = conn[hid].oOpen
        /\ k.req = Append(conn[hid].req, m) /\ conn[hid].req \in Seq(Message)
    <3> DEFINE r == Request(conn[hid], m)
    <3>1. r \in ConnState BY <2>2, ConnQueueType, ZenonT(30)
    <3>2. r.o = conn[hid].o /\ r.oOpen = conn[hid].oOpen /\ r.req = Append(conn[hid].req, m)
      BY <2>2, ZenonT(30) DEF Request, ConnState
    <3> HIDE DEF r
    <3>3. <<>> \in Seq(Message) OBVIOUS
    <3>4. [r EXCEPT !.rsp = <<>>] \in ConnState BY <3>1, <3>3, ZenonT(30) DEF ConnState
    <3>5. /\ [r EXCEPT !.rsp = <<>>].o = r.o /\ [r EXCEPT !.rsp = <<>>].oOpen = r.oOpen
          /\ [r EXCEPT !.rsp = <<>>].req = r.req
      BY <3>1, ZenonT(30) DEF ConnState
    <3>6. k = [r EXCEPT !.rsp = <<>>] BY Zenon DEF r
    <3> QED BY <2>2, <3>2, <3>4, <3>5, <3>6, ZenonT(30) DEF ConnState
  <2>4. conn' = [conn EXCEPT ![hid] = k] BY <2>1, ZenonT(30)
  <2> HIDE DEF k
  <2>5. CASE m.type = "SealRequest"
    <3>1. NoSealRequest(conn[hid].req) BY <2>1, <2>5, ZenonT(30) DEF Sealing, NoSealRequest
    <3>2. \A p \in Proc : sess[p].conn = hid => ~SealTaken(p)
      BY <1>t, <2>1, <2>5, ZenonT(30) DEF Sealing, SealTaken, SealedInv, SessionInv
    <3>3. SealOnceInv' BY <1>t, <1>u, <2>2, <2>3, <2>4, <3>1, <3>2, FirstSealRequest, ZenonT(30)
    <3> QED BY <1>3, <2>2, <2>3, <2>4, <3>3, ZenonT(30)
  <2>6. CASE m.type # "SealRequest"
    <3>1. NoNewSeal(conn[hid].req, k.req) BY <2>2, <2>3, <2>6, SealQueue, ZenonT(30)
    <3>2. SealOnceInv' BY <1>t, <1>u, <2>2, <2>3, <2>4, <3>1, QuietSeal, ZenonT(30)
    <3> QED BY <1>3, <2>2, <2>3, <2>4, <3>2, ZenonT(30)
  <2> QED BY <2>5, <2>6, ZenonT(30)
<1>5. CASE PeerClose
  <2> DEFINE k == CloseS(conn[hid])
  <2>1. hid \in Conn /\ UNCHANGED hid /\ conn' = [conn EXCEPT ![hid] = k] /\ conn[hid] \in ConnState
    BY <1>5, <1>t, ZenonT(30) DEF PeerClose
  <2>2. k \in ConnState BY <2>1, ConnCloseType, ZenonT(30)
  <2>3. conn[hid].oOpen => k.o = conn[hid].o /\ k.oOpen BY <2>1, ZenonT(30) DEF CloseS, ConnState
  <2>4. /\ k.oOpen => conn[hid].oOpen
        /\ k.req \in {conn[hid].req, <<>>} /\ conn[hid].req \in Seq(Message)
    BY <2>1, Zenon DEF CloseS, NoConn, ConnState
  <2>5. NoNewSeal(conn[hid].req, k.req)
    <3>1. Msg("Hello", 0) \in Message BY MsgType1 DEF MsgType, Id
    <3>2. NoNewSeal(conn[hid].req, <<>>) BY <2>4, <3>1, SealQueue, ZenonT(30)
    <3>3. NoNewSeal(conn[hid].req, conn[hid].req) BY Zenon DEF NoNewSeal
    <3> QED BY <2>4, <3>2, <3>3, ZenonT(30)
  <2> HIDE DEF k
  <2>6. SealOnceInv' BY <1>t, <1>u, <2>1, <2>4, <2>5, QuietSeal, ZenonT(30)
  <2> QED BY <1>3, <2>1, <2>2, <2>3, <2>6, Zenon
<1> QED BY <1>2, <1>4, <1>5, ZenonT(30)

\* A process's own steps keep PeerInv whoever its peer is.
LEMMA PeerStep ==
    ASSUME ~SealsAgain, PeerInv, [PeerNext]_vars
    PROVE  PeerInv'
<1>t. HandoffInv /\ SealedInv /\ spc = "boot" BY ZenonT(30) DEF PeerInv
<1>1. CASE UNCHANGED vars
  <2>1. [Next]_vars BY <1>1, ZenonT(30)
  <2>2. HandoffInv' BY <1>t, <2>1, InvStep, ZenonT(30)
  <2>3. SealedInv'
    BY <1>1, <1>t, ZenonT(30) DEF vars, SealedInv, SessionInv, HeldInv, Held, InHandoff, SealTaken,
       SealAnswered, SealRequestLast
  <2> QED BY <1>1, <1>t, <2>2, <2>3, ZenonT(30) DEF PeerInv, vars
<1>2. ASSUME NEW p \in Proc,
             \/ ColdStart(p) \/ BindColdStart(p) \/ ProcCrash(p)
             \/ ServeStep(p) \/ HeartbeatDuringHook(p)
      PROVE  PeerInv'
  <2>1. PrimitiveStep(p) /\ Next BY <1>2, Zenon DEF PrimitiveStep, Next
  <2> QED BY <1>t, <2>1, InvStep, PrimitiveSealed, PrimitiveFrame, ZenonT(30) DEF PeerInv
<1> QED BY <1>1, <1>2, PeerKeeps, ZenonT(30) DEF PeerNext

\* Whatever order of frames a control peer sends, with whatever handoff ids, short of a
\* second SealRequest to a sealed session, HandoffInv holds of the incumbents.
THEOREM PeerInvariance ==
    ASSUME ~SealsAgain
    PROVE  PeerSpec => []PeerInv
<1>1. Init => PeerInv
  BY InitInv, InitSealed, ZenonT(30) DEF Init, PeerInv
<1>2. PeerInv /\ [PeerNext]_vars => PeerInv'
  BY PeerStep, ZenonT(30)
<1>3. QED
  BY <1>1, <1>2, PTL DEF PeerSpec

\* The data dir has at most one writer, the holder of the flock, whatever the control
\* peer of an incumbent sends and wherever it disconnects.
THEOREM PeerOneWriter ==
    ASSUME ~SealsAgain
    PROVE  PeerSpec => []OwnerIsWriter
<1>1. PeerInv => OwnerIsWriter
  BY Zenon DEF PeerInv, HandoffInv
<1>2. QED
  BY <1>1, PeerInvariance, PTL

\* Nor does any such peer take an incumbent out of SingleWriter: the data dir passes to
\* another process only through a seal that frees the flock, or an end.
THEOREM PeerImplements ==
    ASSUME ~SealsAgain
    PROVE  PeerSpec => ImplementsSingleWriter
<1>1. Init => Abstract!Init
  BY Zenon DEF Init, Abstract!Init, Status
<1>2. ASSUME PeerInv, [PeerNext]_vars PROVE AbstractStep
  <2>t. HandoffInv BY <1>2, Zenon DEF PeerInv
  <2>1. CASE PeerConnect \/ PeerSend \/ PeerClose
    <3>1. UNCHANGED <<flock, pc, consumer, sess>>
      BY <2>1, Zenon DEF PeerConnect, PeerSend, PeerClose, PeerUnchanged, primitiveVars
    <3> QED BY <2>t, <3>1, OwnershipStutter, ZenonT(30) DEF OwnershipStep
  <2>2. CASE ~(PeerConnect \/ PeerSend \/ PeerClose)
    <3>1. [Next]_vars BY <1>2, <2>2, Zenon DEF PeerNext, Next, PrimitiveStep
    <3> QED BY <2>t, <3>1, InvStep, ZenonT(30)
  <2> QED BY <2>1, <2>2, ZenonT(30)
<1>3. PeerInv /\ [PeerNext]_vars => [Abstract!Next]_<<flock, [p \in Proc |-> Status(p)]>>
  BY <1>2, ZenonT(30) DEF AbstractStep
<1>4. QED
  BY <1>1, <1>3, PeerInvariance, PTL DEF PeerSpec, ImplementsSingleWriter, Abstract!Spec

\* However a session with such a peer ends, the incumbent back in accept owns the data dir
\* and has resumed its consumer.
THEOREM PeerAcceptingResumed ==
    ASSUME ~SealsAgain
    PROVE  PeerSpec => []AcceptingIsResumed
<1>1. PeerInv => AcceptingIsResumed
  BY AcceptingOwns, Zenon DEF PeerInv
<1>2. QED
  BY <1>1, PeerInvariance, PTL

\* Unless it crashes, a serving process exits only on the Commit of the handoff it sealed
\* for, because another process took the flock it had released, or on an I/O error of
\* accept or of the acquire that takes the flock back: no other frame of such a peer, and
\* no disconnect, ends serve.
THEOREM PeerExits ==
    ASSUME ~SealsAgain
    PROVE  PeerSpec => ExitOnlyIfReplacedOrCommitted
<1> DEFINE Exits == \A p \in Proc :
              (pc[p] \in ServePC /\ pc'[p] = "dead" /\ faults'.p = faults.p) =>
                 \/ /\ consumer[p] = "sealed"
                    /\ \/ pc[p] = "recover" /\ flock # None
                       \/ sess[p].sealed /\ Head(conn[C(p)].req) = Msg("Commit", sess[p].active)
                 \/ pc[p] \in {"accept", "recover"} /\ faults'.io > faults.io
<1>1. ASSUME PeerInv, PeerNext PROVE Exits
  <2>1. SUFFICES ASSUME NEW p \in Proc, pc[p] \in ServePC, pc'[p] = "dead", faults'.p = faults.p
                 PROVE  \/ /\ consumer[p] = "sealed"
                           /\ \/ pc[p] = "recover" /\ flock # None
                              \/ /\ sess[p].sealed
                                 /\ Head(conn[C(p)].req) = Msg("Commit", sess[p].active)
                        \/ pc[p] \in {"accept", "recover"} /\ faults'.io > faults.io
    BY Zenon
  <2>t. HandoffInv /\ SealedInv /\ TypeOK /\ OwnershipInv(p)
        /\ faults \in [s: 0..MaxSupCrash, p: 0..MaxProcCrash, io: 0..MaxIoError]
    BY <1>1, ZenonT(30) DEF PeerInv, HandoffInv, TypeOK
  <2>2. pc[p] # "dead" BY <2>1, Zenon DEF ServePC
  <2>3. ~(PeerConnect \/ PeerSend \/ PeerClose)
    BY <2>1, <2>2, ZenonT(30) DEF PeerConnect, PeerSend, PeerClose, PeerUnchanged, primitiveVars
  <2>4. PICK q \in Proc : \/ ColdStart(q) \/ BindColdStart(q) \/ ProcCrash(q)
                          \/ ServeStep(q) \/ HeartbeatDuringHook(q)
    BY <1>1, <2>3, ZenonT(30) DEF PeerNext
  <2>5. PrimitiveStep(q) BY <2>4, ZenonT(30) DEF PrimitiveStep
  <2>6. q = p
    <3>1. (AcceptFails(q) /\ ~FatalIo(q)) \/ Obeys(q)
      BY <2>5, <2>t, FaultSplit, IncumbentObeys, StartingObeys, ZenonT(30)
    <3>2. ~(AcceptFails(q) /\ ~FatalIo(q)) BY <2>1, <2>2, ZenonT(30) DEF AcceptFails, vars
    <3> QED BY <2>1, <2>2, <3>1, <3>2, ZenonT(30) DEF Obeys
  <2>7. ~ProcCrash(p) BY <2>1, <2>t, SMTT(30), Z3T(30) DEF ProcCrash
  <2>8. CASE FatalIo(p)
    <3>1. faults'.io > faults.io /\ faults' # faults BY <2>8, <2>t, SMTT(30), Z3T(30) DEF FatalIo
    <3>2. pc[p] \in {"accept", "recover"}
      <4>1. ServeStep(p) \/ HeartbeatDuringHook(p)
        BY <2>1, <2>4, <2>6, <2>7, ZenonT(30) DEF ColdStart, BindColdStart, ServePC
      <4> QED BY <3>1, <4>1, Zenon DEF ServeStep, HeartbeatDuringHook, Accept, RecvHelloAck, NoHelloAck,
         Disconnected, RecvPrepareHandoff, DrainOk, DrainErr, RecvSealRequest, SealOk, SendSealComplete,
         SealErr, RecvCommit, RecvResume, RecvHeartbeat, RecvUnexpected, RecoverLock, GiveUp, AcceptFails,
         othersUnchanged
    <3> QED BY <3>1, <3>2, ZenonT(30)
  <2>9. CASE ~FatalIo(p)
    <3>1. pc[p] \notin Unannounced /\ pc[p] # "unborn" /\ pc'[p] \notin Serving
      BY <2>1, Zenon DEF Unannounced, Serving, ServePC
    <3>2. GiveUp(p) \/ ToldToExit(p)
      BY <2>5, <2>6, <2>7, <2>9, <2>t, <3>1, Departs, ZenonT(30) DEF Fault
    <3>3. CASE GiveUp(p) BY <3>3, <2>t, Zenon DEF GiveUp, LockHeld, OwnershipInv
    <3>4. CASE ToldToExit(p) BY <3>4, <2>t, ZenonT(30) DEF ToldToExit, OwnershipInv, InLoop
    <3> QED BY <3>2, <3>3, <3>4, ZenonT(30)
  <2> QED BY <2>8, <2>9, ZenonT(30)
<1>2. PeerInv /\ [PeerNext]_vars => [Exits]_vars
  BY <1>1, Zenon
<1>3. QED
  BY <1>2, PeerInvariance, PTL DEF PeerSpec, ExitOnlyIfReplacedOrCommitted
=============================================================================
