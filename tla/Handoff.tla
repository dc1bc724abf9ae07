------------------------------ MODULE Handoff -------------------------------
(***************************************************************************)
(* The handoff protocol: supervisor, incumbents and successors composed    *)
(* over the kernel state of HandoffState, with crashes of each role.       *)
(***************************************************************************)
EXTENDS Incumbent, Successor, Supervisor

\* A crash point or SIGKILL in S: its sockets close, N is not killed.
SupervisorCrash ==
    /\ spc # "down"
    /\ faults.s < MaxSupCrash
    /\ faults' = [faults EXCEPT !.s = @ + 1]
    /\ spc' = "down"
    /\ conn' = [c \in Conn |-> CloseS(conn[c])]
    /\ pipe' = [p \in Proc |-> ClosePipeS(pipe[p])]
    /\ child' = None
    /\ result' = "none"
    /\ UNCHANGED <<primitiveVars, hid, journal>>

PrimitiveStep(p) ==
    \/ ColdStart(p) \/ BindColdStart(p)
    \/ ServeStep(p) \/ HeartbeatDuringHook(p)
    \/ SuccessorStep(p) \/ HeartbeatDuringInit(p)
    \/ ProcCrash(p)

SupervisorStep == HandoffStep \/ BootStep \/ PerformHandoff \/ SupervisorCrash \/ Restart

Next == SupervisorStep \/ \E p \in Proc : PrimitiveStep(p)

Spec == Init /\ [][Next]_vars

\* perform_handoff keeps running, and the wall-clock cap of each wait passes:
\* heartbeats cannot put it off for ever.
SupervisorFairness ==
    /\ WF_vars(HandoffStep)
    /\ SF_vars(DrainedDeadline) /\ SF_vars(SealDeadline) /\ SF_vars(ReadyDeadline)

\* Every live primitive keeps running: serve is a loop on its own thread, a
\* Drainable hook returns, and timeouts fire.  It need not ever meet a fault.
PrimitiveFairness ==
    \A p \in Proc :
       /\ WF_vars(ServeStep(p) /\ UNCHANGED faults)
       /\ WF_vars(SuccessorStep(p) /\ UNCHANGED faults)
       /\ WF_vars(BindColdStart(p) /\ UNCHANGED faults)

-----------------------------------------------------------------------------
\* What p is to the data dir.
Status(p) ==
    CASE pc[p] = "dead" -> "gone"
      [] pc[p] # "dead" /\ consumer[p] = "none" -> "fresh"
      [] pc[p] # "dead" /\ consumer[p] = "sealed" -> "sealed"
      [] OTHER -> "writing"

Abstract == INSTANCE SingleWriter WITH owner <- flock, status <- [p \in Proc |-> Status(p)]

\* The protocol implements SingleWriter: the flock goes from O to N, and back
\* after an abort, only through a sealed or ended process and a free lock.
ImplementsSingleWriter == Abstract!Spec

\* From SealComplete until the outcome is known, the incumbent of this handoff
\* is sealed or gone: S tells N to begin, and commits, only over a closed
\* writer, and O does not take its data dir back while S still drives N.
Driving == {"sealing", "begin", "awaiting_ready", "ready", "commit", "kill_resume", "resume"}
SealedWhileDriven == spc \in Driving => consumer[conn[hid].o] \in {"sealed", "none"}

\* Once Ready was received and the ChildGuard disarmed, the successor owns the
\* data dir unless it died: O is committed away only in favour of an owner.
CommittedSuccessorOwns ==
    (spc = "commit" \/ (result = "committed" /\ spc # "idle")) =>
       (flock = child \/ pc[child] = "dead")

\* The ChildGuard leaves no stray successor: a perform_handoff that did not
\* commit has killed the N it spawned before it lets go of O, on every error
\* path, so nothing can contend with O for the flock.
NoStraySuccessor ==
    (spc \in {"resume", "resuming", "clear", "return", "idle"} /\ result \in {"aborted", "error"})
       => (child = None \/ pc[child] = "dead")

\* Somebody is, or is on the way to being, the incumbent.
Incumbency(p) == pc[p] \in ServePC \cup {"cold_bind", "locked", "announced"}
SomeIncumbent == path # None => \E p \in Proc : Incumbency(p)

\* Nobody has crashed, and no owner was ended by an I/O error (FatalIo).
NoFault == faults = [s |-> 0, p |-> 0, io |-> 0]

\* Without such a fault an incumbent survives every handoff, whatever write, hook,
\* spawn, journal, deadline, acquire of N or acquire in ResumeAfterAbort fails in it
\* and whoever cold-starts meanwhile.  It takes an I/O error of the one who has the
\* data dir, or takes it back, to lose everybody: of the bind after Ready or of a
\* cold start, of accept, or of the acquire in the recovery of serve.
IncumbentSurvives == NoFault => SomeIncumbent

\* An incumbent in recovery gives up only to another incumbent: while nothing
\* fails, a lock that outlasts RESUME_FLOCK_TIMEOUT means that another
\* process serves or has announced Ready, never just that a successor is
\* still starting.
GivesUpToIncumbent ==
    [][\A p \in Proc :
          (NoFault /\ GiveUp(p)) =>
             \E q \in Proc \ {p} : pc[q] \in ServePC \cup {"cold_bind", "announced"}]_vars
-----------------------------------------------------------------------------
InHandoff == spc \notin {"down", "boot", "probe", "probe_clear", "idle"}

\* perform_handoff returns, or S crashes: with only S itself and its clocks
\* assumed to run, no silent, stuck, dead or chattering peer can hold it up.
HandoffReturns == InHandoff ~> ~InHandoff

\* A consumer that was drained or sealed for a handoff does not stay so: it is
\* resumed, or its process exits because the handoff committed or the data dir
\* has another owner.
StoppedConsumerResumes ==
    \A p \in Proc :
       consumer[p] \in {"drained", "sealed"} ~> consumer[p] \notin {"drained", "sealed"}

\* A handoff ends with an owner in accept, unless somebody crashes or the one who has
\* the data dir, or takes it back, is ended by an I/O error (FatalIo).
ServiceRestored ==
    (NoFault /\ InHandoff) ~> (~NoFault \/ \E p \in Proc : pc[p] = "accept" /\ flock = p)
-----------------------------------------------------------------------------
\* The next frame is one the session of p has a use for: PrepareHandoff before it
\* drains, SealRequest once it has drained, the outcome once it has sealed.
FitsIncumbent(p) ==
    LET q == conn[C(p)].req
        m == Head(q)
    IN  /\ (pc[p] = "hello_ack" /\ q # <<>>) => m.type = "HelloAck"
        /\ (pc[p] = "loop" /\ q # <<>>) =>
              \/ m = Msg("PrepareHandoff", C(p)) /\ sess[p].active = 0
              \/ m = Msg("SealRequest", sess[p].active) /\ sess[p].drained /\ ~sess[p].sealed
              \/ /\ m.type \in {"Commit", "ResumeAfterAbort"} /\ m.id = sess[p].active
                 /\ sess[p].sealed

\* The next frame is one N has a use for, with the id it took from HelloAck.
FitsSuccessor(p) ==
    /\ (pc[p] = "handshake" /\ ToN(p) # <<>>) => Head(ToN(p)).type = "HelloAck"
    /\ (pc[p] = "wait_for_begin" /\ ToN(p) # <<>>) =>
          Head(ToN(p)) \in {Msg("Begin", pipe[p].id), Msg("Abort", pipe[p].id)}

\* The next frame from O or N is one S is waiting for.
FitsSupervisor ==
    /\ (spc = "hello_o" /\ O.rsp # <<>>) => Head(O.rsp).type = "Hello"
    /\ (spc = "drained" /\ O.rsp # <<>>) => Head(O.rsp).type \in {"Drained", "Heartbeat"}
    /\ (spc = "seal" /\ O.rsp # <<>>) =>
          Head(O.rsp) \in {Msg("Heartbeat", 0), Msg("SealComplete", hid), Msg("SealFailed", hid)}
    /\ (spc = "hello_n" /\ N.toS # <<>>) => Head(N.toS).type = "Hello"
    /\ (spc = "ready" /\ N.toS # <<>>) =>
          Head(N.toS) \in {Msg("Heartbeat", 0), Msg("Ready", hid)}

\* No role ever takes the unexpected-message branch of one of its reads: whoever
\* crashes, times out or aborts, and whatever an earlier handoff left behind, the
\* next frame S, O or N reads from the others has a type and a handoff id that its
\* match statement accepts there.  So Commit and ResumeAfterAbort are never refused.
NoUnexpectedFrame ==
    /\ FitsSupervisor
    /\ \A p \in Proc : FitsSuccessor(p) /\ (C(p) # 0 => FitsIncumbent(p))

\* Nobody waits for a supervisor that has forgotten it: run_session_loop and
\* wait_for_begin block without a timeout, and while one of them has nothing to
\* read and its stream is open, S is inside the handoff whose stream that is.
NoOrphanedWait ==
    \A p \in Proc :
       /\ (pc[p] = "loop" /\ conn[C(p)].req = <<>> /\ conn[C(p)].sOpen) =>
             InHandoff /\ C(p) = hid
       /\ (pc[p] \in {"handshake", "wait_for_begin"} /\ ToN(p) = <<>> /\ pipe[p].sOpen) =>
             InHandoff /\ p = child
-----------------------------------------------------------------------------
(***************************************************************************)
(* What comments, docs and tests of the repository say and the code does   *)
(* not do.                                                                 *)
(***************************************************************************)
\* An aborted handoff restores the pre-handoff observable state: the control
\* path still names the incumbent, because N binds only after S has observed
\* Ready and committed O.
AcceptingIsReachable == \A p \in Proc : pc[p] = "accept" => path = p

\* When S has received Ready, a live N has bound the control socket.
ReadyMeansBound == spc = "commit" => path = child \/ pc[child] = "dead"

\* After a crash of S alone, one live incumbent is left.
SupervisorCrashLeavesIncumbent == faults.p = 0 /\ faults.io = 0 => SomeIncumbent

\* resume_after_abort is called in every case where drain ran and the handoff
\* did not commit: no accepting incumbent is left drained.
FailedDrainIsResumed == \A p \in Proc : pc[p] = "accept" => consumer[p] # "drain_failed"
=============================================================================
