------------------------ MODULE ReferenceSupervisor ------------------------
(***************************************************************************)
(* The handoff-supervisor binary: boot, the single-threaded trigger loop   *)
(* and the slot that holds the serving child, around the descriptors each  *)
(* child is given and the journal. What perform_handoff says to the two    *)
(* sides is the subject of Supervisor; here it is what it does to this     *)
(* process's children and files.                                           *)
(***************************************************************************)
EXTENDS InheritedFds, Journal

CONSTANTS
    Listeners,  \* the configured listeners' sockets, in the order of the config
    Control,    \* N's end of the socketpair
    Private,    \* a descriptor of S that exec closes
    Foreign,    \* one that S was itself started with and exec leaves open
    Layouts,    \* where those descriptors may be in S
    MaxChild,   \* a bound on the children
    MaxFault    \* a bound on the crashes, exits and power failures

ASSUME BoundAssumption == MaxChild \in Nat /\ MaxFault \in Nat

VARIABLES
    pc,         \* where main is; "down" when no supervisor runs
    layout,     \* the descriptors of this supervisor
    listenPid,  \* it was started with a LISTEN_PID in its environment
    born,       \* the number of children so far
    proc,       \* their states
    current,    \* current_child
    successor,  \* the child of the handoff that is being performed
    abandoned,  \* auxiliary: the children given up after the reap grace
    latest,     \* auxiliary: the child that was last committed or cold started
    faults

supVars == <<pc, layout, listenPid, born, proc, current, successor, abandoned, latest, faults>>
vars == <<supVars, fdVars, journalVars>>

None == 0
Child == 1..MaxChild
nl == Len(Listeners)

\* Descriptors that are open at the same time have different numbers.
ASSUME LayoutAssumption ==
    /\ Listeners \in Seq(File \ {Foreign})
    /\ \A l \in Layouts :
          /\ l.at \in [1..nl -> Fd]
          /\ \A i \in 1..nl : l.at[i] \notin l.private \cup l.foreign
          /\ \A i, j \in 1..nl : l.at[i] = l.at[j] => i = j

TypeOK ==
    /\ FdTypeOK /\ JournalTypeOK
    /\ pc \in {"down", "cold", "resume", "bind", "accept", "read", "handoff", "spawn", "drive",
               "undo", "commit", "reap", "reply"}
    /\ layout \in Layouts /\ listenPid \in BOOLEAN
    /\ born \in 0..MaxChild /\ faults \in 0..MaxFault
    /\ proc \in [Child -> {"none", "forked", "running", "zombie", "orphan", "gone"}]
    /\ {current, successor, latest} \subseteq Child \cup {None} /\ abandoned \subseteq Child

Init ==
    /\ NoChild /\ JournalInit
    /\ pc = "down" /\ layout \in Layouts /\ listenPid \in BOOLEAN
    /\ born = 0 /\ proc = [c \in Child |-> "none"]
    /\ current = None /\ successor = None /\ latest = None
    /\ abandoned = {} /\ faults = 0
-----------------------------------------------------------------------------
(***************************************************************************)
(* Spawning a child.                                                       *)
(***************************************************************************)
\* S's table when it forks, with N's end of the socketpair at c for a successor.
ParentTable(c) ==
    [f \in Fd |-> IF f = c THEN Control
                  ELSE IF f \in layout.foreign THEN Foreign
                  ELSE IF f \in layout.private THEN Private
                  ELSE LET held == {i \in 1..nl : layout.at[i] = f}
                       IN IF held = {} THEN Closed ELSE Listeners[CHOOSE i \in held : TRUE]]

\* Seeded fault: the control socket is passed first, and every listener moves up.
Passed_ControlFirst(c) == (IF c = 0 THEN <<>> ELSE <<c>>) \o layout.at

\* pass_listener_fds_on_spawn: the listeners and then extra_fd (0 for None).
Passed(c) == layout.at \o (IF c = 0 THEN <<>> ELSE <<c>>)

ForkChild(c) ==
    /\ stage = "idle" /\ born < MaxChild
    /\ Fork(ParentTable(c), Fd \ layout.foreign, Passed(c))
    /\ born' = born + 1 /\ proc' = [proc EXCEPT ![born + 1] = "forked"]
    /\ UNCHANGED <<pc, layout, listenPid, current, successor, abandoned, latest, faults>>
    /\ UNCHANGED journalVars

ForkCold == pc = "cold" /\ ForkChild(0)

ForkSuccessor ==
    /\ pc = "spawn"
    /\ \E c \in Fd : ParentTable(0)[c] = Closed /\ ForkChild(c)

\* spawn returns: `?` leaves main after a failed cold start and perform_handoff
\* after a failed successor. No child of a supervisor that died meanwhile is waited for.
SpawnReturns ==
    /\ Spawned
    /\ LET ok == stage = "done"
           c == born
       IN  /\ proc' = [proc EXCEPT ![c] = IF ~ok THEN "gone"
                                          ELSE IF pc = "down" THEN "orphan" ELSE "running"]
           /\ \/ pc = "down" /\ UNCHANGED <<pc, current, successor, latest>>
              \/ /\ pc = "cold" /\ pc' = IF ok THEN "resume" ELSE "down"
                 /\ current' = IF ok THEN c ELSE None
                 /\ latest' = current' /\ UNCHANGED successor
              \/ /\ pc = "spawn" /\ pc' = IF ok THEN "drive" ELSE "reply"
                 /\ successor' = IF ok THEN c ELSE None
                 /\ UNCHANGED <<current, latest>>
    /\ UNCHANGED <<layout, listenPid, born, abandoned, faults, journalVars>>

\* fork itself fails.
ForkFails ==
    /\ pc \in {"cold", "spawn"} /\ stage = "idle"
    /\ pc' = IF pc = "cold" THEN "down" ELSE "reply"
    /\ UNCHANGED <<layout, listenPid, born, proc, current, successor, abandoned, latest, faults>>
    /\ UNCHANGED <<fdVars, journalVars>>

\* What the child does before its program starts.
Install == Lift \/ LiftFails \/ Settle \/ CloseStaged \/ Exec \/ ExecFails

ChildInstalls == Install /\ UNCHANGED <<supVars, journalVars>>
-----------------------------------------------------------------------------
(***************************************************************************)
(* main                                                                    *)
(***************************************************************************)
Goto(from, to) == pc = from /\ pc' = to
OnlyPc == UNCHANGED <<layout, listenPid, born, proc, current, successor, abandoned, latest, faults>>

Boot ==
    /\ Goto("down", "cold") /\ stage = "idle"
    /\ layout' \in Layouts /\ listenPid' \in BOOLEAN
    /\ UNCHANGED <<born, proc, current, successor, abandoned, latest, faults, fdVars, journalVars>>

\* resume_from_journal: an entry is deleted; an error is only logged.
ResumeFromJournal ==
    /\ Goto("resume", "bind")
    /\ \/ file \in Entry /\ Delete
       \/ UNCHANGED journalVars
    /\ OnlyPc /\ UNCHANGED fdVars

BindTrigger == Goto("bind", "accept") /\ OnlyPc /\ UNCHANGED <<fdVars, journalVars>>

AcceptTrigger == Goto("accept", "read") /\ OnlyPc /\ UNCHANGED <<fdVars, journalVars>>

\* read_trigger_command and the match on the command: the client is refused, fails
\* or is too slow; asks for something else or for a binary that is not allowed; or
\* asks for a handoff.
ReadTriggerCommand ==
    /\ pc = "read" /\ pc' \in {"accept", "reply", "handoff"}
    /\ OnlyPc /\ UNCHANGED <<fdVars, journalVars>>

\* perform_handoff up to the spawn: O cannot be reached or does not agree, or does.
ReachIncumbent ==
    /\ pc = "handoff" /\ pc' \in {"reply", "spawn"}
    /\ OnlyPc /\ UNCHANGED <<fdVars, journalVars>>

\* journal_set, at some point of the handoff.
JournalSet ==
    /\ pc \in {"drive", "undo", "commit"}
    /\ OpenTmp \/ WriteStep
    /\ UNCHANGED <<supVars, fdVars>>

Reaped(c) == proc' = [proc EXCEPT ![c] = "gone"]

\* Seeded fault: an early return that forgets the guard.
DropGuard_Forgets(to) ==
    /\ pc = "drive" /\ pc' = to
    /\ successor' = None /\ UNCHANGED proc
    /\ UNCHANGED <<layout, listenPid, born, current, abandoned, latest, faults, fdVars>>

\* ChildGuard: kill and wait, explicitly or when an error returns past it.
DropGuard(to) ==
    /\ pc = "drive" /\ pc' = to
    /\ Reaped(successor) /\ successor' = None
    /\ UNCHANGED <<layout, listenPid, born, current, abandoned, latest, faults, fdVars>>

\* A peer, a write or the journal fails: perform_handoff returns Err with the
\* journal as it is.
HandoffErr == DropGuard("reply") /\ IF writing = "no" THEN UNCHANGED journalVars ELSE WriteFails

\* The handoff is aborted: N is killed, then O resumed and the journal cleared.
AbortHandoff == DropGuard("undo") /\ writing = "no" /\ UNCHANGED journalVars

\* journal_clear, whose failure is only logged.
JournalClear == writing = "no" /\ (Delete \/ UNCHANGED journalVars)

UndoReturns ==
    /\ Goto("undo", "reply")
    /\ JournalClear \/ WriteFails
    /\ OnlyPc /\ UNCHANGED fdVars

\* Commit was sent and the guard is disarmed.
CommitHandoff ==
    /\ Goto("drive", "commit") /\ writing = "no"
    /\ latest' = successor
    /\ UNCHANGED <<layout, listenPid, born, proc, current, successor, abandoned, faults>>
    /\ UNCHANGED <<fdVars, journalVars>>

\* Failing to journal Committed is only logged.
CommittedNotJournaled == pc = "commit" /\ WriteFails /\ UNCHANGED <<supVars, fdVars>>

CommitReturns ==
    /\ Goto("commit", "reap")
    /\ JournalClear
    /\ OnlyPc /\ UNCHANGED fdVars

\* *current = new_child
ReplaceSlot ==
    /\ Goto("reap", "reply")
    /\ current' = successor /\ successor' = None
    /\ UNCHANGED <<layout, listenPid, born, latest, faults, fdVars, journalVars>>

\* try_wait finds that the outgoing child has exited.
ReapOutgoing ==
    /\ pc = "reap" /\ proc[current] = "zombie"
    /\ Reaped(current) /\ UNCHANGED abandoned
    /\ ReplaceSlot

\* Seeded fault: wait() in place of wait_child_with_timeout.
AbandonOutgoing_Waits == FALSE /\ UNCHANGED vars

\* Seeded fault: giving the old child up returns before the slot is replaced.
AbandonOutgoing_KeepsSlot ==
    /\ Goto("reap", "reply") /\ proc[current] = "running"
    /\ abandoned' = abandoned \cup {successor} /\ successor' = None
    /\ UNCHANGED <<layout, listenPid, born, proc, current, latest, faults, fdVars, journalVars>>

\* The grace is over and try_wait has found it running.
AbandonOutgoing ==
    /\ pc = "reap" /\ proc[current] = "running"
    /\ abandoned' = abandoned \cup {current} /\ UNCHANGED proc
    /\ ReplaceSlot

Reply == Goto("reply", "accept") /\ OnlyPc /\ UNCHANGED <<fdVars, journalVars>>
-----------------------------------------------------------------------------
(***************************************************************************)
(* The environment.                                                        *)
(***************************************************************************)
\* A child exits, or crashes, at any time; its parent or init waits for it.
ChildExits(c) ==
    /\ \/ proc[c] = "running" /\ proc' = [proc EXCEPT ![c] = "zombie"]
       \/ proc[c] = "orphan" /\ proc' = [proc EXCEPT ![c] = "gone"]
    /\ UNCHANGED <<pc, layout, listenPid, born, current, successor, abandoned, latest, faults>>
    /\ UNCHANGED <<fdVars, journalVars>>

\* The supervisor is gone: its children are init's, which reaps the dead ones.
SupervisorGone ==
    /\ pc # "down" /\ pc' = "down" /\ faults < MaxFault /\ faults' = faults + 1
    /\ proc' = [c \in Child |-> IF proc[c] = "running" THEN "orphan"
                               ELSE IF proc[c] = "zombie" THEN "gone" ELSE proc[c]]
    /\ current' = None /\ successor' = None /\ latest' = None /\ abandoned' = {}
    /\ UNCHANGED <<layout, listenPid, born, fdVars>>

SupervisorCrash == SupervisorGone /\ WriterDies

\* Supervisor::new or the trigger's bind fails: main returns after the cold start.
MainFails == pc \in {"resume", "bind"} /\ SupervisorGone /\ UNCHANGED journalVars

\* (A child before its exec has written nothing; the power fails before or after.)
PowerFailure ==
    /\ faults < MaxFault /\ faults' = faults + 1 /\ stage = "idle"
    /\ pc' = "down" /\ PowerFails
    /\ proc' = [c \in Child |-> IF proc[c] = "none" THEN "none" ELSE "gone"]
    /\ current' = None /\ successor' = None /\ latest' = None /\ abandoned' = {}
    /\ UNCHANGED <<layout, listenPid, born, fdVars>>
-----------------------------------------------------------------------------
MainNext ==
    \/ ForkCold \/ ForkSuccessor \/ ForkFails \/ SpawnReturns \/ ChildInstalls
    \/ ResumeFromJournal \/ BindTrigger \/ ReadTriggerCommand \/ ReachIncumbent
    \/ JournalSet \/ HandoffErr \/ AbortHandoff \/ UndoReturns
    \/ CommitHandoff \/ CommittedNotJournaled \/ CommitReturns
    \/ ReapOutgoing \/ AbandonOutgoing \/ Reply

Next ==
    \/ MainNext
    \/ Boot \/ AcceptTrigger
    \/ \E c \in Child : ChildExits(c)
    \/ SupervisorCrash \/ MainFails \/ PowerFailure

\* The supervisor's thread and a child between fork and exec run; every wait of
\* theirs is bounded. Children's programs and trigger clients owe nothing.
Spec == Init /\ [][Next]_vars /\ WF_vars(MainNext)
-----------------------------------------------------------------------------
\* Whenever the trigger loop is not replacing it, current_child is the child that was
\* committed last (or cold started) and has not been waited for: the next handoff's
\* bounded reap waits for the process that handed off, not for an older one.
SlotHoldsLatest ==
    pc \in {"accept", "read", "handoff", "spawn", "drive", "undo", "reply"} =>
        current = latest /\ proc[current] \in {"running", "zombie"}

\* Every child this supervisor started and has not reaped is the one in the slot, the
\* successor of the handoff under way, or one that outlived the reap grace: no return
\* of perform_handoff leaves a successor behind, alive or as a zombie.
ChildrenAccounted ==
    /\ TypeOK
    /\ \A c \in Child :
          proc[c] \in {"running", "zombie"} => c \in {current, successor} \cup abandoned
    /\ pc \in {"accept", "reply"} => successor = None

\* The inductive form of the two: where main is tells which children it has, they are
\* distinct, and the only child before its exec is the one forked last.
SlotInv ==
    /\ \A c \in Child : c > born => proc[c] = "none"
    /\ \A c \in Child : proc[c] = "forked" => stage # "idle" /\ c = born
    /\ stage # "idle" => pc \in {"down", "cold", "spawn"} /\ born # 0 /\ proc[born] = "forked"
    /\ \A c \in Child :
          proc[c] \in {"running", "zombie"} => c \in {current, successor} \cup abandoned
    /\ pc \in {"down", "cold"} => current = None /\ abandoned = {}
    /\ pc \notin {"down", "cold"} => current # None /\ proc[current] \in {"running", "zombie"}
    /\ IF pc \in {"drive", "commit", "reap"}
       THEN successor \notin {None, current} /\ proc[successor] \in {"running", "zombie"}
       ELSE successor = None
    /\ latest = IF pc \in {"commit", "reap"} THEN successor ELSE current

\* The trigger loop always comes back to its next client (or the supervisor ends):
\* no child that will not exit, failed spawn or failed handoff wedges it.
TriggerLoopReturns == (pc # "down") ~> (pc \in {"accept", "down"})
=============================================================================
