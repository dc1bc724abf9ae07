---------------------------- MODULE HandoffState ----------------------------
(***************************************************************************)
(* The state shared by the three roles of a handoff, and what the kernel   *)
(* does to it: the data-dir flock, the control-socket path, the unix       *)
(* sockets between the supervisor and the primitives, the state journal,   *)
(* and the death of a process.                                             *)
(*                                                                         *)
(* A primitive is a process of Proc: it is born as a cold start or as a    *)
(* successor N, and becomes an incumbent O.  There is one supervisor S.    *)
(* A handoff id is the number of the connection perform_handoff opens:     *)
(* both are fresh in every call.                                           *)
(***************************************************************************)
EXTENDS Naturals, Sequences, FiniteSets

CONSTANTS
    Proc,           \* the primitive processes that may ever be started
    None,           \* no process
    MaxConn,        \* bound: connections S ever opens to the control socket
    MaxSupCrash,    \* bound: crashes of S
    MaxProcCrash,   \* bound: crashes of primitives
    MaxIoError      \* bound: I/O errors that end a primitive which owns, or takes back, the data dir

ASSUME NoneAssumption == None \notin Proc
ASSUME BoundAssumption ==
    MaxConn \in Nat /\ MaxSupCrash \in Nat /\ MaxProcCrash \in Nat /\ MaxIoError \in Nat

VARIABLES
    flock,      \* the process holding <data_dir>/.handoff.lock, or None
    path,       \* the process whose listener the control-socket path names
    pc,         \* where each primitive is in its code
    consumer,   \* what each primitive's Drainable consumer is doing
    sess,       \* SessionState of each incumbent, with its connection
    conn,       \* the control connections S -> O
    pipe,       \* the socketpair S -- N of each successor
    spc,        \* where the supervisor is in its code
    hid,        \* the connection S opened last; its handoff id
    child,      \* the successor S spawned last, or None
    result,     \* what the last perform_handoff returned
    journal,    \* the state journal on disk
    faults      \* crashes of S and of primitives, and fatal I/O errors, so far

vars == <<flock, path, pc, consumer, sess, conn, pipe,
          spc, hid, child, result, journal, faults>>
primitiveVars == <<flock, path, pc, consumer, sess>>
supervisorVars == <<spc, hid, child, result, journal>>
-----------------------------------------------------------------------------
Conn == 1..MaxConn

\* A handoff id, 0 in the frames that carry none.
Id == 0..MaxConn

MsgType == {"Hello", "HelloAck", "PrepareHandoff", "Drained", "SealRequest",
            "SealComplete", "SealFailed", "Begin", "Ready", "Commit", "Abort",
            "ResumeAfterAbort", "Heartbeat"}

Message == [type: MsgType, id: Id]

Msg(t, h) == [type |-> t, id |-> h]

\* Where a primitive is.  Unborn and dead processes execute nothing; the
\* others are blocked in, or about to make, the call the name says.
SuccessorPC == {"spawned", "handshake", "wait_for_begin", "begun", "locked", "announced"}
ServePC == {"accept", "hello_ack", "loop", "drain", "seal", "seal_complete", "recover"}
ProcPC == {"unborn", "cold_bind", "dead"} \cup SuccessorPC \cup ServePC

\* serving: accepting and writing.  drained, drain_failed: drain returned
\* (Ok, Err) and the writer is still open.  sealed: the writer is closed.
\* resume_failed: resume_after_abort was called and itself returned an error.
ConsumerState == {"none", "serving", "drained", "drain_failed", "sealed", "resume_failed"}

SessionState == [conn: Id, active: Id, sealed: BOOLEAN, drained: BOOLEAN]
NoSession == [conn |-> 0, active |-> 0, sealed |-> FALSE, drained |-> FALSE]

\* o: the process whose listener the connection was made to.  It is in that
\* listener's backlog until a session takes it.
ConnState == [o: Proc \cup {None}, sOpen: BOOLEAN, oOpen: BOOLEAN,
              req: Seq(Message), rsp: Seq(Message)]
NoConn == [o |-> None, sOpen |-> FALSE, oOpen |-> FALSE, req |-> <<>>, rsp |-> <<>>]

\* id: the handoff id N took from HelloAck.
PipeState == [sOpen: BOOLEAN, nOpen: BOOLEAN, toN: Seq(Message), toS: Seq(Message), id: Id]
NoPipe == [sOpen |-> FALSE, nOpen |-> FALSE, toN |-> <<>>, toS |-> <<>>, id |-> 0]

SupervisorPC ==
    {"down", "boot", "probe", "probe_clear", "idle", "hello_o", "spawn", "hello_n",
     "negotiating", "prepare", "drained", "draining", "seal_request", "seal", "sealing",
     "begin", "awaiting_ready", "ready", "commit", "committed", "clear", "kill_clear",
     "kill_resume", "resume", "resuming", "kill_return", "return"}

Phase == {"Negotiating", "Draining", "Sealing", "AwaitingReady", "Committed",
          "ResumingAfterAbort"}
JournalState == [phase: Phase \cup {"none"}, id: Id]
NoJournal == [phase |-> "none", id |-> 0]
-----------------------------------------------------------------------------
Alive(p) == pc[p] \notin {"unborn", "dead"}

\* The process has its listener open, so connect(2) to it succeeds.
Listening(p) == pc[p] \in ServePC

\* What a connection looks like after one endpoint acts on it.
Request(k, m) == [k EXCEPT !.req = Append(@, m)]
Reply(k, m) == [k EXCEPT !.rsp = Append(@, m)]
TakeRequest(k) == [k EXCEPT !.req = Tail(@)]
TakeReply(k) == [k EXCEPT !.rsp = Tail(@)]
Answer(k, out) == [k EXCEPT !.req = Tail(@), !.rsp = @ \o out]

\* What a socketpair looks like after S or N acts on it.
SendToN(w, m) == [w EXCEPT !.toN = Append(@, m)]
SendToS(w, m) == [w EXCEPT !.toS = Append(@, m)]
TakeFromS(w) == [w EXCEPT !.toN = Tail(@)]
TakeFromN(w) == [w EXCEPT !.toS = Tail(@)]

\* Closing an end discards what that end had not read; the peer still reads
\* what was written to it, then EOF.
CloseO(k) == IF k.sOpen THEN [k EXCEPT !.oOpen = FALSE, !.req = <<>>] ELSE NoConn
CloseS(k) == IF k.oOpen THEN [k EXCEPT !.sOpen = FALSE, !.rsp = <<>>] ELSE NoConn
CloseN(w) == IF w.sOpen THEN [w EXCEPT !.nOpen = FALSE, !.toN = <<>>] ELSE NoPipe
ClosePipeS(w) == IF w.nOpen THEN [w EXCEPT !.sOpen = FALSE, !.toS = <<>>] ELSE NoPipe

\* connect(2) succeeds while the path names an open listener; the new
\* connection waits in its backlog.
Connectable == path # None /\ Listening(path)

Connect ==
    /\ hid < MaxConn
    /\ hid' = hid + 1
    /\ conn' = [conn EXCEPT ![hid + 1] =
                   [NoConn EXCEPT !.o = path, !.sOpen = TRUE, !.oOpen = TRUE]]

\* Every descriptor of process p is closed by the kernel: its flock goes, its
\* peers read EOF after what is still buffered.  The path binding stays.
Exit(p) ==
    /\ flock' = IF flock = p THEN None ELSE flock
    /\ pc' = [pc EXCEPT ![p] = "dead"]
    /\ consumer' = [consumer EXCEPT ![p] = "none"]
    /\ sess' = [sess EXCEPT ![p] = NoSession]
    /\ conn' = [c \in Conn |-> IF conn[c].o = p THEN CloseO(conn[c]) ELSE conn[c]]
    /\ pipe' = [pipe EXCEPT ![p] = CloseN(@)]

\* A crash point or SIGKILL in a primitive.
ProcCrash(p) ==
    /\ Alive(p)
    /\ faults.p < MaxProcCrash
    /\ faults' = [faults EXCEPT !.p = @ + 1]
    /\ Exit(p)
    /\ UNCHANGED <<path, supervisorVars>>

\* An I/O error that ends a process as the owner of the data dir, or as the one that
\* should take it back: serve, or the bind before it, returns Err and so does main.
FatalIo(p) ==
    /\ faults.io < MaxIoError
    /\ faults' = [faults EXCEPT !.io = @ + 1]
    /\ Exit(p)
    /\ UNCHANGED <<path, supervisorVars>>

\* Seeded fault: the lock is taken over from whoever holds it.
Acquire_Steals(p) == flock' = p

\* DataDirLock::acquire: a non-blocking exclusive flock on a fresh descriptor;
\* it is refused while any descriptor holds the lock.  Its I/O errors (the directory,
\* the open, the pidfile) are branches of the actions that call it.
Acquire(p) ==
    /\ flock = None
    /\ flock' = p

LockHeld == flock # None

TypeOK ==
    /\ flock \in Proc \cup {None}
    /\ path \in Proc \cup {None}
    /\ pc \in [Proc -> ProcPC]
    /\ consumer \in [Proc -> ConsumerState]
    /\ sess \in [Proc -> SessionState]
    /\ conn \in [Conn -> ConnState]
    /\ pipe \in [Proc -> PipeState]
    /\ spc \in SupervisorPC
    /\ hid \in Id
    /\ child \in Proc \cup {None}
    /\ result \in {"none", "committed", "aborted", "error"}
    /\ journal \in JournalState
    /\ faults \in [s: 0..MaxSupCrash, p: 0..MaxProcCrash, io: 0..MaxIoError]

Init ==
    /\ flock = None
    /\ path = None
    /\ pc = [p \in Proc |-> "unborn"]
    /\ consumer = [p \in Proc |-> "none"]
    /\ sess = [p \in Proc |-> NoSession]
    /\ conn = [c \in Conn |-> NoConn]
    /\ pipe = [p \in Proc |-> NoPipe]
    /\ spc = "boot"
    /\ hid = 0
    /\ child = None
    /\ result = "none"
    /\ journal = NoJournal
    /\ faults = [s |-> 0, p |-> 0, io |-> 0]
=============================================================================
