----------------------------- MODULE Supervisor -----------------------------
(***************************************************************************)
(* The supervisor S: Supervisor::perform_handoff and resume_from_journal   *)
(* (crates/handoff/src/supervisor.rs).  spc names the call S is about to   *)
(* make; a step is one blocking call with what follows it up to the next.  *)
(* A journal write, the spawn and the journal delete may fail.             *)
(***************************************************************************)
EXTENDS HandoffState

O == conn[hid]
N == pipe[child]

\* What S leaves alone when it only talks to O, or only to N.
primitivesUnchanged == UNCHANGED <<primitiveVars, faults>>

Goto(s) == spc' = s
ToO(k) == conn' = [conn EXCEPT ![hid] = k]
ToPipe(w) == pipe' = [pipe EXCEPT ![child] = w]

\* Seeded fault: no ChildGuard, an early return leaves N running.
FailWith_NoGuard(r) == Goto("return") /\ result' = r

\* An early `?`: the locals are dropped, the ChildGuard among them.
FailWith(r) ==
    /\ Goto(IF child = None THEN "return" ELSE "kill_return")
    /\ result' = r

\* send_best_effort_abort.
AbortN == ToPipe(IF N.nOpen THEN SendToN(N, Msg("Abort", hid)) ELSE N)

\* child_guard.kill_and_reap, or its Drop: SIGKILL and wait.
KillAndReap ==
    IF Alive(child) THEN Exit(child)
                    ELSE UNCHANGED <<flock, pc, consumer, sess, conn, pipe>>
-----------------------------------------------------------------------------
\* resume_from_journal: nothing to do without a journal; otherwise probe the
\* incumbent, best effort.
ResumeFromJournal ==
    /\ spc = "boot"
    /\ IF journal = NoJournal
       THEN Goto("idle") /\ UNCHANGED <<conn, hid>>
       ELSE IF Connectable
            THEN Goto("probe") /\ Connect
            ELSE Goto("probe_clear") /\ UNCHANGED <<conn, hid>>
    /\ UNCHANGED <<pipe, child, result, journal>>
    /\ primitivesUnchanged

\* The probe reads one frame, an error or a timeout, and drops the stream.
Probe ==
    /\ spc = "probe"
    /\ Goto("probe_clear")
    /\ ToO(CloseS(O))
    /\ UNCHANGED <<pipe, hid, child, result, journal>>
    /\ primitivesUnchanged

\* StateJournal::delete; main only logs its error.
ProbeClear ==
    /\ spc = "probe_clear"
    /\ Goto("idle")
    /\ journal' \in {journal, NoJournal}
    /\ UNCHANGED <<conn, pipe, hid, child, result>>
    /\ primitivesUnchanged
-----------------------------------------------------------------------------
\* perform_handoff connects to the incumbent, or returns the connect error.
PerformHandoff ==
    /\ spc = "idle"
    /\ child' = None
    /\ \/ /\ Connectable
          /\ Connect
          /\ Goto("hello_o")
          /\ result' = "none"
       \/ /\ ~Connectable
          /\ result' = "error"
          /\ UNCHANGED <<conn, hid, spc>>
    /\ UNCHANGED <<pipe, journal>>
    /\ primitivesUnchanged

\* exchange_hello_as_supervisor with O: one bounded read of Hello (EOF and
\* HELLO_READ_TIMEOUT fail), then HelloAck.
HelloO ==
    /\ spc = "hello_o"
    /\ IF O.rsp # <<>> /\ Head(O.rsp).type = "Hello" /\ O.oOpen
       THEN /\ ToO(Request(TakeReply(O), Msg("HelloAck", hid)))
            /\ Goto("spawn")
            /\ UNCHANGED result
       ELSE /\ FailWith("error")
            /\ UNCHANGED conn
    /\ UNCHANGED <<pipe, hid, child, journal>>
    /\ primitivesUnchanged

\* make_socketpair and spawn_successor.  Bound: with every process of Proc
\* used up the spawn can only fail.
SpawnSuccessor ==
    /\ spc = "spawn"
    /\ \/ \E p \in Proc :
             /\ pc[p] = "unborn"
             /\ pc' = [pc EXCEPT ![p] = "spawned"]
             /\ pipe' = [pipe EXCEPT ![p] = [NoPipe EXCEPT !.sOpen = TRUE, !.nOpen = TRUE]]
             /\ child' = p
             /\ Goto("hello_n")
             /\ UNCHANGED result
       \/ /\ FailWith("error")
          /\ UNCHANGED <<pc, pipe, child>>
    /\ UNCHANGED <<flock, path, consumer, sess, conn, hid, journal, faults>>

\* Seeded fault: HelloAck carries the id of the next handoff.
HelloN_NextId ==
    /\ spc = "hello_n"
    /\ IF N.toS # <<>> /\ Head(N.toS).type = "Hello" /\ N.nOpen
       THEN /\ ToPipe(SendToN(TakeFromN(N), Msg("HelloAck", hid + 1)))
            /\ Goto("negotiating")
            /\ UNCHANGED result
       ELSE /\ FailWith("error")
            /\ UNCHANGED pipe
    /\ UNCHANGED <<conn, hid, child, journal>>
    /\ primitivesUnchanged

\* exchange_hello_as_supervisor with N.
HelloN ==
    /\ spc = "hello_n"
    /\ IF N.toS # <<>> /\ Head(N.toS).type = "Hello" /\ N.nOpen
       THEN /\ ToPipe(SendToN(TakeFromN(N), Msg("HelloAck", hid)))
            /\ Goto("negotiating")
            /\ UNCHANGED result
       ELSE /\ FailWith("error")
            /\ UNCHANGED pipe
    /\ UNCHANGED <<conn, hid, child, journal>>
    /\ primitivesUnchanged

\* journal_set(phase)?: on to the next call, or return its error.
JournalSet(at, phase, next) ==
    /\ spc = at
    /\ \/ /\ journal' = [phase |-> phase, id |-> hid]
          /\ Goto(next)
          /\ UNCHANGED result
       \/ /\ FailWith("error")
          /\ UNCHANGED journal
    /\ UNCHANGED <<conn, pipe, hid, child>>
    /\ primitivesUnchanged

JournalNegotiating == JournalSet("negotiating", "Negotiating", "prepare")
JournalDraining == JournalSet("draining", "Draining", "seal_request")
JournalSealing == JournalSet("sealing", "Sealing", "begin")
JournalAwaitingReady == JournalSet("awaiting_ready", "AwaitingReady", "ready")

\* Seeded fault: the frame is written again by a retry of a write that succeeded.
SendToO_Twice(at, type, next) ==
    /\ spc = at
    /\ IF O.oOpen
       THEN /\ ToO(Request(Request(O, Msg(type, hid)), Msg(type, hid)))
            /\ Goto(next)
            /\ UNCHANGED result
       ELSE FailWith("error") /\ UNCHANGED conn
    /\ UNCHANGED <<pipe, hid, child, journal>>
    /\ primitivesUnchanged

\* write_frame to O with `?`.
SendToO(at, type, next) ==
    /\ spc = at
    /\ IF O.oOpen
       THEN ToO(Request(O, Msg(type, hid))) /\ Goto(next) /\ UNCHANGED result
       ELSE FailWith("error") /\ UNCHANGED conn
    /\ UNCHANGED <<pipe, hid, child, journal>>
    /\ primitivesUnchanged

PrepareHandoff == SendToO("prepare", "PrepareHandoff", "drained")
SealRequest == SendToO("seal_request", "SealRequest", "seal")
ResumeAfterAbort == SendToO("resume", "ResumeAfterAbort", "resuming")
-----------------------------------------------------------------------------
\* read_until(Drained): a heartbeat is skipped; another frame, EOF and silence
\* until the liveness or the wall-clock cap fail.
AwaitDrained ==
    /\ spc = "drained"
    /\ IF O.rsp # <<>>
       THEN /\ ToO(TakeReply(O))
            /\ CASE Head(O.rsp).type = "Drained" -> Goto("draining") /\ UNCHANGED result
                 [] Head(O.rsp).type = "Heartbeat" -> UNCHANGED <<spc, result>>
                 [] OTHER -> FailWith("error")
       ELSE FailWith("error") /\ UNCHANGED conn
    /\ UNCHANGED <<pipe, hid, child, journal>>
    /\ primitivesUnchanged

\* Seeded fault: each heartbeat restarts the clock.
DrainedDeadline_NoCap ==
    /\ spc = "drained"
    /\ O.rsp # <<>>
    /\ Head(O.rsp).type = "Heartbeat"
    /\ ToO(TakeReply(O))
    /\ UNCHANGED <<spc, result, pipe, hid, child, journal>>
    /\ primitivesUnchanged

\* The wall-clock cap has passed when a heartbeat was read: the check at the
\* top of the loop precedes the next read, whatever is buffered.
DrainedDeadline ==
    /\ spc = "drained"
    /\ O.rsp # <<>>
    /\ Head(O.rsp).type = "Heartbeat"
    /\ ToO(TakeReply(O))
    /\ FailWith("error")
    /\ UNCHANGED <<pipe, hid, child, journal>>
    /\ primitivesUnchanged

\* The seal phase is abandoned: Abort N; it is killed and the journal cleared
\* before perform_handoff returns.
AbortSealPhase(r) ==
    /\ AbortN
    /\ Goto("kill_clear")
    /\ result' = r

\* Seeded fault: any frame that is not SealFailed passes for SealComplete.
RecvSealReply_AnyFrame ==
    /\ spc = "seal"
    /\ O.rsp # <<>>
    /\ ToO(TakeReply(O))
    /\ IF Head(O.rsp).type = "SealFailed"
       THEN AbortSealPhase("aborted")
       ELSE Goto("sealing") /\ UNCHANGED <<result, pipe>>
    /\ UNCHANGED <<hid, child, journal>>
    /\ primitivesUnchanged

\* A reply arrives in the seal-wait loop.  SealFailed returns committed: false.
RecvSealReply ==
    /\ spc = "seal"
    /\ O.rsp # <<>>
    /\ ToO(TakeReply(O))
    /\ LET m == Head(O.rsp) IN
       CASE m.type = "Heartbeat" -> UNCHANGED <<spc, result, pipe>>
         [] m = Msg("SealComplete", hid) -> Goto("sealing") /\ UNCHANGED <<result, pipe>>
         [] m = Msg("SealFailed", hid) -> AbortSealPhase("aborted")
         [] OTHER -> FailWith("error") /\ UNCHANGED pipe
    /\ UNCHANGED <<hid, child, journal>>
    /\ primitivesUnchanged

\* The wall-clock cap, checked after a heartbeat and before the next read.
SealDeadline ==
    /\ spc = "seal"
    /\ O.rsp # <<>>
    /\ Head(O.rsp).type = "Heartbeat"
    /\ ToO(TakeReply(O))
    /\ AbortSealPhase("error")
    /\ UNCHANGED <<hid, child, journal>>
    /\ primitivesUnchanged

\* O silent until the liveness or the wall-clock cap.
SealTimeout ==
    /\ spc = "seal"
    /\ O.oOpen
    /\ O.rsp = <<>>
    /\ AbortSealPhase("error")
    /\ UNCHANGED <<conn, hid, child, journal>>
    /\ primitivesUnchanged

\* EOF or a read error in the seal-wait loop: a plain return.
SealReadError ==
    /\ spc = "seal"
    /\ ~O.oOpen
    /\ O.rsp = <<>>
    /\ FailWith("error")
    /\ UNCHANGED <<conn, pipe, hid, child, journal>>
    /\ primitivesUnchanged

\* Seeded fault: O is told to resume while N still runs.
AbortReadyPhase_NoKill == AbortN /\ Goto("resume") /\ result' = "aborted"

\* Begin or Ready failed: Abort N; it is killed before O is told to resume.
AbortReadyPhase ==
    /\ AbortN
    /\ Goto("kill_resume")
    /\ result' = "aborted"

\* Write Begin.
Begin ==
    /\ spc = "begin"
    /\ IF N.nOpen
       THEN /\ ToPipe(SendToN(N, Msg("Begin", hid)))
            /\ Goto("awaiting_ready")
            /\ UNCHANGED result
       ELSE AbortReadyPhase
    /\ UNCHANGED <<conn, hid, child, journal>>
    /\ primitivesUnchanged

\* Seeded fault: a heartbeat passes for Ready.
AwaitReady_AnyFrame ==
    /\ spc = "ready"
    /\ IF N.toS # <<>>
       THEN ToPipe(TakeFromN(N)) /\ Goto("commit") /\ UNCHANGED result
       ELSE AbortReadyPhase
    /\ UNCHANGED <<conn, hid, child, journal>>
    /\ primitivesUnchanged

\* read_until(Ready).  Ready of this handoff disarms the ChildGuard; a
\* heartbeat is skipped; another frame, EOF and silence abort.
AwaitReady ==
    /\ spc = "ready"
    /\ IF N.toS # <<>> /\ Head(N.toS) \in {Msg("Ready", hid), Msg("Heartbeat", 0)}
       THEN /\ ToPipe(TakeFromN(N))
            /\ Goto(IF Head(N.toS).type = "Ready" THEN "commit" ELSE "ready")
            /\ UNCHANGED result
       ELSE AbortReadyPhase
    /\ UNCHANGED <<conn, hid, child, journal>>
    /\ primitivesUnchanged

\* The wall-clock cap, checked after a heartbeat and before the next read.
ReadyDeadline ==
    /\ spc = "ready"
    /\ N.toS # <<>>
    /\ Head(N.toS).type = "Heartbeat"
    /\ AbortReadyPhase
    /\ UNCHANGED <<conn, hid, child, journal>>
    /\ primitivesUnchanged

\* Commit to O: an error is only logged.
Commit ==
    /\ spc = "commit"
    /\ ToO(IF O.oOpen THEN Request(O, Msg("Commit", hid)) ELSE O)
    /\ Goto("committed")
    /\ result' = "committed"
    /\ UNCHANGED <<pipe, hid, child, journal>>
    /\ primitivesUnchanged

\* journal_set(Committed), best effort.
JournalCommitted ==
    /\ spc = "committed"
    /\ Goto("clear")
    /\ journal' \in {journal, [phase |-> "Committed", id |-> hid]}
    /\ UNCHANGED <<conn, pipe, hid, child, result>>
    /\ primitivesUnchanged

\* journal_set(ResumingAfterAbort)?.
JournalResuming == JournalSet("resuming", "ResumingAfterAbort", "clear")

\* journal_clear, best effort.
JournalClear ==
    /\ spc = "clear"
    /\ Goto("return")
    /\ journal' \in {journal, NoJournal}
    /\ UNCHANGED <<conn, pipe, hid, child, result>>
    /\ primitivesUnchanged

\* The kill of the abort paths and, at kill_return, of an early return.
Kill ==
    /\ spc \in {"kill_clear", "kill_resume", "kill_return"}
    /\ KillAndReap
    /\ Goto(CASE spc = "kill_clear" -> "clear"
              [] spc = "kill_resume" -> "resume"
              [] spc = "kill_return" -> "return")
    /\ UNCHANGED <<path, hid, child, result, journal, faults>>

\* Seeded fault: o_stream is kept for the next handoff.
Return_KeepsStream ==
    /\ spc = "return"
    /\ Goto("idle")
    /\ pipe' = [p \in Proc |-> IF p = child THEN ClosePipeS(pipe[p]) ELSE pipe[p]]
    /\ UNCHANGED <<conn, hid, child, result, journal>>
    /\ primitivesUnchanged

\* perform_handoff returns; n_stream and then o_stream are closed.
Return ==
    /\ spc = "return"
    /\ Goto("idle")
    /\ ToO(CloseS(O))
    /\ pipe' = [p \in Proc |-> IF p = child THEN ClosePipeS(pipe[p]) ELSE pipe[p]]
    /\ UNCHANGED <<hid, child, result, journal>>
    /\ primitivesUnchanged

\* S restarts; its main calls resume_from_journal first.
Restart ==
    /\ spc = "down"
    /\ Goto("boot")
    /\ UNCHANGED <<conn, pipe, hid, child, result, journal>>
    /\ primitivesUnchanged

\* perform_handoff, once called, runs to its return.
HandoffStep ==
    \/ HelloO \/ SpawnSuccessor \/ HelloN
    \/ JournalNegotiating \/ PrepareHandoff \/ AwaitDrained \/ DrainedDeadline
    \/ JournalDraining \/ SealRequest
    \/ RecvSealReply \/ SealDeadline \/ SealTimeout \/ SealReadError
    \/ JournalSealing \/ Begin \/ JournalAwaitingReady \/ AwaitReady \/ ReadyDeadline
    \/ Commit \/ JournalCommitted
    \/ ResumeAfterAbort \/ JournalResuming
    \/ JournalClear \/ Kill \/ Return

BootStep == ResumeFromJournal \/ Probe \/ ProbeClear
=============================================================================
