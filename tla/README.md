# A TLA+ model of the handoff protocol

`handoff` moves a stateful service from a running process to its replacement
without losing writes or connections. Three roles take part:

* the **incumbent** O, which owns the data dir and serves on a control socket;
* the **successor** N, spawned by the supervisor, which takes the data dir over;
* the **supervisor** S, whose `perform_handoff` drives both.

They share a data-dir `flock`, a control-socket path, one unix connection
S–O per handoff, one socketpair S–N per successor, and the supervisor's state
journal. O drains, seals (closes its writer) and releases the flock; S tells N
to begin; N takes the flock and announces Ready; S commits O away. Anything may
fail on the way, and then N is killed and O takes its data dir back.

The project has four specifications. `Handoff` is the protocol between the three
roles. Three others look inside what it takes as one step or one datum: the lock
(`DataDirLock`), the waits of the supervisor and the frames they read
(`ReadUntil`), and the supervisor process around `perform_handoff` with its
children, descriptors and journal (`ReferenceSupervisor`).

## Inventory

Paths are relative to `src/crates/`.

| Part | Source | State and operations | Model |
|---|---|---|---|
| Incumbent | `handoff/src/incumbent.rs` | `Option<DataDirLock>`, `SessionState`; `serve`, `handle_session`, `run_session_loop`, `run_with_heartbeats`, `acquire_with_short_retry`, `bind_*` | `Incumbent` |
| Consumer contract | `handoff/src/drainable.rs` | `drain`, `seal`, `resume_after_abort`, each Ok or Err | `consumer` in `Incumbent` |
| Successor | `handoff/src/role.rs` | `handshake`, `wait_for_begin`, `start_heartbeats`, `announce_ready`, `announce_and_bind` | `Successor` |
| Inherited descriptors | `handoff/src/fd.rs`, `handoff/src/role.rs` | descriptor table, `LISTEN_*` environment; `pass_listener_fds_on_spawn`, `install_inherited_fds`, `read_inherited_listeners`, `take` | `InheritedFds`, `InheritedListeners` |
| Supervisor | `handoff/src/supervisor.rs` | `perform_handoff`, `resume_from_journal`, `ChildGuard`, `read_until`, `journal_set`, `journal_clear` | `Supervisor`; the waits in `ReadUntil` |
| Data-dir lock | `handoff/src/lock.rs` | flock, pidfile; `acquire`, `acquire_or_break_stale`, drop | `DataDirLock`; one step each in `HandoffState` |
| Journal | `handoff/src/state.rs` | `Phase`; `write_atomic`, `read`, `delete` | `Journal`; one step each in `Supervisor` |
| Frames and messages | `handoff/src/frame.rs`, `protocol.rs` | `Message`, `FrameAccumulator`, `negotiate_version` | `FrameReader`, `FrameStream`; whole messages in `HandoffState` |
| Sockets | `handoff/src/sock.rs` | `bind_socket`, `send_all`, options, credentials | `path`, `conn`, `pipe` |
| Crash points | `handoff/src/crash.rs` | `crash_here!` | `ProcCrash`, `SupervisorCrash` |
| Reference supervisor | `handoff-supervisor/src/main.rs` | boot, cold start, trigger loop, child slot, bounded reap | `ReferenceSupervisor` |
| Errors, metrics, helpers | `error.rs`, `metrics.rs`, `util.rs`, `lib.rs` | none | not modelled |

## Modules

| Module | What it is |
|---|---|
| `HandoffState` | constants, variables, messages; what the kernel does: sockets, flock, path, process exit |
| `Incumbent` | cold start, `serve`, the session, lock recovery; one action per received frame, per hook outcome and per failure |
| `Successor` | N from `handshake` to `bind_after_ready` |
| `Supervisor` | `perform_handoff` call by call, its abort paths, `resume_from_journal` |
| `Handoff` | the composition, crashes of S and of primitives, fairness, the properties, the refinement mapping |
| `SingleWriter` | the abstract specification: who owns the data dir |
| `HandoffInvariant` | the inductive invariants |
| `AnyPeer` | the incumbent alone against a control peer that follows no protocol |
| `DataDirLock` | `acquire`, `acquire_or_break_stale` and drop, one system call per step, with deaths, pid reuse and I/O errors |
| `FrameStream` | the abstract specification of a connection: whole messages, once each, in order |
| `FrameReader` | `encode` and `FrameAccumulator::poll_read` byte by byte |
| `ReadUntil` | the three long waits of `perform_handoff` on top of `FrameReader`, with a clock |
| `InheritedFds` | `install_inherited_fds`: a child's descriptor table between fork and exec |
| `Journal` | `write_atomic` and `delete` over a file system that loses what was not synced |
| `ReferenceSupervisor` | `main` of the supervisor binary; composes `InheritedFds` and `Journal` |
| `InheritedListeners` | what a child's program finds when it asks for a listener by name |
| `MCHandoff`, `MCReadUntil`, `MCReferenceSupervisor` | the instances for TLC |
| `HandoffTypeProofs`, `HandoffOwnerProofs`, `HandoffSurvivalProofs`, `HandoffDialogueProofs`, `HandoffProofs` | the proofs about `Handoff` and `AnyPeer` |
| `DataDirLockProofs`, `ReadUntilProofs`, `ReferenceSupervisorProofs` | the proofs about the others |

Definitions named `X_Something` with a comment "Seeded fault" are faulty variants
of `X`. They are not part of any specification; substituted for `X` they must
make a named property fail, which shows that the property depends on that code.

### State

In `Handoff`, `pc[p]` is where primitive `p` is: the call it is blocked in or about to make.
One set `Proc` serves for all primitives, since a successor becomes an incumbent.
`consumer[p]` is what the `Drainable` behind it is doing. `sess[p]` is
`SessionState` plus the connection. `conn[c]` is the c-th connection S opened,
with the two byte streams as sequences of messages, which ends are open, and the
process whose listener it went to; before `Accept` it waits in that listener's
backlog. `pipe[p]` is the socketpair of successor `p`. `spc`, `hid`, `child`,
`result` are the locals of `perform_handoff`; the handoff id is the connection
number, fresh in every call as the UUID is.

In `DataDirLock`, `locked[p]` is the inode that `p`'s open file description has
locked, so that a lockfile unlinked and created again would be a second lock. In
`FrameReader`, `stream` is the bytes of a connection, `arrived` how many are in the
receive buffer or past it, and `buf` and `want` are the fields of
`FrameAccumulator`. `ReadUntil` adds `now`, the `deadline` of the wait, the receive
timeout `recv` and when the current `read(2)` began. In `Journal`, `file` is what
the path names now and `disk` what it may name after a power failure. In
`ReferenceSupervisor`, `current` is `current_child`, `successor` the child that the
`ChildGuard` of the handoff holds, and `proc` the state of each child as the kernel
sees it. Variables marked auxiliary record history for a property; no guard reads
them.

### Steps

A step is one call that another process can observe, with the code that follows
it up to the next such call. So deciding to abort, killing N and telling O to
resume are three steps, and releasing the flock and writing `SealComplete` are
two. `Err` from a `?` is an alternative of the step that returns it. In
`DataDirLock`, `FrameReader`, `InheritedFds` and `Journal` a step is one system call.

### What the model assumes

* In `Handoff` a frame is written and read whole; `ReadUntil` shows that this is what
  the reader delivers (`ImplementsFrameStream`). A write fails once the peer has closed
  (`send_all` reports `EPIPE`); a comment in `handoff-tests/tests/crash_matrix.rs`
  has N's Ready succeed on a closed socketpair, which a unix stream socket does
  not allow once the close has happened. A Ready written before it does succeed,
  in the model as well.
* A reader gets what is buffered before EOF; closing an end discards what that end
  had not read.
* Timeouts are nondeterministic. One that bounds a single read (`LIVENESS_TIMEOUT`,
  `HELLO_READ_TIMEOUT`) fires only with nothing to read. The wall-clock cap of
  `read_until` and of the seal loop is tested at the top of the loop, so it also
  fires right after a heartbeat, whatever is buffered: `DrainedDeadline`,
  `SealDeadline`, `ReadyDeadline`.
* `acquire` may be refused and may meet an I/O error, in every place that calls it;
  each place does with the error what its code does. In `ResumeAfterAbort` it ends the
  session, and `serve` tries again; in the recovery of `serve` it ends the process at
  once (`RecoverLock`), and so it does in N and in a cold start.
* `GiveUp` needs a held lock at the end of the two seconds and may happen in any state
  in which it is held, since a successor's initialisation may take arbitrarily long.
* An `acquire` that fails in its pidfile write has held the flock for a moment. N
  (`InitFails`) and a cold start (`BindColdStart`) show that moment. An incumbent that
  takes its lock back does not: a contender refused then fails as it may, in the model,
  with an I/O error of its own.
* An I/O error that ends the process that has the data dir, or takes it back, is
  `FatalIo`: `bind_socket` in a cold start or after Ready, a fatal `accept`, `acquire` in
  the recovery of `serve`. `faults` counts these, and the crashes of S and of primitives.
  All other errors are free and not counted.
* The journal writes, its delete, the spawn, and every hook may fail.
* A crash of S closes its sockets and kills nobody.
* A consumer whose `resume_after_abort` failed counts as possibly writing.
* An `accept` error leaves the connection in the backlog (`AcceptFails`), unless
  `classify_accept_error` calls it fatal.
* In `DataDirLock` nobody but the code removes `.handoff.lock`. A pid is in use by at
  most one running process, and is free again once that process is dead. No
  descriptor of the lockfile outlives its process (the standard library opens it
  close-on-exec), so the inherited descriptor that a comment at `lock.rs:114` speaks of
  does not occur.
* In `ReadUntil` time passes only inside `read(2)`, and a receive timeout fires when
  it is due. Scheduling delay would add to every bound alike.
* In `Journal` an fsync of a file settles its data, an fsync of the directory settles
  its names, and a rename is atomic. What was not synced may or may not survive a
  power failure. A process crash loses nothing.
* In `ReferenceSupervisor`, `perform_handoff` is what it does to this process's
  children and files; whether a peer agrees is a free choice. A supervisor boots
  when no child of an earlier one is still between fork and exec.

## What is checked

| Run | Instance | Properties |
|---|---|---|
| `safety` | 3 primitives, 2 connections, 1 crash of S, 1 of a primitive, 1 fatal I/O error, symmetric | `TypeOK`, `HandoffInv`, `SurvivalInv`, `DialogueInv`, `PairInv`, `OwnerIsWriter`, `AcceptingIsResumed`, `SealedWhileDriven`, `CommittedSuccessorOwns`, `NoStraySuccessor`, `IncumbentSurvives`, `NoUnexpectedFrame`, `NoOrphanedWait`, `GivesUpToIncumbent`, `ImplementsSingleWriter` |
| `liveness` | 2 primitives, 2 connections, both crashes, 1 fatal I/O error | `StoppedConsumerResumes`, `ServiceRestored` |
| `supervisor_liveness` | 2 primitives, 1 connection, both crashes, 1 fatal I/O error | `HandoffReturns` |
| `any_peer` | 2 primitives, 2 connections, 1 crash, 1 fatal I/O error, any number of frames | `OwnerIsWriter`, `AcceptingIsResumed`, `ExitOnlyIfReplacedOrCommitted` |
| `data_dir_lock` | 3 processes, 3 pids, 2 faults | `LockInv`, `OneHolder`, `HolderIsNamed`, `StaleLockIsReclaimed` |
| `read_until` | 3 frames of up to 4 bytes per connection, all timeouts small and distinct in effect | `WaitInv`, `OnlySilenceIsDeath`, `WaitEndsAtDeadline`, `HandoffWithinBudget`, `ImplementsFrameStream` |
| `reference_supervisor` | 2 listeners, 3 descriptor layouts, 3 children, 3 journal entries, 2 faults | `InstallInv`, `ChildInheritsExactly`, `ListenerByName`, `SlotHoldsLatest`, `ChildrenAccounted`, `JournalDurable`, `TriggerLoopReturns` |

`HandoffInv`, `SurvivalInv`, `DialogueInv`, `PairInv`, `LockInv`, `WaitInv` and
`InstallInv` are inductive invariants of the proofs, checked here as well.

The protocol:

* `OwnerIsWriter`: a process may have its writer open exactly while it holds the
  flock.
* `AcceptingIsResumed`: however a session ended, an incumbent back in `accept`
  owns the data dir and its consumer was told to resume.
* `SealedWhileDriven`: from `SealComplete` until the outcome is known, the
  incumbent of the handoff is sealed or gone.
* `CommittedSuccessorOwns`: O is committed away only in favour of an owner.
* `NoStraySuccessor`: a handoff that did not commit has killed its N before it lets
  go of O.
* `IncumbentSurvives`, `GivesUpToIncumbent`: without a fault (a crash, or a `FatalIo`)
  there is always an incumbent, and one whose recovery times out exits only to another,
  whatever else fails. The exception is real: when N's `bind_socket` fails after Ready,
  S commits O away all the same, and when the recovering O meets an I/O error it exits
  with the lock free; either leaves nobody.
* `NoUnexpectedFrame`: no read of S, O or N ends in `UnexpectedMessage`, also after
  crashes, timeouts and aborts; Commit and ResumeAfterAbort are never refused.
* `NoOrphanedWait`: while `run_session_loop` or `wait_for_begin` blocks on an empty,
  open stream, S is in the handoff that stream belongs to.
* `ImplementsSingleWriter`: every step is a claim of a free data dir, a seal, the
  end of a process, or nothing to the data dir.
* `HandoffReturns`: `perform_handoff` returns whatever its peers do.
* `StoppedConsumerResumes`, `ServiceRestored`: a stopped consumer is resumed or
  replaced, and a handoff without a fault ends with an owner in `accept`.
* `ExitOnlyIfReplacedOrCommitted`: against any peer, an incumbent that does not crash
  leaves only on a Commit for what it sealed, to another owner in its recovery, or
  between two sessions on an I/O error of `accept` or of the recovery's `acquire`.

The lock:

* `OneHolder`: at most one process is inside the lock, over all the inodes the
  lockfile's name may have had.
* `HolderIsNamed`: from the return of `acquire` to the drop, the pidfile names the
  holder; no previous holder's drop and no failed contender disturbs it.
* `StaleLockIsReclaimed`: a dead holder does not keep the data dir, whoever now runs
  under the pid it left behind.

The waits:

* `OnlySilenceIsDeath`: before its deadline a wait gives up only on a peer that was
  silent for `LIVENESS_TIMEOUT`, between two frames and with nothing unread.
* `WaitEndsAtDeadline`: a wait exceeds its deadline by less than one minimal read, plus
  one receive timeout for each byte of a frame it is in the middle of.
* `HandoffWithinBudget`: without such a straddling frame, the three waits together end
  within the drain's own budget, or the total deadline plus the slack and minimal read
  of both the seal and Ready.
* `ImplementsFrameStream`: however the bytes are cut and wherever a timeout falls,
  messages come out whole, once, in order, and nothing is read past junk.

The supervisor process:

* `ChildInheritsExactly`: a program starts with its descriptors in order from 3 and
  nothing else that exec should have closed, whatever numbers they had in S.
* `ListenerByName`: names, numbers and order agree, so that `take` returns the listener
  configured under the name.
* `SlotHoldsLatest`: the slot holds the child committed last, not yet waited for.
* `ChildrenAccounted`: every child not reaped is in the slot, the successor of this
  handoff, or one that outlived the reap grace.
* `JournalDurable`: a restart reads a whole entry, never one older than the last that
  `write_atomic` returned Ok for, through crashes and power failures at every step.
* `TriggerLoopReturns`: nothing that a child, a spawn or a handoff does wedges the loop.

**Bounds.** In `MCHandoff`, three primitives are an incumbent, its successor, and
either a rival cold start or the successor of the second handoff; two connections
are two handoffs, or one and the probe of a restarted supervisor, so a session of a
dead supervisor overlaps with the next. One crash of each kind hits every step of
the others, and one `FatalIo` every place that has one (`MaxIoError`). The five runs
that show a disagreement have no `FatalIo`: they do not need one. At most one unread
heartbeat is queued: a second changes nothing, as its reader returns to the same
place. In `AnyPeer` the peer has one frame unread at a time (O reads one at a time;
with one connection, two give the same result) and writes any number of them. It
does not ask a session to seal that is sealed or sealing already; `repeated_seal` is
about that.

In `DataDirLock`, three processes are a holder and two contenders that meet between
its calls; with three pids a dead holder's pid goes to a contender or to a bystander;
two faults are a death and an I/O error, or two deaths. In `ReadUntil`, a frame has
two bytes of length, so that a cut falls inside the length; base 3 and the chosen
version and payload bytes make a reader that is one byte out of step take them for a
length. Junk is a length above the limit or a payload that does not decode. The
timeouts (`LIVENESS_TIMEOUT` 3, minimal read 1, slack 1, grace 2, total 4, up to 1
before the drain) let the liveness timeout, each deadline and the floor of
`remaining_until` be the one that fires. In `ReferenceSupervisor`, the layouts have
the listeners in place, crossed over, and around a descriptor the supervisor was
started with, the last so high that staging a successor runs out of descriptors;
three children are a cold start and two handoffs, or a cold start, a crash of S and
what follows.

**Deadlock** is checked except in `AnyPeer`, where the
connections run out. In `MCHandoff` the system may rest only with S idle, down, or
out of connections, and every live primitive in `accept` (`Quiescent`).

**Fairness.** `SupervisorFairness`: `perform_handoff` runs on its own thread, all
its waits are bounded, so one of its steps follows (WF); its clock advances while
heartbeats arrive, so a wall-clock test that is passed again and again succeeds once
(SF on the three deadline actions). `HandoffReturns` needs only that.
`PrimitiveFairness`: a live primitive keeps running and its hooks return, which
`Drainable` asks of the consumer. It covers the steps that leave `faults` unchanged,
so that no fault is ever forced. Heartbeats, faults, cold starts, new handoffs and
restarts are not fair. In particular nothing promises that S restarts. `DataDirLock`
assumes that a live process keeps calling `acquire`, that its calls return, and that
a drop that has begun finishes; nobody has to drop. `ReferenceSupervisor` assumes
that the supervisor's thread and a child between fork and exec run: their waits are
bounded. Children's programs and clients owe nothing.

## What the code does not do

Five runs state what a comment or document says and show a behaviour of the code
that contradicts it.

* `abort_keeps_path`: the Ready deadline passes while N is about to announce. N
  writes Ready, binds the control path, and is then killed. O resumes, but the path
  names the dead N: no later handoff reaches O.
* `ready_bound`: S receives Ready before N has bound.
* `supervisor_crash`: S dies after Begin and N initialises for more than two
  seconds. O gives up because the lock is held, then N's Ready fails and N exits.
* `drain_error`: `drain` returns Err and the consumer is never resumed.
* `repeated_seal`: a second SealRequest in a sealed session fails and resumes the
  consumer without the flock. S never sends two.

Further places where a document and the code differ, or where the code's bound is
looser than its wording. They are not runs:

* `journal_set` records the supervisor's own pid as `incumbent_pid`
  (`supervisor.rs:752`).
* `state.rs` promises that a restarted supervisor resumes "from exactly where it left
  off", while `resume_from_journal` probes O and deletes the journal.
* The second attempt of `acquire_or_break_stale` returns `StaleLockBreakRefused` with
  the pid it read then, which may be 0, a dead process's or the caller's own;
  `error.rs:52` calls it a lock "held by live process".
* The doc of `SpawnSpec.deadline` (`supervisor.rs:87`) speaks of one slack. The slacks
  of the seal and of Ready add up, and the drain wait does not look at the deadline
  (`HandoffWithinBudget` states the bound the code has).
* `read_until` looks at its deadline between frames only, so a peer that trickles a
  frame stretches the wait (`WaitEndsAtDeadline` states by how much).
* A listener name with a colon in it shifts the names that follow in
  `LISTEN_FDNAMES`. `ListenerByName` is checked and proved for names without one
  (`PlainNames`).
* A `LISTEN_PID` in the supervisor's own environment reaches its children, which then
  ignore their listeners. `ListenerByName` says so.

## What is proved

All theorems hold for every value of the constants that satisfies the named
assumptions, which TLC evaluates for the instances of the runs.

| Module | Theorems | Assumptions |
|---|---|---|
| `HandoffProofs`, about `Handoff` | `Invariance` (`HandoffInv`), `TypeCorrect`, `OneWriter` (`OwnerIsWriter`), `AcceptingResumed`, `Implements` (`ImplementsSingleWriter`), `ChildInvariance`, `NoStray` (`NoStraySuccessor`), `CommittedOwns` (`CommittedSuccessorOwns`), `SealedInvariance`, `SealedDriven` (`SealedWhileDriven`), `SurvivalInvariance` (`SurvivalInv`), `Survived` (`IncumbentSurvives`), `GaveUp` (`GivesUpToIncumbent`), `DialogueInvariance` (`DialogueInv`), `PairInvariance` (`PairInv`), `FramesExpected` (`NoUnexpectedFrame`), `NobodyForgotten` (`NoOrphanedWait`) | `None` is not a process, bounds are naturals |
| `HandoffProofs`, about `AnyPeer` | `PeerInvariance`, `PeerOneWriter` (`OwnerIsWriter`), `PeerAcceptingResumed` (`AcceptingIsResumed`), `PeerExits` (`ExitOnlyIfReplacedOrCommitted`), `PeerImplements` (`ImplementsSingleWriter`) | the same; the peer does not repeat SealRequest in a session (`~SealsAgain`) |
| `DataDirLockProofs` | `LockInvariance` (`LockInv`), `LockExcludes` (`OneHolder`), `PidfileNamesHolder` (`HolderIsNamed`) | pids are positive (`PidAssumption`), `FaultAssumption` |
| `ReadUntilProofs` | `CodecRoundTrip`, `FrameInvariance`, `ReaderImplements`, `WaitsImplementStream` (`ImplementsFrameStream`), `WaitInvariance` (`WaitInv`), `OnlySilenceKills`, `WaitsEnd`, `HandoffEnds` | `BaseAssumption`, `CodecAssumption`, `TimeAssumption` |
| `ReferenceSupervisorProofs` | `InstallInvariance` (`InstallInv`), `InheritsExactly` (`ChildInheritsExactly`), `JournalSurvives` (`JournalDurable`), `Composes`, `SupervisorKeeps`, `SlotIsLatest`, `AllAccounted`, `FoundByName` (`ListenerByName`) | `FdAssumption`, `EntryAssumption`, `BoundAssumption`, `LayoutAssumption`; `FoundByName`: also `PlainNames` |

`CodecAssumption` is what is left to the constants of the codec: the limit
`MAX_FRAME_BYTES` fits in the length prefix, version and payload together stay within
it, postcard gives different messages different bytes, and junk is a length above the
limit or a payload that is nobody's. `TimeAssumption` says that the minimal read is
positive and not above `LIVENESS_TIMEOUT`. `LayoutAssumption` says that in every
layout the listeners have descriptors of their own, apart from those the
supervisor keeps or was started with, and `PlainNames` that listener names differ and
have no colon in them.

**One writer.** `OwnerIsWriter` alone is not inductive. `OwnershipInv` ties what
a process owns to where it is: nothing before it acquires the flock, the data dir
from there to the session, and within a session whatever `SessionState` says, with
`sealed` set exactly when the consumer is sealed. One action could break it:
`SealErr` resumes the consumer without acquiring, so it must not happen in a sealed
session. The code does not refuse it; it does not happen because S sends
SealRequest once per connection. Hence `SealOnceInv`, which follows SealRequest
from S's program counter through the queue into the session, and `SupervisorInv`,
which says that S has a connection and a child where it uses them. Together they are
`HandoffInv`.

**The successor.** `ChildInv`, inductive with `HandoffInv`, is what S knows of N:
`GuardInv` ties `result` and `child` to where `perform_handoff` is, and `ReadyInv`
says that N has announced wherever a Ready is under way and has no session of its own
before S is idle again.

**The sealed incumbent.** `SealedInv`, inductive with both, is why O stays sealed
while S drives N. S sends nothing between SealRequest and the outcome, so a session
that has sealed waits with nothing to read (`HeldInv`); and a session has its own
process's connection, open (`SessionInv`).

**The incumbent that survives.** `IncumbentSurvives` and `GivesUpToIncumbent` are
about what several processes do at once, and neither is inductive: the last
incumbent could be committed away, or could give up, with a successor that S is
about to kill. `SurvivalInv`, inductive with the three above as long as there is no
fault (`NoFault`), says why not. The branch of an action that is a fault (`Fault`)
is split off first (`FaultSplit`); the errors that are not faults stay in the proof.
A process is `Lasting` when it serves, or is about to, and no Commit is on its way
to it; once the path is bound there is one. To keep that, `CommitInv` says that a
Commit waits alone, in the connection of a sealed session, and that none was written
before S chose to commit; and `StageInv` says how far N can be, by where S is: it
has not begun before Begin was sent, it has died only with no Ready left to read,
and while it has begun and S has not committed, the incumbent waits, sealed. So O
loses its place only to an N that is past Ready, and N is killed only with O still
to be resumed.

**The dialogue.** `NoUnexpectedFrame` says that the `unexpected` arms of the three
roles, and their handoff id checks, are never taken between S, O and N of this build,
whatever crashes, times out or aborts; `NoOrphanedWait`, that O and N, whose reads have
no timeout, never wait for an S that has gone on to something else. Both speak
of the next frame only, and the next frame depends on all that was written before it.
So `DialogueInv`, inductive with `HandoffInv` and `SealedInv`, lists the words that each
queue of S and O can hold: the requests by where the session is (`Asked`), the replies
by where S is (`Readable`), the two against each other (`Turn`: when S
has written SealRequest, say, O has it still to read, is sealing, or has answered
and read everything), and which ends are open (`EndsInv`: what an earlier handoff left
can be read by nobody). `PairInv`, inductive with `HandoffInv` and `ChildInv`, does the
same for the socketpair: what N can find behind HelloAck is Begin, Abort, or Begin and
Abort, with the id HelloAck gave it.

**Any peer.** Of these invariants `HandoffInv` and `SealedInv` speak of S only
where S is past its boot, so with S left in "boot" they are statements about the
incumbent and its sessions (`PeerInv`). They are inductive for `AnyPeer` too: no
frame, id or disconnect breaks them, except a SealRequest to a session that is sealed
or sealing already. That one is the hypothesis `~SealsAgain`, and `repeated_seal`
shows that it is needed.

`HandoffTypeProofs` shows that each action preserves `TypeOK` and `ChildInv`, and which
processes and connections an action touches; `HandoffOwnerProofs`, that each keeps
`HandoffInv` and is a step of `SingleWriter` or a stutter; `HandoffSurvivalProofs`, that
each keeps `SealedInv` and `SurvivalInv`; `HandoffDialogueProofs`, that each keeps
`DialogueInv` and `PairInv`. `HandoffProofs` has the theorems that follow, and those about
`AnyPeer`.

**The lock.** `HoldersInv`: the lockfile's name has only ever had one inode, whoever
is inside the lock has locked it, and the pidfile is its own from the rename on.

**The codec.** `CodecRoundTrip`: `encode` and `poll_read` agree, for every base, prefix
width and limit. What `FromLittleEndian` computes is shown by induction on the width,
which the module derives from the well-foundedness of `<`: a set of widths
without a least element is empty (`LeastElement`, `Induction`), and a function given
by recursion on a range of numbers exists (`Recursion`).

**The waits.** `FrameInv` locates the reader in the stream: while it is in step, `buf`
is the beginning of the next frame and `want` what that frame says. The refinement
follows from it. `WaitInv` adds the clock: when a `read(2)` began, why it will end, and
what has come in since.

**The supervisor process.** `InstallInv` says, for each stage of
`install_inherited_fds`, that the sources not in place yet are safe in `working` and
that nothing else in the table has changed. `JournalInv` adds that a renamed entry is
the one the path names. `Composes` shows that every behaviour of `ReferenceSupervisor`
is one of `InheritedFds` and one of `Journal`, and `SupervisorKeeps` carries their
theorems over. `SlotInv` says which children `main` has, by where it is. `SpawnInv`
says which sources a child between fork and exec was given: the listeners of the
layout in order, and after them, for a successor, its end of the socketpair.
With `ChildInheritsExactly`, and the names joined in `LISTEN_FDNAMES` coming back as
they were (`PlainFdNames`), it gives `ListenerByName`.

**Only model-checked.** The liveness properties `StoppedConsumerResumes`,
`ServiceRestored`, `HandoffReturns`, `StaleLockIsReclaimed` and `TriggerLoopReturns`:
liveness under fairness is outside what the prover does. Every safety property of the
passing runs has a theorem.

## Not modelled

* A second caller of `perform_handoff`. `in_flight` is taken with `try_lock` before
  anything else and is the last local dropped, so the caller returns
  `HandoffInProgress` without touching anything.
* Version negotiation, and the role and pid checks of Hello: one version exists, and
  both ends are this code.
* `SealProgress`: no code sends it; readers skip it like a heartbeat.
* Socket options, credentials, path validation and the peer-uid check: I/O and
  configuration without protocol state. The staging step of `bind_socket` is part of
  an atomic replacement of the path.
* Descriptor flags other than close-on-exec, and the pipe that the standard library
  uses to report a failed exec.
* `try_wait` returning an error, a power failure while a child is between fork and
  exec (the same as one just before or just after), the configuration file and the
  command line of the supervisor.
* `error.rs`, `metrics.rs`, `util.rs`, `lib.rs`: types, names and re-exports.
* The test support library of `handoff-tests`, which is not part of the system.
