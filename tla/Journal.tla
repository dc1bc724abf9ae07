------------------------------ MODULE Journal ------------------------------
(***************************************************************************)
(* The handoff journal on disk: StateJournal::write_atomic and delete, step*)
(* by step, over a file system that loses what was not synced when the     *)
(* power fails and nothing when only the process dies.                     *)
(***************************************************************************)
EXTENDS Integers

CONSTANT MaxEntry       \* a bound on the entries written

ASSUME EntryAssumption == MaxEntry \in Nat

VARIABLES
    writing,    \* how far write_atomic has got
    last,       \* the number of the newest entry written or being written
    file,       \* the entry the journal's path names, or NoEntry
    disk,       \* what the path may name after a power failure
    settled,    \* auxiliary: the newest entry whose write_atomic returned Ok
    cleared     \* auxiliary: the journal was deleted since

journalVars == <<writing, last, file, disk, settled, cleared>>

NoEntry == 0
Torn == -1              \* a file that does not decode
Entry == 1..MaxEntry

JournalTypeOK ==
    /\ writing \in {"no", "open", "written", "synced", "renamed"}
    /\ last \in 0..MaxEntry /\ settled \in 0..last
    /\ file \in Entry \cup {NoEntry, Torn} /\ disk \subseteq Entry \cup {NoEntry, Torn}
    /\ cleared \in BOOLEAN

JournalInit ==
    /\ writing = "no" /\ last = 0 /\ file = NoEntry /\ disk = {NoEntry}
    /\ settled = 0 /\ cleared = FALSE

\* The temporary file is created, or truncated when an earlier write left one.
OpenTmp ==
    /\ writing = "no" /\ last < MaxEntry
    /\ writing' = "open" /\ last' = last + 1
    /\ UNCHANGED <<file, disk, settled, cleared>>

WriteTmp ==
    /\ writing = "open" /\ writing' = "written"
    /\ UNCHANGED <<last, file, disk, settled, cleared>>

SyncTmp ==
    /\ writing = "written" /\ writing' = "synced"
    /\ UNCHANGED <<last, file, disk, settled, cleared>>

\* A rename can reach the disk before data that was not synced.
OnDisk == IF writing = "synced" THEN {last} ELSE {last, Torn}

\* The path names the new entry at once; on disk it may still name an older one.
Rename ==
    /\ writing = "synced" /\ writing' = "renamed"
    /\ file' = last /\ disk' = disk \cup OnDisk
    /\ UNCHANGED <<last, settled, cleared>>

\* Seeded fault: write_atomic returns without the fsync of the directory.
FsyncDir_Skipped ==
    /\ writing = "renamed" /\ writing' = "no"
    /\ settled' = last /\ cleared' = FALSE
    /\ UNCHANGED <<last, file, disk>>

FsyncDir ==
    /\ writing = "renamed" /\ writing' = "no"
    /\ disk' = disk \cap {file, Torn}      \* the name is settled, not the data
    /\ settled' = last /\ cleared' = FALSE
    /\ UNCHANGED <<last, file>>

\* An I/O error ends write_atomic where it is.
WriteFails ==
    /\ writing # "no" /\ writing' = "no"
    /\ UNCHANGED <<last, file, disk, settled, cleared>>

WriteStep == WriteTmp \/ SyncTmp \/ Rename \/ FsyncDir

\* remove_file without an fsync: after a power failure the entry may be back.
Delete ==
    /\ writing = "no"
    /\ file' = NoEntry /\ disk' = disk \cup {NoEntry} /\ cleared' = TRUE
    /\ UNCHANGED <<writing, last, settled>>

\* The writer dies; the file system goes on.
WriterDies == writing' = "no" /\ UNCHANGED <<last, file, disk, settled, cleared>>

PowerFails ==
    /\ file' \in disk /\ disk' = {file'}
    /\ writing' = "no"
    /\ UNCHANGED <<last, settled, cleared>>

JournalNext == OpenTmp \/ WriteStep \/ WriteFails \/ Delete \/ WriterDies \/ PowerFails

JournalSpec == JournalInit /\ [][JournalNext]_journalVars
-----------------------------------------------------------------------------
\* What a restarted supervisor reads is a whole entry, and never one older than the
\* last that write_atomic returned Ok for ("a journaled phase that silently rolls
\* back", state.rs:59); a journal that was written is missing only if it was
\* deleted. It holds through process crashes and power failures at every step.
JournalDurable ==
    \A e \in disk \cup {file} : e # Torn /\ (e >= settled \/ (e = NoEntry /\ cleared))

\* With what makes it inductive: once renamed, the entry being written is the one the
\* path names, so that the fsync of the directory settles that one.
JournalInv ==
    /\ JournalTypeOK
    /\ writing # "no" => last \in Entry
    /\ writing = "renamed" => file = last
    /\ JournalDurable
=============================================================================
