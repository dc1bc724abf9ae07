------------------------------ MODULE AnyPeer -------------------------------
(***************************************************************************)
(* The incumbent facing a control peer that respects nothing but the       *)
(* framing: the frames a session takes in any order and with any handoff   *)
(* id, a HelloAck out of place, and a disconnect at any point.  crates/    *)
(* handoff/tests/protocol_violations.rs drives single such sequences.      *)
(* Other processes cold-start and crash meanwhile, so the flock may be     *)
(* taken when it is released.                                              *)
(***************************************************************************)
EXTENDS Incumbent

CONSTANTS
    PeerTypes,      \* the frames the peer sends
    MaxQueue,       \* bound: frames O has not read yet
    SealsAgain      \* whether it asks a sealed session to seal

\* The frames the peer writes; only those O looks the id up in carry one.
Frames ==
    {m \in Message :
        /\ m.type \in PeerTypes
        /\ m.id # 0 <=> m.type \in {"PrepareHandoff", "SealRequest", "Commit",
                                    "ResumeAfterAbort", "Abort"}}

PeerUnchanged == UNCHANGED <<primitiveVars, pipe, spc, child, result, journal, faults>>

PeerConnect ==
    /\ hid > 0 => ~conn[hid].sOpen
    /\ Connectable
    /\ Connect
    /\ PeerUnchanged

\* The session of the current connection is sealed, sealing, or asked to.
Sealing ==
    \/ \E p \in Proc : sess[p].conn = hid /\ (sess[p].sealed \/ pc[p] = "seal")
    \/ \E i \in DOMAIN conn[hid].req : conn[hid].req[i].type = "SealRequest"

\* The peer writes a frame and reads whatever was there for it.
PeerSend ==
    /\ hid > 0
    /\ conn[hid].sOpen
    /\ conn[hid].oOpen
    /\ Len(conn[hid].req) < MaxQueue
    /\ \E m \in Frames :
          /\ m.type = "SealRequest" /\ Sealing => SealsAgain
          /\ conn' = [conn EXCEPT ![hid] = [Request(@, m) EXCEPT !.rsp = <<>>]]
    /\ UNCHANGED hid
    /\ PeerUnchanged

PeerClose ==
    /\ hid > 0
    /\ conn[hid].sOpen
    /\ conn' = [conn EXCEPT ![hid] = CloseS(@)]
    /\ UNCHANGED hid
    /\ PeerUnchanged

PeerNext ==
    \/ PeerConnect \/ PeerSend \/ PeerClose
    \/ \E p \in Proc : \/ ColdStart(p) \/ BindColdStart(p) \/ ProcCrash(p)
                       \/ ServeStep(p) \/ HeartbeatDuringHook(p)

PeerSpec == Init /\ [][PeerNext]_vars
-----------------------------------------------------------------------------
\* A process leaves its data dir to others for good only when told to: unless it
\* crashes, the incumbent exits only on a Commit for the handoff it sealed; in the
\* recovery of serve, because another process has the flock that it released; or,
\* between two sessions, on a fatal error of accept or an I/O error of the acquire in
\* that recovery.  No frame ends it in any other way.
ExitOnlyIfReplacedOrCommitted ==
    [][\A p \in Proc :
          (pc[p] \in ServePC /\ pc'[p] = "dead" /\ faults'.p = faults.p) =>
             \/ /\ consumer[p] = "sealed"
                /\ \/ pc[p] = "recover" /\ flock # None
                   \/ sess[p].sealed /\ Head(conn[C(p)].req) = Msg("Commit", sess[p].active)
             \/ pc[p] \in {"accept", "recover"} /\ faults'.io > faults.io]_vars

\* A seal that fails leaves the lock held: the consumer it resumes serves under
\* the flock.
ResumedHoldsLock == \A p \in Proc : consumer[p] = "serving" => flock = p
=============================================================================
