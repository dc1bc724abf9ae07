-------------------------- MODULE HandoffInvariant --------------------------
(***************************************************************************)
(* The inductive invariant behind OwnerIsWriter and AcceptingIsResumed.    *)
(* Where a primitive is in its code fixes what it owns, except that a      *)
(* second seal of a sealed consumer could fail and resume it without the   *)
(* flock; so the invariant also follows SealRequest through the connection *)
(* and says that S sends it once.                                          *)
(***************************************************************************)
EXTENDS Handoff

BeforeFlock == {"unborn", "dead", "spawned", "handshake", "wait_for_begin", "begun"}
Owning == {"cold_bind", "locked", "announced", "accept", "hello_ack"}
InLoop == {"loop", "drain", "seal", "seal_complete"}

\* What p has, by where it is.
OwnershipInv(p) ==
    /\ pc[p] \in BeforeFlock => consumer[p] = "none"
    /\ pc[p] \in Owning => consumer[p] \in {"serving", "resume_failed", "drain_failed"}
    /\ pc[p] = "recover" => consumer[p] = "sealed"
    /\ pc[p] \in InLoop =>
          /\ sess[p].conn # 0
          /\ consumer[p] # "none"
          /\ consumer[p] = "sealed" <=> sess[p].sealed
          /\ consumer[p] = "drained" => sess[p].drained
    /\ pc[p] \notin InLoop => ~sess[p].sealed /\ ~sess[p].drained
    /\ pc[p] = "hello_ack" => sess[p].conn # 0
    /\ pc[p] = "seal" => ~sess[p].sealed

NoSealRequest(q) == \A i \in DOMAIN q : q[i].type # "SealRequest"
OneSealRequest(q) ==
    \A i, j \in DOMAIN q : (q[i].type = "SealRequest" /\ q[j].type = "SealRequest") => i = j

\* p has taken the SealRequest of its session.
SealTaken(p) == sess[p].sealed \/ pc[p] \in {"seal", "seal_complete"}

\* S has not sent the SealRequest of this handoff yet.
BeforeSealRequest == {"hello_o", "spawn", "hello_n", "negotiating", "prepare", "drained",
                      "draining", "seal_request"}

\* SealRequest is sent and taken once per connection.
SealOnceInv ==
    /\ \A c \in Conn : OneSealRequest(conn[c].req) /\ (conn[c].oOpen => c <= hid)
    /\ \A p \in Proc :
          /\ sess[p].conn <= hid
          /\ SealTaken(p) => NoSealRequest(conn[sess[p].conn].req)
    /\ spc \in BeforeSealRequest =>
          /\ NoSealRequest(conn[hid].req)
          /\ \A p \in Proc : sess[p].conn = hid => ~SealTaken(p)

\* S has a connection to O, and a child, where it uses them.
SupervisorInv ==
    /\ spc \notin {"down", "boot", "probe_clear", "idle"} => hid # 0
    /\ spc \notin {"down", "boot", "probe", "probe_clear", "idle", "hello_o", "spawn",
                   "return"} => child # None

\* Why the data dir has one writer: inductive.
HandoffInv ==
    /\ TypeOK
    /\ SupervisorInv
    /\ OwnerIsWriter
    /\ \A p \in Proc : OwnershipInv(p)
    /\ SealOnceInv
-----------------------------------------------------------------------------
(***************************************************************************)
(* What S knows of the successor it spawned: inductive with HandoffInv,    *)
(* and behind NoStraySuccessor and CommittedSuccessorOwns.                 *)
(***************************************************************************)
\* The locals of perform_handoff: result is set with the step that returns.
GuardInv ==
    /\ child # None => pc[child] # "unborn"
    /\ spc \in {"down", "boot", "probe", "probe_clear"} => child = None
    /\ spc = "committed" => result = "committed"
    /\ result = "committed" => spc \in {"committed", "clear", "return", "idle"}
    /\ NoStraySuccessor

\* A successor of the handoff under way has no session: nobody has connected to it.
Starting == SuccessorPC \cup {"accept", "dead"}
Announced == {"announced", "accept", "dead"}
NoReady(w) == \A i \in DOMAIN w.toS : w.toS[i].type # "Ready"

ReadyInv ==
    /\ \A p \in Proc, c \in Conn : pc[p] = "unborn" => conn[c].o # p
    /\ (child # None /\ spc # "idle") =>
          /\ \A c \in Conn : conn[c].o # child
          /\ pc[child] \in Starting
          /\ pc[child] \in Announced \/ NoReady(pipe[child])
    /\ (spc = "commit" \/ (result = "committed" /\ spc # "idle")) =>
          child # None /\ pc[child] \in Announced

ChildInv == GuardInv /\ ReadyInv
-----------------------------------------------------------------------------
(***************************************************************************)
(* Why O stays sealed while S drives N: inductive with the two above, and  *)
(* behind SealedWhileDriven. S sends nothing between SealRequest and the   *)
(* outcome, so a session that has sealed waits with nothing to read.       *)
(***************************************************************************)
SessionPC == {"hello_ack"} \cup InLoop

\* A session has its own process's connection, open.
SessionInv ==
    \A p \in Proc :
       /\ sess[p].conn # 0 =>
             /\ pc[p] \in SessionPC
             /\ conn[sess[p].conn].o = p /\ conn[sess[p].conn].oOpen
       /\ pc[p] = "seal_complete" => sess[p].sealed

SealAnswered(k) == \E i \in DOMAIN k.rsp : k.rsp[i].type = "SealComplete"
SealRequestLast(q) == \A i \in DOMAIN q : q[i].type = "SealRequest" => i = Len(q)

\* The incumbent of this handoff waits, sealed, or is gone.
Held ==
    \/ pc[conn[hid].o] = "dead"
    \/ /\ pc[conn[hid].o] = "loop" /\ sess[conn[hid].o].conn = hid /\ sess[conn[hid].o].sealed
       /\ conn[hid].req = <<>>

HeldInv ==
    /\ InHandoff => conn[hid].o \in Proc /\ conn[hid].sOpen
    /\ spc \in BeforeSealRequest => ~SealAnswered(conn[hid])
    /\ spc = "seal" =>
          /\ SealRequestLast(conn[hid].req)
          /\ \A p \in Proc : sess[p].conn = hid /\ SealTaken(p) => conn[hid].req = <<>>
          /\ SealAnswered(conn[hid]) => Held
    /\ spc \in Driving => Held

SealedInv == SessionInv /\ HeldInv
-----------------------------------------------------------------------------
(***************************************************************************)
(* Why an incumbent survives every handoff without a fault:                *)
(* inductive with the three above, and behind IncumbentSurvives and        *)
(* GivesUpToIncumbent.  O can be told to exit only once N has announced    *)
(* Ready, and N can be killed only while O waits, sealed, for the outcome. *)
(***************************************************************************)
Has(q, type) == \E i \in DOMAIN q : q[i].type = type

\* p was told to exit and has not read it yet.
Retired(p) == \E c \in Conn : conn[c].o = p /\ Has(conn[c].req, "Commit")

\* p is, or is about to be, in serve, and was not told to leave it.
Serving == ServePC \cup {"cold_bind", "announced"}
Lasting(p) == pc[p] \in Serving /\ ~Retired(p)

\* A successor that S has not heard Ready from.
Unannounced == {"spawned", "handshake", "wait_for_begin", "begun", "locked"}

\* N was told to begin, and may take the flock or has taken it.
Begun(p) ==
    \/ pc[p] \in {"begun", "locked", "announced", "accept"}
    \/ pc[p] \in {"spawned", "handshake", "wait_for_begin"} /\ Has(pipe[p].toN, "Begin")

BeforeBegin == BeforeSealRequest \cup {"seal", "sealing", "begin"}
Unwinding == {"kill_clear", "kill_resume", "kill_return", "resume", "resuming", "clear",
              "return"}

\* The incumbent of this handoff waits, sealed and alive.
Waiting == Held /\ pc[conn[hid].o] # "dead"

\* A Commit waits alone, and only for a sealed incumbent.
CommitInv ==
    /\ \A c \in Conn :
          Has(conn[c].req, "Commit") =>
             /\ conn[c].o \in Proc /\ Len(conn[c].req) = 1
             /\ pc[conn[c].o] = "loop" /\ sess[conn[c].o].conn = c /\ sess[conn[c].o].sealed
    /\ (InHandoff /\ result # "committed") => ~Has(conn[hid].req, "Commit")

\* How far the successor of the handoff under way is, by where S is.
StageInv ==
    /\ \A p \in Proc : pc[p] \in Unannounced => p = child /\ InHandoff
    /\ spc \in {"hello_o", "spawn"} => child = None
    /\ spc \in Unwinding => result # "none"
    /\ child # None =>
          /\ spc \in BeforeBegin => ~Begun(child)
          /\ spc \in BeforeBegin \cup {"awaiting_ready", "ready"} =>
                pc[child] # "dead" \/ NoReady(pipe[child])
          /\ InHandoff /\ result # "committed" /\ Begun(child) => Waiting
    /\ spc \in Driving => Waiting
    /\ spc = "seal" /\ SealAnswered(conn[hid]) => Waiting
    /\ spc = "commit" \/ (result = "committed" /\ spc # "idle") => pc[child] # "dead"

\* As long as there was no fault, Commit waits only for a sealed incumbent
\* and is sent only while N lives, a successor that S may still kill has a
\* sealed incumbent behind it, and once the path is bound some process serves
\* or is about to, with no Commit on its way: what the order of SealRequest,
\* Begin, Ready and Commit in perform_handoff is for.
SurvivalInv ==
    NoFault =>
       /\ CommitInv
       /\ StageInv
       /\ path # None => \E p \in Proc : Lasting(p)
-----------------------------------------------------------------------------
(***************************************************************************)
(* Why no role meets a frame it does not expect: inductive with HandoffInv *)
(* and SealedInv (and, for N, ChildInv), and behind NoUnexpectedFrame and  *)
(* NoOrphanedWait.  Each queue holds one of the few words that S and its   *)
(* peer, both where they are in their code, can have left in it.           *)
(***************************************************************************)
\* What the session of p waits for, or does.
AwaitsAck(p) == pc[p] = "hello_ack" /\ sess[p].active = 0
AwaitsPrepare(p) ==
    pc[p] = "loop" /\ sess[p].active = 0 /\ ~sess[p].drained /\ ~sess[p].sealed
Drains(p) == pc[p] = "drain" /\ sess[p].active = C(p) /\ ~sess[p].sealed
AwaitsSeal(p) ==
    pc[p] = "loop" /\ sess[p].active = C(p) /\ sess[p].drained /\ ~sess[p].sealed
Seals(p) == pc[p] \in {"seal", "seal_complete"} /\ sess[p].active = C(p)
AwaitsOutcome(p) == pc[p] = "loop" /\ sess[p].active = C(p) /\ sess[p].sealed

\* The requests unread by the session of p.
Asked(p) ==
    LET q == conn[C(p)].req
        m(type) == Msg(type, C(p))
    IN  \/ AwaitsAck(p) /\ q \in {<<>>, <<m("HelloAck")>>, <<m("HelloAck"), m("PrepareHandoff")>>}
        \/ AwaitsPrepare(p) /\ q \in {<<>>, <<m("PrepareHandoff")>>}
        \/ Drains(p) /\ q = <<>>
        \/ AwaitsSeal(p) /\ q \in {<<>>, <<m("SealRequest")>>}
        \/ Seals(p) /\ q = <<>>
        \/ AwaitsOutcome(p) /\ q \in {<<>>, <<m("Commit")>>, <<m("ResumeAfterAbort")>>}

\* S has an end of a connection open only in the handoff, or the probe, it was made
\* for, and O only while it serves; nothing waits in a closed end or in the backlog.
EndsInv ==
    \A c \in Conn :
       /\ conn[c].sOpen => c = hid /\ (InHandoff \/ spc = "probe")
       /\ conn[c].oOpen => conn[c].o \in Proc /\ pc[conn[c].o] \in ServePC
       /\ ~conn[c].oOpen => conn[c].req = <<>>
       /\ (conn[c].oOpen /\ C(conn[c].o) # c) => conn[c].req = <<>> /\ conn[c].rsp = <<>>

Beat == Msg("Heartbeat", 0)
Quiet == {<<>>, <<Beat>>}

\* At most a heartbeat, then at most one answer m.
Replies(m) == {<<>>, <<Beat>>, <<m>>, <<Beat, m>>}

\* The replies S may still read from O.
Readable(q) ==
    /\ spc \in {"probe", "hello_o"} => q \in {<<>>, <<Msg("Hello", 0)>>}
    /\ spc \in {"spawn", "hello_n", "negotiating", "prepare", "draining", "seal_request"} =>
          q = <<>>
    /\ spc = "drained" => q \in Replies(Msg("Drained", 0))
    /\ spc = "seal" => q \in Replies(Msg("SealComplete", hid)) \cup Replies(Msg("SealFailed", hid))

\* How far the session of the handoff under way is, o being its incumbent.
Turn(o) ==
    /\ spc \in {"probe", "hello_o"} =>
          (C(o) = hid => AwaitsAck(o) /\ O.req = <<>>)
    /\ spc \in {"spawn", "hello_n", "negotiating", "prepare"} =>
          /\ C(o) = hid
          /\ \/ AwaitsAck(o) /\ O.req = <<Msg("HelloAck", hid)>>
             \/ AwaitsPrepare(o) /\ O.req = <<>>
    /\ spc = "drained" =>
          /\ C(o) = hid
          /\ \/ /\ AwaitsAck(o) /\ O.rsp = <<>>
                /\ O.req = <<Msg("HelloAck", hid), Msg("PrepareHandoff", hid)>>
             \/ AwaitsPrepare(o) /\ O.req = <<Msg("PrepareHandoff", hid)>> /\ O.rsp = <<>>
             \/ Drains(o) /\ O.rsp \in Quiet
             \/ AwaitsSeal(o) /\ O.req = <<>>
    /\ spc \in {"draining", "seal_request"} =>
          C(o) = hid /\ AwaitsSeal(o) /\ O.req = <<>>
    /\ spc = "seal" =>
          /\ C(o) = hid
          /\ \/ AwaitsSeal(o) /\ O.req = <<Msg("SealRequest", hid)>> /\ O.rsp = <<>>
             \/ Seals(o) /\ O.rsp \in Quiet
             \/ AwaitsOutcome(o) /\ O.req = <<>>
             \/ AwaitsPrepare(o) /\ O.req = <<>>

\* What S and O have left in the connections.
DialogueInv ==
    /\ EndsInv
    /\ \A p \in Proc : C(p) # 0 => Asked(p)
    /\ spc \notin {"down", "boot", "probe_clear", "idle"} =>
          Readable(O.rsp) /\ (O.oOpen => Turn(O.o))

\* The orders unread by N, once it has the id i from HelloAck.
Orders(i) == {<<>>, <<Msg("Begin", i)>>, <<Msg("Abort", i)>>, <<Msg("Begin", i), Msg("Abort", i)>>}

\* The same words behind HelloAck.
FirstOrders(i) ==
    {<<Msg("HelloAck", i)>>, <<Msg("HelloAck", i), Msg("Begin", i)>>,
     <<Msg("HelloAck", i), Msg("Abort", i)>>,
     <<Msg("HelloAck", i), Msg("Begin", i), Msg("Abort", i)>>}

\* What p has to read while it starts up; S has one socketpair open, its child's.
OrdersInv(p) ==
    /\ pipe[p].sOpen => p = child /\ InHandoff
    /\ pc[p] = "spawned" => pipe[p].toN = <<>>
    /\ pc[p] = "handshake" => pipe[p].toN = <<>> \/ \E i \in Id : pipe[p].toN \in FirstOrders(i)
    /\ pc[p] = "wait_for_begin" => pipe[p].toN \in Orders(pipe[p].id)

\* From HelloAck to Begin S has nothing to read from n.
Greeted == {"negotiating", "prepare", "drained", "draining", "seal_request", "seal", "sealing",
            "begin"}

\* How far n, the child of S, has come, and what is unread between the two.
Stage(n) ==
    LET w == pipe[n] IN
    /\ spc = "hello_n" =>
          /\ w.toN = <<>>
          /\ \/ pc[n] = "spawned" /\ w.toS = <<>>
             \/ pc[n] = "handshake" /\ w.toS = <<Msg("Hello", 0)>>
             \/ pc[n] = "dead" /\ w.toS \in {<<>>, <<Msg("Hello", 0)>>}
    /\ spc \in Greeted =>
          /\ w.toS = <<>>
          /\ \/ pc[n] = "handshake" /\ w.toN = <<Msg("HelloAck", hid)>>
             \/ pc[n] = "wait_for_begin" /\ w.id = hid /\ w.toN = <<>>
             \/ pc[n] = "dead"
    /\ spc \in {"awaiting_ready", "ready"} =>
          \/ /\ pc[n] = "handshake" /\ w.toS = <<>>
             /\ w.toN = <<Msg("HelloAck", hid), Msg("Begin", hid)>>
          \/ /\ pc[n] = "wait_for_begin" /\ w.toS = <<>>
             /\ w.id = hid /\ w.toN = <<Msg("Begin", hid)>>
          \/ pc[n] \in {"begun", "locked"} /\ w.id = hid /\ w.toS \in Quiet
          \/ pc[n] \in Announced /\ w.toS \in Replies(Msg("Ready", hid))

\* What S and N have left in the socketpairs.
PairInv ==
    /\ \A p \in Proc : OrdersInv(p)
    /\ spc \in {"hello_o", "spawn"} => child = None
    /\ child # None => Stage(child)
=============================================================================
