----------------------- MODULE HandoffDialogueProofs ------------------------
(***************************************************************************)
(* DialogueInv and PairInv are inductive.  First the connections of S and  *)
(* O: a primitive's step, from the accept of a connection to the end of    *)
(* its session, and S's steps.  Then the socketpairs of S and N.  Last,    *)
(* what the two say of the next frame and of who waits.                    *)
(***************************************************************************)
EXTENDS HandoffTypeProofs

USE NoneAssumption, BoundAssumption
-----------------------------------------------------------------------------
\* The words of one or two frames that the queues hold.
LEMMA Words ==
    ASSUME NEW a, NEW b
    PROVE  /\ Append(<<>>, a) = <<a>> /\ Append(<<a>>, b) = <<a, b>>
           /\ Head(<<a>>) = a /\ Head(<<a, b>>) = a
           /\ Tail(<<a>>) = <<>> /\ Tail(<<a, b>>) = <<b>>
           /\ <<a>> # <<>> /\ <<a, b>> # <<>>
<1>1. Append(<<>>, a) = <<a>> OBVIOUS
<1>2. Append(<<a>>, b) = <<a, b>>
  <2>1. <<a>> \in Seq({a, b}) /\ b \in {a, b} OBVIOUS
  <2>2. /\ Append(<<a>>, b) \in Seq({a, b}) /\ Len(Append(<<a>>, b)) = 2
        /\ Append(<<a>>, b)[1] = a /\ Append(<<a>>, b)[2] = b
    BY <2>1
  <2>3. Append(<<a>>, b) = [i \in 1..2 |-> Append(<<a>>, b)[i]] BY <2>2
  <2>4. <<a, b>> = [i \in 1..2 |-> <<a, b>>[i]] OBVIOUS
  <2>5. \A i \in 1..2 : Append(<<a>>, b)[i] = <<a, b>>[i] BY <2>2
  <2> QED BY <2>3, <2>4, <2>5, ZenonT(30)
<1>3. Head(<<a>>) = a /\ Head(<<a, b>>) = a OBVIOUS
<1>4. Tail(<<a>>) = <<>> OBVIOUS
<1>5. Tail(<<a, b>>) = <<b>> OBVIOUS
<1>6. <<a>> # <<>> /\ <<a, b>> # <<>> OBVIOUS
<1> QED BY <1>1, <1>2, <1>3, <1>4, <1>5, <1>6

\* An open connection stays so.
Same(k, l) == l.o = k.o /\ l.sOpen = k.sOpen /\ l.oOpen = k.oOpen

\* What an endpoint's action leaves of a connection.
LEMMA QueueFields ==
    ASSUME NEW k \in ConnState, NEW m
    PROVE  /\ Same(k, Request(k, m)) /\ Request(k, m).req = Append(k.req, m) /\ Request(k, m).rsp = k.rsp
           /\ Same(k, Reply(k, m)) /\ Reply(k, m).req = k.req /\ Reply(k, m).rsp = Append(k.rsp, m)
           /\ Same(k, TakeRequest(k)) /\ TakeRequest(k).req = Tail(k.req) /\ TakeRequest(k).rsp = k.rsp
           /\ Same(k, TakeReply(k)) /\ TakeReply(k).req = k.req /\ TakeReply(k).rsp = Tail(k.rsp)
           /\ Same(k, Answer(k, <<>>)) /\ Answer(k, <<>>).req = Tail(k.req) /\ Answer(k, <<>>).rsp = k.rsp
<1>1. k.rsp \o <<>> = k.rsp
  BY DEF ConnState
<1> QED BY <1>1 DEF ConnState, Request, Reply, TakeRequest, TakeReply, Answer, Same

\* What is left of a connection when an end closes.
LEMMA ClosedFields ==
    ASSUME NEW k \in ConnState
    PROVE  /\ ~CloseO(k).oOpen /\ CloseO(k).req = <<>> /\ (CloseO(k).sOpen => k.sOpen)
           /\ CloseO(k).rsp = k.rsp \/ CloseO(k).rsp = <<>>
           /\ ~CloseS(k).sOpen /\ CloseS(k).rsp = <<>> /\ CloseS(k).oOpen = k.oOpen
           /\ k.oOpen => CloseS(k).o = k.o /\ CloseS(k).req = k.req
           /\ ~k.oOpen => CloseS(k).req = <<>>
  BY ZenonT(30) DEF ConnState, CloseO, CloseS, NoConn

\* Where S has no connection.
Away == {"down", "boot", "probe_clear", "idle"}

\* Where S reads no more frames of O.
Past == Driving \cup Unwinding \cup {"committed"}

\* Past the seal, O's queues are no longer S's business; and an empty queue always is
\* one that S may find.
LEMMA NoTurn ==
    ASSUME NEW q, NEW o
    PROVE  /\ spc \in Past => Readable(q) /\ Turn(o)
           /\ Readable(<<>>)
  BY Zenon DEF Past, Driving, Unwinding, Readable, Turn, Replies

\* S stays where it is, or past the seal.
Steady == hid' = hid /\ (spc' = spc \/ (spc \in Past /\ spc' \in Past))

\* What S may find past the seal, and where it stays.
LEMMA ReadableKept ==
    ASSUME Steady, NEW q
    PROVE  /\ (spc \notin Away)' => spc \notin Away
           /\ (InHandoff \/ spc = "probe") => (InHandoff \/ spc = "probe")'
           /\ Readable(q) => Readable(q)'
  BY Zenon DEF Steady, Past, Driving, Unwinding, Away, InHandoff, Readable

\* The session of the handoff under way waits for somebody else's turn.
LEMMA TurnKept ==
    ASSUME Steady, NEW o, Turn(o),
           \/ C(o) # hid /\ C(o)' # hid
           \/ O' = O /\ pc'[o] = pc[o] /\ sess'[o] = sess[o]
    PROVE  Turn(o)'
<1>0. CASE spc' \in Past BY <1>0, Zenon DEF Turn, Past, Driving, Unwinding
<1>1. CASE C(o) # hid /\ C(o)' # hid /\ spc' = spc
  BY <1>1, Zenon DEF Turn, Steady
<1>2. CASE O' = O /\ pc'[o] = pc[o] /\ sess'[o] = sess[o] /\ spc' = spc
  BY <1>2, Zenon DEF Turn, Steady, O, C, AwaitsAck, AwaitsPrepare, Drains, AwaitsSeal, Seals, AwaitsOutcome
<1> QED BY <1>0, <1>1, <1>2, Zenon DEF Steady

\* A step of p keeps what DialogueInv says of its connection c.
Keeps(p, c) ==
    /\ conn'[c].sOpen => conn[c].sOpen
    /\ conn'[c].oOpen => conn'[c].o = p /\ conn[c].oOpen /\ pc'[p] \in ServePC
    /\ ~conn'[c].oOpen => conn'[c].req = <<>>
    /\ (conn'[c].oOpen /\ C(p)' # c) => conn'[c].req = <<>> /\ conn'[c].rsp = <<>>
    /\ (c = hid /\ spc \notin Away) =>
          Readable(conn[c].rsp)' /\ (conn'[c].oOpen => Turn(p)')

\* A primitive's step keeps DialogueInv if it does so for its own connections.
LEMMA PrimitiveDialogue ==
    ASSUME HandoffInv, SealedInv, DialogueInv, NEW p \in Proc, Steady,
           \A q \in Proc : q # p => pc'[q] = pc[q] /\ sess'[q] = sess[q],
           \A c \in Conn : conn[c].o # p => conn'[c] = conn[c],
           \A c \in Conn : conn[c].o = p => Keeps(p, c),
           C(p)' # 0 => Asked(p)'
    PROVE  DialogueInv'
<1>1. EndsInv'
  <2> SUFFICES ASSUME NEW c \in Conn
               PROVE  /\ conn'[c].sOpen => c = hid' /\ (InHandoff \/ spc = "probe")'
                      /\ conn'[c].oOpen => conn'[c].o \in Proc /\ pc'[conn'[c].o] \in ServePC
                      /\ ~conn'[c].oOpen => conn'[c].req = <<>>
                      /\ (conn'[c].oOpen /\ sess'[conn'[c].o].conn # c) =>
                            conn'[c].req = <<>> /\ conn'[c].rsp = <<>>
    BY Zenon DEF EndsInv, InHandoff, C
  <2>0. hid' = hid /\ ((InHandoff \/ spc = "probe") => (InHandoff \/ spc = "probe")')
    BY ReadableKept, Zenon DEF Steady
  <2>1. /\ conn[c].sOpen => c = hid /\ (InHandoff \/ spc = "probe")
        /\ conn[c].oOpen => conn[c].o \in Proc /\ pc[conn[c].o] \in ServePC
        /\ ~conn[c].oOpen => conn[c].req = <<>>
        /\ (conn[c].oOpen /\ sess[conn[c].o].conn # c) =>
              conn[c].req = <<>> /\ conn[c].rsp = <<>>
    BY Zenon DEF DialogueInv, EndsInv, C
  <2>2. CASE conn[c].o = p
    <3>1. /\ conn'[c].sOpen => conn[c].sOpen
          /\ conn'[c].oOpen => conn'[c].o = p /\ conn[c].oOpen /\ pc'[p] \in ServePC
          /\ ~conn'[c].oOpen => conn'[c].req = <<>>
          /\ (conn'[c].oOpen /\ sess'[p].conn # c) => conn'[c].req = <<>> /\ conn'[c].rsp = <<>>
      BY <2>2, Zenon DEF C, Keeps
    <3> QED BY <2>0, <2>1, <2>2, <3>1, SMT
  <2>3. CASE conn[c].o # p BY <2>0, <2>1, <2>3, SMT
  <2> QED BY <2>2, <2>3, Zenon
<1>2. ASSUME NEW q \in Proc, C(q)' # 0 PROVE Asked(q)'
  <2>1. CASE q = p BY <1>2, <2>1, Zenon
  <2>2. CASE q # p
    <3>1. C(q) # 0 /\ sess'[q] = sess[q] /\ pc'[q] = pc[q] BY <1>2, <2>2, Zenon DEF C
    <3>2. C(q) \in Conn
      BY <3>1, InvariantFacts DEF C, SessionState, Id, Conn
    <3>3. conn'[C(q)] = conn[C(q)]
      BY <2>2, <3>1, <3>2, Zenon DEF SealedInv, SessionInv, C
    <3>4. Asked(q) BY <3>1, Zenon DEF DialogueInv
    <3> QED
      BY <3>1, <3>3, <3>4, Zenon DEF Asked, C, AwaitsAck, AwaitsPrepare, Drains, AwaitsSeal,
         Seals, AwaitsOutcome
  <2> QED BY <2>1, <2>2, Zenon
<1>3. ASSUME (spc \notin Away)' PROVE Readable(O.rsp)' /\ (O.oOpen => Turn(O.o))'
  <2>0. spc \notin Away /\ hid' = hid BY <1>3, ReadableKept, Zenon DEF Steady
  <2>1. hid \in Conn BY <2>0, SupervisorUses, Zenon DEF Away
  <2>2. Readable(O.rsp) /\ (O.oOpen => Turn(O.o)) BY <2>0, Zenon DEF DialogueInv, Away
  <2>3. CASE O.o = p
    BY <2>0, <2>1, <2>3, Zenon DEF O, Keeps
  <2>4. CASE O.o # p
    <3>1. O' = O BY <2>0, <2>1, <2>4, Zenon DEF O
    <3>2. Readable(O.rsp)' BY <2>2, <3>1, ReadableKept, Zenon
    <3>3. ASSUME O.oOpen PROVE Turn(O.o)'
      <4> DEFINE o == O.o
      <4>1. o \in Proc BY <2>1, <3>3, Zenon DEF DialogueInv, EndsInv, O
      <4>2. pc'[o] = pc[o] /\ sess'[o] = sess[o] BY <2>4, <4>1, Zenon
      <4>3. Turn(o) BY <2>2, <3>3, Zenon
      <4> HIDE DEF o
      <4>4. \A r : r = o => Turn(r)'
        BY <3>1, <4>2, <4>3, TurnKept, Zenon
      <4> QED BY <3>1, <4>4, Zenon DEF o
    <3> QED BY <3>1, <3>2, <3>3, Zenon
  <2> QED BY <2>3, <2>4, Zenon
<1> QED BY <1>1, <1>2, <1>3, Zenon DEF DialogueInv, Away

\* Of a connection in p's backlog nothing changes.
LEMMA BacklogKept ==
    ASSUME HandoffInv, DialogueInv, NEW p \in Proc, UNCHANGED <<spc, hid>>,
           NEW c \in Conn, conn[c].o = p, conn[c].oOpen => pc'[p] \in ServePC, conn'[c] = conn[c], C(p) # c, C(p)' # c
    PROVE  Keeps(p, c)
<1>1. /\ ~conn[c].oOpen => conn[c].req = <<>>
      /\ conn[c].oOpen => conn[c].req = <<>> /\ conn[c].rsp = <<>>
  BY Zenon DEF DialogueInv, EndsInv
<1>2. ASSUME c = hid, spc \notin Away PROVE Readable(conn[c].rsp)' /\ (conn[c].oOpen => Turn(p)')
  <2>1. Readable(conn[c].rsp) /\ (conn[c].oOpen => Turn(p))
    BY <1>2, Zenon DEF DialogueInv, Away, O
  <2>2. conn[c].oOpen => Turn(p)' BY <1>2, <2>1, TurnKept, Zenon DEF Steady
  <2> QED BY <2>1, <2>2, Zenon DEF Readable
<1> QED BY <1>1, <1>2, Zenon DEF Keeps

\* A session that goes on.
LEMMA SessionGoesOn ==
    ASSUME HandoffInv, SealedInv, DialogueInv, NEW p \in Proc, pc[p] \in SessionPC,
           UNCHANGED <<spc, hid>>, NEW k, Turns(p, k), Same(conn[C(p)], k),
           \A q \in Proc : q # p => pc'[q] = pc[q] /\ sess'[q] = sess[q],
           C(p)' = C(p), pc'[p] \in SessionPC, Asked(p)',
           (C(p) = hid /\ spc \notin Away) => Readable(O.rsp)' /\ Turn(p)'
    PROVE  DialogueInv'
<1>1. C(p) \in Conn /\ C(p) # 0
  BY SessionConn DEF SessionPC, Conn
<1>2. conn[C(p)].o = p /\ conn[C(p)].oOpen
  BY <1>1, Zenon DEF SealedInv, SessionInv, C
<1>3. conn'[C(p)] = k /\ \A c \in Conn : c # C(p) => conn'[c] = conn[c]
  BY <1>1, InvariantFacts, Zenon DEF Turns, TypeOK
<1>4. pc'[p] \in ServePC BY Zenon DEF SessionPC, InLoop, ServePC
<1>5. Keeps(p, C(p))
  BY <1>2, <1>3, <1>4, Zenon DEF Keeps, O, Same
<1>6. ASSUME NEW c \in Conn, conn[c].o = p PROVE Keeps(p, c)
  <2>1. CASE c = C(p) BY <2>1, <1>5, Zenon
  <2>2. CASE c # C(p) BY <2>2, <1>3, <1>4, <1>6, BacklogKept, Zenon
  <2> QED BY <2>1, <2>2, Zenon
<1>7. \A c \in Conn : conn[c].o # p => conn'[c] = conn[c] BY <1>2, <1>3, Zenon
<1> QED BY <1>6, <1>7, PrimitiveDialogue, Zenon DEF Steady

\* The end of a session, with what S may still read of it.
LEMMA SessionEnds ==
    ASSUME HandoffInv, SealedInv, DialogueInv, NEW p \in Proc, pc[p] \in SessionPC,
           UNCHANGED <<spc, hid>>, NEW s, NEW q, NEW k \in ConnState, NEW e,
           LeaveSession(p, s, q, k, e), k.sOpen = conn[C(p)].sOpen,
           (C(p) = hid /\ spc \notin Away) => Readable(k.rsp)
    PROVE  DialogueInv'
<1>1. C(p) \in Conn /\ C(p) # 0
  BY SessionConn DEF SessionPC, Conn
<1>2. conn[C(p)].o = p /\ conn[C(p)].oOpen
  BY <1>1, Zenon DEF SealedInv, SessionInv, C
<1>3. /\ conn'[C(p)] = CloseO(k) /\ \A c \in Conn : c # C(p) => conn'[c] = conn[c]
      /\ pc'[p] \in ServePC /\ C(p)' = 0
      /\ \A r \in Proc : r # p => pc'[r] = pc[r] /\ sess'[r] = sess[r]
  <2>1. /\ conn' = [conn EXCEPT ![C(p)] = CloseO(k)]
        /\ \E w \in {"recover", "accept"} : pc' = [pc EXCEPT ![p] = w]
        /\ sess' = [sess EXCEPT ![p] = NoSession]
    BY Zenon DEF LeaveSession, Session, At
  <2>2. NoSession.conn = 0 BY DEF NoSession
  <2> QED BY <1>1, <2>1, <2>2, InvariantFacts, Zenon DEF TypeOK, C, ServePC
<1>4. Keeps(p, C(p))
  <2> DEFINE l == CloseO(k)
  <2>1. ~l.oOpen /\ l.req = <<>> /\ (l.sOpen => k.sOpen) /\ (l.rsp = k.rsp \/ l.rsp = <<>>)
    BY ClosedFields, Zenon
  <2>l. conn'[C(p)] = l BY <1>3, Zenon
  <2> HIDE DEF l
  <2>r. Readable(<<>>) BY NoTurn, Zenon
  <2>2. (C(p) = hid /\ spc \notin Away) => Readable(conn'[C(p)].rsp)
    BY <2>1, <2>l, <2>r, Zenon
  <2>3. ~conn'[C(p)].oOpen /\ conn'[C(p)].req = <<>> /\ (conn'[C(p)].sOpen => conn[C(p)].sOpen)
    BY <2>1, <2>l, Zenon
  <2>4. ASSUME NEW c, c = C(p) PROVE Keeps(p, c)
    BY <2>2, <2>3, <2>4, Zenon DEF Keeps, Readable
  <2> QED BY <2>4, Zenon
<1>5. ASSUME NEW c \in Conn, conn[c].o = p PROVE Keeps(p, c)
  <2>1. CASE c = C(p) BY <2>1, <1>4, Zenon
  <2>2. CASE c # C(p)
    <3>1. c # 0 BY DEF Conn
    <3> QED BY <2>2, <3>1, <1>3, <1>5, BacklogKept, Zenon
  <2> QED BY <2>1, <2>2, Zenon
<1>6. \A c \in Conn : conn[c].o # p => conn'[c] = conn[c] BY <1>2, <1>3, Zenon
<1> QED BY <1>3, <1>5, <1>6, PrimitiveDialogue, Zenon DEF Steady

\* The end of a process.
LEMMA ExitDialogue ==
    ASSUME HandoffInv, SealedInv, DialogueInv, NEW p \in Proc, Steady, Exit(p)
    PROVE  DialogueInv'
<1>1. /\ \A c \in Conn : conn'[c] = IF conn[c].o = p THEN CloseO(conn[c]) ELSE conn[c]
      /\ \A q \in Proc : q # p => pc'[q] = pc[q] /\ sess'[q] = sess[q]
  BY InvariantFacts, Zenon DEF Exit, TypeOK
<1>2. C(p)' = 0
  <2>1. sess'[p] = NoSession BY InvariantFacts, Zenon DEF Exit, TypeOK
  <2> QED BY <2>1 DEF C, NoSession
<1>3. ASSUME NEW c \in Conn, conn[c].o = p PROVE Keeps(p, c)
  <2> DEFINE l == CloseO(conn[c])
  <2>1. /\ ~l.oOpen /\ l.req = <<>> /\ (l.sOpen => conn[c].sOpen)
        /\ l.rsp = conn[c].rsp \/ l.rsp = <<>>
    BY InvariantFacts, ClosedFields, Zenon
  <2>l. conn'[c] = l BY <1>1, <1>3, Zenon
  <2> HIDE DEF l
  <2>r. Readable(<<>>) BY NoTurn, Zenon
  <2>q. (c = hid /\ spc \notin Away) => Readable(conn[c].rsp)
    BY Zenon DEF DialogueInv, Away, O
  <2>2. (c = hid /\ spc \notin Away) => Readable(conn'[c].rsp)
    BY <2>1, <2>l, <2>r, <2>q, Zenon
  <2>3. (c = hid /\ spc \notin Away) => Readable(conn[c].rsp)'
    BY <2>2, ReadableKept, Zenon
  <2> QED BY <2>1, <2>l, <2>3, Zenon DEF Keeps
<1> QED BY <1>1, <1>2, <1>3, PrimitiveDialogue, Zenon DEF Steady

\* What DialogueInv says of p's session.
LEMMA SessionFacts ==
    ASSUME HandoffInv, SealedInv, DialogueInv, NEW p \in Proc, pc[p] \in SessionPC
    PROVE  /\ C(p) \in Conn /\ C(p) # 0 /\ conn[C(p)] \in ConnState
           /\ conn[C(p)].o = p /\ conn[C(p)].oOpen /\ Asked(p)
           /\ (C(p) = hid /\ spc \notin Away) =>
                 O = conn[C(p)] /\ Readable(conn[C(p)].rsp) /\ Turn(p)
<1>1. C(p) \in Conn /\ C(p) # 0 /\ conn[C(p)] \in ConnState
  BY SessionConn DEF SessionPC, Conn
<1>2. conn[C(p)].o = p /\ conn[C(p)].oOpen
  BY <1>1, Zenon DEF SealedInv, SessionInv, C
<1>3. Asked(p) BY <1>1, Zenon DEF DialogueInv
<1>4. ASSUME C(p) = hid, spc \notin Away
      PROVE  O = conn[C(p)] /\ Readable(conn[C(p)].rsp) /\ Turn(p)
  <2>1. Readable(O.rsp) /\ (O.oOpen => Turn(O.o)) BY <1>4, Zenon DEF DialogueInv, Away
  <2>2. O = conn[C(p)] BY <1>4, Zenon DEF O
  <2> QED BY <1>2, <2>1, <2>2, Zenon
<1> QED BY <1>1, <1>2, <1>3, <1>4, Zenon

\* A session that returns and has written nothing more.
LEMMA SessionReturns ==
    ASSUME HandoffInv, SealedInv, DialogueInv, NEW p \in Proc, pc[p] \in SessionPC,
           UNCHANGED <<spc, hid>>, NEW s, NEW q, NEW e, EndSession(p, s, q, e)
    PROVE  DialogueInv'
<1>1. LeaveSession(p, s, q, conn[C(p)], e) BY Zenon DEF EndSession
<1> QED BY <1>1, SessionFacts, SessionEnds, Zenon

\* A process outside a session that leaves the connections alone.
LEMMA OutsideDialogue ==
    ASSUME HandoffInv, SealedInv, DialogueInv, NEW p \in Proc, UNCHANGED <<spc, hid, sess, conn>>,
           pc[p] \notin SessionPC, pc[p] \in ServePC => pc'[p] \in ServePC,
           \A q \in Proc : q # p => pc'[q] = pc[q]
    PROVE  DialogueInv'
<1>1. C(p) = 0 /\ C(p)' = 0 BY Zenon DEF SealedInv, SessionInv, C
<1>2. ASSUME NEW c \in Conn, conn[c].o = p PROVE Keeps(p, c)
  <2>1. C(p) # c /\ C(p)' # c BY <1>1 DEF Conn
  <2>2. conn[c].oOpen => pc'[p] \in ServePC BY <1>2, Zenon DEF DialogueInv, EndsInv
  <2> QED BY <1>2, <2>1, <2>2, BacklogKept, Zenon
<1> QED BY <1>1, <1>2, PrimitiveDialogue, Zenon DEF Steady

\* A frame has the type and the id it was made with.
LEMMA MsgFields ==
    ASSUME NEW t, NEW h
    PROVE  Msg(t, h).type = t /\ Msg(t, h).id = h
  BY DEF Msg

\* serve accepts a connection and writes Hello, or finds it closed.
LEMMA AcceptDialogue ==
    ASSUME HandoffInv, SealedInv, DialogueInv, NEW p \in Proc, UNCHANGED <<spc, hid>>, Accept(p)
    PROVE  DialogueInv'
<1>1. PICK c \in Conn :
        /\ conn[c].o = p /\ conn[c].oOpen
        /\ IF conn[c].sOpen
           THEN /\ conn' = [conn EXCEPT ![c] = Reply(conn[c], Msg("Hello", 0))]
                /\ sess' = [sess EXCEPT ![p] = [NoSession EXCEPT !.conn = c]]
                /\ pc' = [pc EXCEPT ![p] = "hello_ack"]
           ELSE /\ conn' = [conn EXCEPT ![c] = CloseO(conn[c])]
                /\ UNCHANGED <<sess, pc>>
  BY Zenon DEF Accept, Backlog, Session, At
<1>2. pc[p] = "accept" BY Zenon DEF Accept
<1>3. C(p) = 0 BY <1>2, Zenon DEF SealedInv, SessionInv, C, SessionPC, InLoop
<1>4. c # 0 /\ hid \in Id BY InvariantFacts DEF Conn
<1>5. conn[c].req = <<>> /\ conn[c].rsp = <<>>
  BY <1>1, <1>3, <1>4, Zenon DEF DialogueInv, EndsInv
<1>6. /\ conn[c] \in ConnState /\ conn \in [Conn -> ConnState]
      /\ sess \in [Proc -> SessionState] /\ pc \in [Proc -> ProcPC]
  BY InvariantFacts, Zenon DEF TypeOK
<1>7. ASSUME NEW d \in Conn, d # c PROVE conn'[d] = conn[d] BY <1>1, <1>6, <1>7, Zenon
<1>8. \A d \in Conn : conn[d].o # p => conn'[d] = conn[d] BY <1>1, <1>7, Zenon
<1>9. CASE conn[c].sOpen
  <2> DEFINE l == Reply(conn[c], Msg("Hello", 0))
  <2>1. Same(conn[c], l) /\ l.req = <<>> /\ l.rsp = <<Msg("Hello", 0)>>
    <3>1. Same(conn[c], l) /\ l.req = conn[c].req /\ l.rsp = Append(conn[c].rsp, Msg("Hello", 0))
      BY <1>6, QueueFields, Zenon
    <3>2. Append(<<>>, Msg("Hello", 0)) = <<Msg("Hello", 0)>> BY Words, Zenon
    <3> QED BY <1>5, <3>1, <3>2, Zenon
  <2>2. conn'[c] = l BY <1>1, <1>6, <1>9, Zenon
  <2> HIDE DEF l
  <2>3. /\ pc'[p] = "hello_ack" /\ sess'[p] = [NoSession EXCEPT !.conn = c]
        /\ \A q \in Proc : q # p => pc'[q] = pc[q] /\ sess'[q] = sess[q]
    BY <1>1, <1>6, <1>9, Zenon
  <2>4. C(p)' = c /\ sess'[p].active = 0
    BY <2>3 DEF NoSession, C
  <2>5. AwaitsAck(p)' /\ Asked(p)'
    BY <2>1, <2>2, <2>3, <2>4, Zenon DEF Asked, AwaitsAck, Same
  <2>6. Keeps(p, c)
    <3>1. ASSUME c = hid, spc \notin Away PROVE Readable(conn[c].rsp)' /\ Turn(p)'
      <4>1. Turn(p) BY <1>1, <3>1, Zenon DEF DialogueInv, Away, O
      <4>2. C(p) # hid BY <1>3, <1>4, <3>1, Zenon
      <4>3. spc \notin {"spawn", "hello_n", "negotiating", "prepare", "drained", "draining",
                        "seal_request", "seal"}
        BY <4>1, <4>2, Zenon DEF Turn
      <4>4. Readable(conn[c].rsp)' BY <2>1, <2>2, <4>3, Zenon DEF Readable
      <4>5. (O.req)' = <<>> BY <2>1, <2>2, <3>1, Zenon DEF O
      <4> QED BY <2>5, <4>3, <4>4, <4>5, Zenon DEF Turn
    <3> QED BY <1>1, <2>1, <2>2, <2>3, <2>4, <3>1, Zenon DEF Keeps, Same, ServePC
  <2>7. ASSUME NEW d \in Conn, conn[d].o = p PROVE Keeps(p, d)
    <3>1. CASE d = c BY <2>6, <3>1, Zenon
    <3>2. CASE d # c
      <4>1. C(p) # d /\ C(p)' # d /\ pc'[p] \in ServePC
        BY <1>3, <2>3, <2>4, <3>2 DEF Conn, ServePC
      <4> QED BY <1>7, <2>7, <3>2, <4>1, BacklogKept, Zenon
    <3> QED BY <3>1, <3>2, Zenon
  <2> QED BY <1>8, <2>3, <2>5, <2>7, PrimitiveDialogue, Zenon DEF Steady
<1>10. CASE ~conn[c].sOpen
  <2> DEFINE l == CloseO(conn[c])
  <2>1. ~l.oOpen /\ l.req = <<>> /\ (l.sOpen => conn[c].sOpen) /\ l.rsp = <<>>
    BY <1>5, <1>6, ClosedFields, Zenon
  <2>2. conn'[c] = l /\ UNCHANGED <<pc, sess>> BY <1>1, <1>6, <1>10, Zenon
  <2> HIDE DEF l
  <2>3. Readable(<<>>) BY NoTurn, Zenon
  <2>4. Keeps(p, c) BY <2>1, <2>2, <2>3, Zenon DEF Keeps, Readable
  <2>5. C(p)' = 0 /\ pc'[p] \in ServePC BY <1>2, <1>3, <2>2, Zenon DEF C, ServePC
  <2>6. ASSUME NEW d \in Conn, conn[d].o = p PROVE Keeps(p, d)
    <3>1. CASE d = c BY <2>4, <3>1, Zenon
    <3>2. CASE d # c
      <4>1. C(p) # d /\ C(p)' # d BY <1>3, <2>5 DEF Conn
      <4> QED BY <1>7, <2>5, <2>6, <3>2, <4>1, BacklogKept, Zenon
    <3> QED BY <3>1, <3>2, Zenon
  <2> QED BY <1>8, <2>2, <2>5, <2>6, PrimitiveDialogue, Zenon DEF Steady
<1> QED BY <1>9, <1>10, Zenon

\* The frame that a session loop finds.
LEMMA NextFrame ==
    ASSUME NEW p, Asked(p), pc[p] = "loop", conn[C(p)].req # <<>>
    PROVE  \/ AwaitsPrepare(p) /\ conn[C(p)].req = <<Msg("PrepareHandoff", C(p))>>
           \/ AwaitsSeal(p) /\ conn[C(p)].req = <<Msg("SealRequest", C(p))>>
           \/ AwaitsOutcome(p) /\ conn[C(p)].req = <<Msg("Commit", C(p))>>
           \/ AwaitsOutcome(p) /\ conn[C(p)].req = <<Msg("ResumeAfterAbort", C(p))>>
  BY Zenon DEF Asked, AwaitsAck, Drains, Seals

\* A request that the session loop takes: it is the only one, of the type read.
LEMMA FrameTaken ==
    ASSUME NEW p, Asked(p), NEW m, Receives(p, m)
    PROVE  /\ conn[C(p)].req = <<m>> /\ m.id = C(p) /\ Tail(conn[C(p)].req) = <<>>
           /\ \/ AwaitsPrepare(p) /\ m.type = "PrepareHandoff"
              \/ AwaitsSeal(p) /\ m.type = "SealRequest"
              \/ AwaitsOutcome(p) /\ m.type = "Commit"
              \/ AwaitsOutcome(p) /\ m.type = "ResumeAfterAbort"
<1>1. pc[p] = "loop" /\ conn[C(p)].req # <<>> /\ m = Head(conn[C(p)].req)
  BY Zenon DEF Receives
<1>2. ASSUME NEW t, conn[C(p)].req = <<Msg(t, C(p))>>
      PROVE  /\ conn[C(p)].req = <<m>> /\ m.id = C(p) /\ m.type = t
             /\ Tail(conn[C(p)].req) = <<>>
  <2>1. m = Msg(t, C(p)) /\ Tail(conn[C(p)].req) = <<>> BY <1>1, <1>2, Words
  <2> QED BY <1>2, <2>1, MsgFields, Zenon
<1> QED BY <1>1, <1>2, NextFrame, Zenon

\* HelloAck of the handoff under way is what a session waits for first.
LEMMA HelloAckDialogue ==
    ASSUME HandoffInv, SealedInv, DialogueInv, NEW p \in Proc, UNCHANGED <<spc, hid>>,
           RecvHelloAck(p)
    PROVE  DialogueInv'
<1>1. pc[p] = "hello_ack" /\ conn[C(p)].req # <<>> BY Zenon DEF RecvHelloAck
<1>2. pc[p] \in SessionPC BY <1>1, Zenon DEF SessionPC
<1>3. /\ C(p) \in Conn /\ conn[C(p)] \in ConnState /\ Asked(p)
      /\ (C(p) = hid /\ spc \notin Away) =>
            O = conn[C(p)] /\ Readable(conn[C(p)].rsp) /\ Turn(p)
  BY <1>2, SessionFacts, Zenon
<1>4. ~sess[p].drained /\ ~sess[p].sealed
  BY <1>1, InvariantFacts, Zenon DEF OwnershipInv, InLoop
<1>5. CASE Head(conn[C(p)].req).type # "HelloAck"
  <2>1. EndSession(p, sess[p], consumer[p], TRUE)
    BY <1>5, Zenon DEF RecvHelloAck, SessionError
  <2> QED BY <1>2, <2>1, SessionReturns, Zenon
<1>6. CASE Head(conn[C(p)].req).type = "HelloAck"
  <2> DEFINE k == TakeRequest(conn[C(p)])
  <2>1. Turns(p, k) /\ pc' = [pc EXCEPT ![p] = "loop"] /\ sess' = sess
    BY <1>6, Zenon DEF RecvHelloAck, At, Turns
  <2>2. Same(conn[C(p)], k) /\ k.req = Tail(conn[C(p)].req) /\ k.rsp = conn[C(p)].rsp
    BY <1>3, QueueFields, Zenon
  <2>3. conn'[C(p)] = k BY <1>3, <2>1, InvariantFacts, Zenon DEF Turns, TypeOK
  <2> HIDE DEF k
  <2>4. /\ pc'[p] = "loop" /\ pc'[p] \in SessionPC /\ C(p)' = C(p)
        /\ \A q \in Proc : q # p => pc'[q] = pc[q] /\ sess'[q] = sess[q]
    BY <2>1, InvariantFacts, Zenon DEF TypeOK, C, SessionPC, InLoop
  <2>5. AwaitsAck(p) BY <1>1, <1>3, Zenon DEF Asked, AwaitsPrepare, Drains, AwaitsSeal, Seals, AwaitsOutcome
  <2>6. AwaitsPrepare(p)' BY <1>4, <2>1, <2>4, <2>5, Zenon DEF AwaitsPrepare, AwaitsAck
  <2>7. \/ /\ conn[C(p)].req = <<Msg("HelloAck", C(p))>> /\ k.req = <<>>
        \/ /\ conn[C(p)].req = <<Msg("HelloAck", C(p)), Msg("PrepareHandoff", C(p))>>
           /\ k.req = <<Msg("PrepareHandoff", C(p))>>
    <3>1. \/ conn[C(p)].req = <<Msg("HelloAck", C(p))>>
          \/ conn[C(p)].req = <<Msg("HelloAck", C(p)), Msg("PrepareHandoff", C(p))>>
      BY <1>1, <1>3, Zenon DEF Asked, AwaitsPrepare, Drains, AwaitsSeal, Seals, AwaitsOutcome
    <3>2. \A a, b : Tail(<<a>>) = <<>> /\ Tail(<<a, b>>) = <<b>> BY Words, Zenon
    <3> QED BY <2>2, <3>1, <3>2, Zenon
  <2>8. Asked(p)' BY <2>3, <2>4, <2>6, <2>7, Zenon DEF Asked
  <2>9. ASSUME C(p) = hid, spc \notin Away PROVE Readable(O.rsp)' /\ Turn(p)'
    <3>1. O' = k BY <2>3, <2>9, Zenon DEF O
    <3>2. Readable(O.rsp)' BY <1>3, <2>2, <2>9, <3>1, Zenon DEF Readable
    <3>3. \A a, b : <<a>> # <<>> /\ <<a, b>> # <<>> /\ <<a>> # <<a, b>> BY Words
    <3>4. O.req = conn[C(p)].req /\ (O.req)' = k.req /\ (O.rsp)' = O.rsp
      BY <1>3, <2>2, <2>9, <3>1, Zenon
    <3>5. Turn(p) /\ C(p) = hid /\ C(p)' = hid BY <1>3, <2>4, <2>9, Zenon
    <3>6. spc \in {"spawn", "hello_n", "negotiating", "prepare"} =>
             O.req = <<Msg("HelloAck", hid)>>
      BY <1>1, <3>5, Zenon DEF Turn, AwaitsPrepare
    <3>7. spc = "drained" => /\ O.req = <<Msg("HelloAck", hid), Msg("PrepareHandoff", hid)>>
                             /\ O.rsp = <<>>
      BY <1>1, <3>5, Zenon DEF Turn, AwaitsPrepare, Drains, AwaitsSeal
    <3>8. spc \notin {"probe", "hello_o", "draining", "seal_request", "seal"}
      BY <1>1, <3>4, <3>5, Zenon DEF Turn, AwaitsPrepare, AwaitsSeal, Seals, AwaitsOutcome
    <3>9. Turn(p)'
      BY <2>6, <2>7, <3>3, <3>4, <3>5, <3>6, <3>7, <3>8, ZenonT(30) DEF Turn
    <3> QED BY <3>2, <3>9, Zenon
  <2> QED BY <1>2, <2>1, <2>2, <2>4, <2>8, <2>9, SessionGoesOn, Zenon
<1> QED BY <1>5, <1>6, Zenon

\* A session takes a request and goes to w with the SessionState s.
Takes(p, s, w, q) ==
    /\ Turns(p, q) /\ sess' = [sess EXCEPT ![p] = s] /\ pc' = [pc EXCEPT ![p] = w]

\* What is left to show when a session takes its only request.
LEMMA RequestTaken ==
    ASSUME HandoffInv, SealedInv, DialogueInv, NEW p \in Proc, UNCHANGED <<spc, hid>>,
           NEW m, Receives(p, m), NEW k \in {TakeRequest(conn[C(p)]), Answer(conn[C(p)], <<>>)},
           NEW s, NEW w \in SessionPC, Takes(p, s, w, k), s.conn = C(p),
           Drains(p)' \/ Seals(p)' \/ AwaitsPrepare(p)',
           m.type = "PrepareHandoff" => Drains(p)', m.type = "SealRequest" => Seals(p)'
    PROVE  DialogueInv'
<1>1. pc[p] = "loop" /\ pc[p] \in SessionPC BY Zenon DEF Receives, SessionPC, InLoop
<1>2. /\ C(p) \in Conn /\ conn[C(p)] \in ConnState /\ Asked(p)
      /\ (C(p) = hid /\ spc \notin Away) =>
            O = conn[C(p)] /\ Readable(conn[C(p)].rsp) /\ Turn(p)
  BY <1>1, SessionFacts, Zenon
<1>3. conn[C(p)].req = <<m>> /\ Tail(conn[C(p)].req) = <<>> BY <1>2, FrameTaken, Zenon
<1>4. Same(conn[C(p)], k) /\ k.req = <<>> /\ k.rsp = conn[C(p)].rsp
  <2>1. CASE k = TakeRequest(conn[C(p)]) BY <1>2, <1>3, <2>1, QueueFields, Zenon
  <2>2. CASE k = Answer(conn[C(p)], <<>>) BY <1>2, <1>3, <2>2, QueueFields, Zenon
  <2> QED BY <2>1, <2>2, Zenon
<1>5. /\ conn'[C(p)] = k /\ pc'[p] \in SessionPC /\ C(p)' = C(p)
      /\ \A q \in Proc : q # p => pc'[q] = pc[q] /\ sess'[q] = sess[q]
  BY <1>2, InvariantFacts, Zenon DEF Takes, Turns, TypeOK, C
<1>6. Asked(p)' BY <1>4, <1>5, Zenon DEF Asked
<1>7. ASSUME C(p) = hid, spc \notin Away PROVE Readable(O.rsp)' /\ Turn(p)'
  <2>1. O' = k /\ O = conn[C(p)] BY <1>2, <1>5, <1>7, Zenon DEF O
  <2>2. Readable(O.rsp)' BY <1>2, <1>4, <1>7, <2>1, Zenon DEF Readable
  <2>3. Turn(p) /\ C(p)' = hid /\ O.req = <<m>> /\ (O.req)' = <<>> /\ (O.rsp)' = O.rsp
    BY <1>2, <1>3, <1>4, <1>5, <1>7, <2>1, Zenon
  <2>4. <<m>> # <<>> BY Words, Zenon
  <2>5. /\ spc \notin {"probe", "hello_o", "spawn", "hello_n", "negotiating", "prepare",
                       "draining", "seal_request"}
        /\ spc \in {"drained", "seal"} => O.rsp = <<>>
    BY <1>1, <1>7, <2>3, <2>4, ZenonT(30)
       DEF Turn, AwaitsAck, AwaitsPrepare, AwaitsSeal, Drains, Seals, AwaitsOutcome
  <2>6. /\ spc = "drained" => O.req = <<Msg("PrepareHandoff", hid)>>
        /\ spc = "seal" => O.req = <<Msg("SealRequest", hid)>>
    BY <1>1, <1>7, <2>3, <2>4, ZenonT(30)
       DEF Turn, AwaitsAck, AwaitsPrepare, AwaitsSeal, Drains, Seals, AwaitsOutcome
  <2>7. ASSUME NEW t, <<m>> = <<Msg(t, hid)>> PROVE m.type = t
    <3>1. m = Msg(t, hid) BY <2>7, Words
    <3> QED BY <3>1, MsgFields, Zenon
  <2>8. (spc = "drained" => Drains(p)') /\ (spc = "seal" => Seals(p)') BY <2>3, <2>6, <2>7, Zenon
  <2>9. Turn(p)' BY <1>7, <2>3, <2>5, <2>8, Zenon DEF Turn, Quiet
  <2> QED BY <2>2, <2>9, Zenon
<1> QED BY <1>1, <1>4, <1>5, <1>6, <1>7, SessionGoesOn, Zenon DEF Takes

\* Every request the session loop reads.
LEMMA LoopDialogue ==
    ASSUME HandoffInv, SealedInv, DialogueInv, NEW p \in Proc, UNCHANGED <<spc, hid>>,
           \/ RecvPrepareHandoff(p) \/ RecvSealRequest(p) \/ RecvCommit(p)
           \/ RecvResume(p) \/ RecvHeartbeat(p) \/ RecvUnexpected(p)
    PROVE  DialogueInv'
<1>1. ASSUME NEW m, Receives(p, m)
      PROVE  /\ pc[p] \in SessionPC /\ m.id = C(p) /\ sess[p] \in SessionState
             /\ \/ AwaitsPrepare(p) /\ m.type = "PrepareHandoff"
                \/ AwaitsSeal(p) /\ m.type = "SealRequest"
                \/ AwaitsOutcome(p) /\ m.type = "Commit"
                \/ AwaitsOutcome(p) /\ m.type = "ResumeAfterAbort"
  <2>1. pc[p] \in SessionPC BY <1>1, Zenon DEF Receives, SessionPC, InLoop
  <2>2. Asked(p) BY <2>1, SessionFacts, Zenon
  <2>3. sess[p] \in SessionState BY InvariantFacts, Zenon
  <2> QED BY <1>1, <2>1, <2>2, <2>3, FrameTaken, Zenon
<1>2. ASSUME SessionError(p), NEW m, Receives(p, m) PROVE DialogueInv'
  BY <1>1, <1>2, SessionReturns, Zenon DEF SessionError
<1>t. pc \in [Proc -> ProcPC] /\ sess \in [Proc -> SessionState] BY InvariantFacts, Zenon DEF TypeOK
<1>w. {"drain", "seal", "loop"} \subseteq SessionPC BY Zenon DEF SessionPC, InLoop
<1>3. CASE RecvPrepareHandoff(p)
  <2> DEFINE s(m) == [sess[p] EXCEPT !.active = m.id]
  <2>1. PICK m \in Message :
          /\ Receives(p, m) /\ m.type = "PrepareHandoff"
          /\ SessionError(p) \/ Takes(p, s(m), "drain", TakeRequest(conn[C(p)]))
    BY <1>3, Zenon DEF RecvPrepareHandoff, Takes, Turns, Session, At
  <2>2. AwaitsPrepare(p) /\ m.id = C(p) /\ sess[p] \in SessionState BY <1>1, <2>1, Zenon
  <2>3. s(m).conn = C(p) /\ s(m).active = C(p) /\ s(m).sealed = sess[p].sealed
    BY <2>2 DEF SessionState, C
  <2> HIDE DEF s
  <2>4. CASE Takes(p, s(m), "drain", TakeRequest(conn[C(p)]))
    <3>1. pc'[p] = "drain" /\ sess'[p] = s(m) BY <1>t, <2>4, Zenon DEF Takes
    <3>2. Drains(p)' BY <2>2, <2>3, <3>1, Zenon DEF Drains, AwaitsPrepare, C
    <3> QED BY <1>w, <2>1, <2>3, <2>4, <3>2, RequestTaken, Zenon
  <2> QED BY <1>2, <2>1, <2>4, Zenon
<1>4. CASE RecvSealRequest(p)
  <2>1. PICK m \in Message :
          /\ Receives(p, m) /\ m.type = "SealRequest"
          /\ SessionError(p) \/ Takes(p, sess[p], "seal", TakeRequest(conn[C(p)]))
    BY <1>4, <1>t, Zenon DEF RecvSealRequest, Takes, Turns, At
  <2>2. AwaitsSeal(p) BY <1>1, <2>1, Zenon
  <2>3. CASE Takes(p, sess[p], "seal", TakeRequest(conn[C(p)]))
    <3>1. pc'[p] = "seal" /\ sess'[p] = sess[p] BY <1>t, <2>3, Zenon DEF Takes
    <3>2. Seals(p)' BY <2>2, <3>1, Zenon DEF Seals, AwaitsSeal, C
    <3> QED BY <1>w, <2>1, <2>3, <3>2, RequestTaken, Zenon DEF C
  <2> QED BY <1>2, <2>1, <2>3, Zenon
<1>5. CASE RecvCommit(p)
  BY <1>2, <1>5, ExitDialogue, Zenon DEF RecvCommit, Steady
<1>6. CASE RecvResume(p)
  <2> DEFINE s == [sess[p] EXCEPT !.active = 0, !.sealed = FALSE, !.drained = FALSE]
  <2>1. PICK m \in Message :
          /\ Receives(p, m) /\ m.type \in {"ResumeAfterAbort", "Abort"}
          /\ \/ SessionError(p)
             \/ Takes(p, s, "loop", Answer(conn[C(p)], <<>>))
             \/ EndSession(p, sess[p], "resume_failed", TRUE)
    BY <1>6, Zenon DEF RecvResume, NextRequest, Takes, Turns, Session, At
  <2>2. sess[p] \in SessionState /\ pc[p] \in SessionPC BY <1>1, <2>1, Zenon
  <2>3. s.conn = C(p) /\ s.active = 0 /\ ~s.sealed /\ ~s.drained BY <2>2 DEF SessionState, C
  <2> HIDE DEF s
  <2>4. CASE Takes(p, s, "loop", Answer(conn[C(p)], <<>>))
    <3>1. pc'[p] = "loop" /\ sess'[p] = s BY <1>t, <2>4, Zenon DEF Takes
    <3>2. AwaitsPrepare(p)' BY <2>3, <3>1, Zenon DEF AwaitsPrepare
    <3> QED BY <1>w, <2>1, <2>3, <2>4, <3>2, RequestTaken, Zenon
  <2>5. CASE EndSession(p, sess[p], "resume_failed", TRUE)
    BY <2>2, <2>5, SessionReturns, Zenon
  <2> QED BY <1>2, <2>1, <2>4, <2>5, Zenon
<1>7. CASE RecvHeartbeat(p)
  <2>1. PICK m \in Message : Receives(p, m) /\ m.type = "Heartbeat" BY <1>7, Zenon DEF RecvHeartbeat
  <2> QED BY <1>1, <2>1, Zenon
<1>8. CASE RecvUnexpected(p) BY <1>2, <1>8, Zenon DEF RecvUnexpected
<1> QED BY <1>3, <1>4, <1>5, <1>6, <1>7, <1>8, Zenon

\* The replies of a hook: heartbeats, then the answer.
LEMMA QuietAnswer ==
    ASSUME NEW q \in Quiet, NEW m
    PROVE  q \in Replies(m) /\ Append(q, m) \in Replies(m)
<1>1. \A a, b : Append(<<>>, a) = <<a>> /\ Append(<<a>>, b) = <<a, b>> BY Words, Zenon
<1> QED BY <1>1, Zenon DEF Quiet, Replies

\* Where S is while p runs its hooks.
LEMMA HookTurn ==
    ASSUME NEW p, Turn(p), C(p) = hid, pc[p] \in {"drain", "seal", "seal_complete"}
    PROVE  /\ spc \notin {"probe", "hello_o", "spawn", "hello_n", "negotiating", "prepare",
                          "draining", "seal_request"}
           /\ spc = "drained" => pc[p] = "drain" /\ O.rsp \in Quiet
           /\ spc = "seal" => pc[p] # "drain" /\ O.rsp \in Quiet
  BY ZenonT(30) DEF Turn, AwaitsAck, AwaitsPrepare, AwaitsSeal, Drains, Seals, AwaitsOutcome

\* The replies r and the next phase of a session in a hook.
HookAnswers(p, r) ==
    /\ pc[p] = "drain" =>
          /\ r \in Replies(Msg("Drained", 0))
          /\ (Drains(p)' /\ r \in Quiet) \/ AwaitsSeal(p)'
    /\ pc[p] # "drain" =>
          /\ r \in Replies(Msg("SealComplete", C(p))) \cup Replies(Msg("SealFailed", C(p)))
          /\ (Seals(p)' /\ r \in Quiet) \/ AwaitsOutcome(p)' \/ AwaitsPrepare(p)'

\* What is left to show for a session in a hook.
LEMMA HookGoesOn ==
    ASSUME HandoffInv, SealedInv, DialogueInv, NEW p \in Proc, UNCHANGED <<spc, hid>>,
           pc[p] \in {"drain", "seal", "seal_complete"},
           NEW k, Same(conn[C(p)], k), k.req = conn[C(p)].req,
           NEW s, NEW w \in SessionPC, Takes(p, s, w, k), s.conn = C(p),
           Drains(p)' \/ AwaitsSeal(p)' \/ Seals(p)' \/ AwaitsOutcome(p)' \/ AwaitsPrepare(p)',
           conn[C(p)].rsp \in Quiet => HookAnswers(p, k.rsp)
    PROVE  DialogueInv'
<1>1. pc[p] \in SessionPC BY Zenon DEF SessionPC, InLoop
<1>2. /\ C(p) \in Conn /\ conn[C(p)] \in ConnState /\ Asked(p)
      /\ (C(p) = hid /\ spc \notin Away) =>
            O = conn[C(p)] /\ Readable(conn[C(p)].rsp) /\ Turn(p)
  BY <1>1, SessionFacts, Zenon
<1>3. k.req = <<>>
  BY <1>2, Zenon DEF Asked, AwaitsAck, AwaitsPrepare, AwaitsSeal, AwaitsOutcome
<1>4. /\ conn'[C(p)] = k /\ pc'[p] \in SessionPC /\ C(p)' = C(p)
      /\ \A q \in Proc : q # p => pc'[q] = pc[q] /\ sess'[q] = sess[q]
  BY <1>2, InvariantFacts, Zenon DEF Takes, Turns, TypeOK, C
<1>5. Asked(p)' BY <1>3, <1>4, Zenon DEF Asked
<1>6. ASSUME C(p) = hid, spc \notin Away PROVE Readable(O.rsp)' /\ Turn(p)'
  <2>1. O' = k /\ O = conn[C(p)] BY <1>2, <1>4, <1>6, Zenon DEF O
  <2>2. (O.req)' = <<>> /\ (O.rsp)' = k.rsp /\ C(p)' = hid BY <1>3, <1>4, <1>6, <2>1, Zenon
  <2>3. /\ spc \notin {"probe", "hello_o", "spawn", "hello_n", "negotiating", "prepare",
                       "draining", "seal_request"}
        /\ spc = "drained" => pc[p] = "drain" /\ O.rsp \in Quiet
        /\ spc = "seal" => pc[p] # "drain" /\ O.rsp \in Quiet
    BY <1>2, <1>6, HookTurn, Zenon
  <2>4. spc \in {"drained", "seal"} => HookAnswers(p, k.rsp)
    BY <2>1, <2>3, Zenon
  <2>5. Readable(O.rsp)' BY <1>6, <2>2, <2>3, <2>4, Zenon DEF Readable, HookAnswers
  <2>6. Turn(p)' BY <2>2, <2>3, <2>4, Zenon DEF Turn, HookAnswers
  <2> QED BY <2>5, <2>6, Zenon
<1> QED BY <1>1, <1>4, <1>5, <1>6, SessionGoesOn, Zenon DEF Takes

\* The hooks of the incumbent, and its heartbeats.
LEMMA HookDialogue ==
    ASSUME HandoffInv, SealedInv, DialogueInv, NEW p \in Proc, UNCHANGED <<spc, hid>>,
           \/ DrainOk(p) \/ DrainErr(p) \/ SealOk(p) \/ SendSealComplete(p) \/ SealErr(p)
           \/ HeartbeatDuringHook(p)
    PROVE  DialogueInv'
<1>1. pc[p] \in {"drain", "seal", "seal_complete"}
  BY Zenon DEF DrainOk, DrainErr, SealOk, SendSealComplete, SealErr, HeartbeatDuringHook
<1>2. pc[p] \in SessionPC BY <1>1, Zenon DEF SessionPC, InLoop
<1>3. /\ C(p) \in Conn /\ conn[C(p)] \in ConnState /\ Asked(p)
      /\ (C(p) = hid /\ spc \notin Away) =>
            O = conn[C(p)] /\ Readable(conn[C(p)].rsp) /\ Turn(p)
  BY <1>2, SessionFacts, Zenon
<1>4. /\ pc[p] = "drain" => Drains(p)
      /\ pc[p] # "drain" => Seals(p)
  BY <1>1, <1>3, Zenon DEF Asked, AwaitsAck, AwaitsPrepare, AwaitsSeal, AwaitsOutcome, Drains, Seals
<1>5. sess[p] \in SessionState /\ sess[p].conn = C(p) BY InvariantFacts, Zenon DEF C
<1>6. /\ pc[p] = "seal" => ~sess[p].sealed
      /\ pc[p] = "seal_complete" => sess[p].sealed
  BY InvariantFacts, Zenon DEF OwnershipInv, SealedInv, SessionInv
<1>t. /\ pc \in [Proc -> ProcPC] /\ sess \in [Proc -> SessionState] /\ conn \in [Conn -> ConnState]
  BY InvariantFacts, Zenon DEF TypeOK
<1>w. {"drain", "seal", "loop", "seal_complete"} \subseteq SessionPC BY Zenon DEF SessionPC, InLoop
<1>r. ASSUME NEW m
      PROVE  /\ Same(conn[C(p)], Reply(conn[C(p)], m))
             /\ Reply(conn[C(p)], m).req = conn[C(p)].req
             /\ Reply(conn[C(p)], m).rsp = Append(conn[C(p)].rsp, m)
  BY <1>3, QueueFields, Zenon
<1>e. ASSUME NEW s, NEW q, NEW e, EndSession(p, s, q, e) PROVE DialogueInv'
  BY <1>2, <1>e, SessionReturns, Zenon
<1>7. CASE DrainOk(p)
  <2> DEFINE s == [sess[p] EXCEPT !.drained = TRUE]
             k == Reply(conn[C(p)], Msg("Drained", 0))
  <2>1. /\ pc[p] = "drain"
        /\ Takes(p, s, "loop", k) \/ \E q : EndSession(p, s, q, TRUE)
    BY <1>7, Zenon DEF DrainOk, Takes, Turns, Session, At
  <2>2. s.conn = C(p) /\ s.active = sess[p].active /\ s.drained /\ s.sealed = sess[p].sealed
    BY <1>5 DEF SessionState
  <2>3. conn[C(p)].rsp \in Quiet => k.rsp \in Replies(Msg("Drained", 0))
    BY <1>r, QuietAnswer, Zenon
  <2>4. Same(conn[C(p)], k) /\ k.req = conn[C(p)].req BY <1>r, Zenon
  <2> HIDE DEF s, k
  <2>5. CASE Takes(p, s, "loop", k)
    <3>1. pc'[p] = "loop" /\ sess'[p] = s BY <1>t, <2>5, Zenon DEF Takes
    <3>2. AwaitsSeal(p)' BY <1>4, <2>1, <2>2, <3>1, Zenon DEF AwaitsSeal, Drains, C
    <3>3. conn[C(p)].rsp \in Quiet => HookAnswers(p, k.rsp)
      BY <2>1, <2>3, <3>2, Zenon DEF HookAnswers
    <3> QED BY <1>1, <1>w, <2>2, <2>4, <2>5, <3>2, <3>3, HookGoesOn, Zenon
  <2> QED BY <1>e, <2>1, <2>5, Zenon
<1>8. CASE DrainErr(p) BY <1>8, <1>e, Zenon DEF DrainErr
<1>9. CASE SealOk(p)
  <2> DEFINE s == [sess[p] EXCEPT !.sealed = TRUE]
  <2>1. pc[p] = "seal" /\ Takes(p, s, "seal_complete", conn[C(p)])
    BY <1>3, <1>9, <1>t, Zenon DEF SealOk, Takes, Turns, Session, At
  <2>2. s.conn = C(p) /\ s.active = sess[p].active BY <1>5 DEF SessionState
  <2> HIDE DEF s
  <2>3. pc'[p] = "seal_complete" /\ sess'[p] = s BY <1>t, <2>1, Zenon DEF Takes
  <2>4. Seals(p)' BY <1>4, <2>1, <2>2, <2>3, Zenon DEF Seals, C
  <2>5. conn[C(p)].rsp \in Quiet => HookAnswers(p, conn[C(p)].rsp)
    BY <2>1, <2>4, QuietAnswer, Zenon DEF HookAnswers
  <2>6. Same(conn[C(p)], conn[C(p)]) BY Zenon DEF Same
  <2> QED BY <1>1, <1>w, <2>1, <2>2, <2>4, <2>5, <2>6, HookGoesOn, Zenon
<1>10. CASE SendSealComplete(p)
  <2> DEFINE m == Msg("SealComplete", sess[p].active)
             k == Reply(conn[C(p)], m)
  <2>1. /\ pc[p] = "seal_complete"
        /\ Takes(p, sess[p], "loop", k) \/ EndSession(p, sess[p], consumer[p], TRUE)
    BY <1>10, <1>t, Zenon DEF SendSealComplete, Takes, Turns, At, SessionError
  <2>2. Seals(p) /\ sess[p].active = C(p) BY <1>4, <2>1, Zenon DEF Seals
  <2>3. conn[C(p)].rsp \in Quiet => k.rsp \in Replies(Msg("SealComplete", C(p)))
    BY <1>r, <2>2, QuietAnswer, Zenon
  <2>4. Same(conn[C(p)], k) /\ k.req = conn[C(p)].req BY <1>r, Zenon
  <2> HIDE DEF k
  <2>5. CASE Takes(p, sess[p], "loop", k)
    <3>1. pc'[p] = "loop" /\ sess'[p] = sess[p] BY <1>t, <2>5, Zenon DEF Takes
    <3>2. AwaitsOutcome(p)' BY <1>6, <2>1, <2>2, <3>1, Zenon DEF AwaitsOutcome, C
    <3>3. conn[C(p)].rsp \in Quiet => HookAnswers(p, k.rsp)
      BY <2>1, <2>3, <3>2, Zenon DEF HookAnswers
    <3> QED BY <1>1, <1>5, <1>w, <2>4, <2>5, <3>2, <3>3, HookGoesOn, Zenon
  <2> QED BY <1>e, <2>1, <2>5, Zenon
<1>11. CASE SealErr(p)
  <2> DEFINE s == [sess[p] EXCEPT !.drained = FALSE, !.active = 0]
             m == Msg("SealFailed", sess[p].active)
             k == Reply(conn[C(p)], m)
  <2>1. /\ pc[p] = "seal"
        /\ \/ Takes(p, s, "loop", k)
           \/ LeaveSession(p, sess[p], "resume_failed", k, TRUE)
           \/ EndSession(p, sess[p], consumer[p], TRUE)
    BY <1>11, Zenon DEF SealErr, Takes, Turns, Session, At
  <2>2. Seals(p) /\ sess[p].active = C(p) BY <1>4, <2>1, Zenon DEF Seals
  <2>3. s.conn = C(p) /\ s.active = 0 /\ ~s.drained /\ s.sealed = sess[p].sealed
    BY <1>5 DEF SessionState
  <2>4. conn[C(p)].rsp \in Quiet => k.rsp \in Replies(Msg("SealFailed", C(p)))
    BY <1>r, <2>2, QuietAnswer, Zenon
  <2>5. Same(conn[C(p)], k) /\ k.req = conn[C(p)].req BY <1>r, Zenon
  <2>6. k \in ConnState
    <3>1. m \in Message
      BY <1>5, MsgType1 DEF SessionState, MsgType
    <3> QED BY <1>3, <3>1, ConnQueueType, Zenon
  <2> HIDE DEF s, k
  <2>7. CASE Takes(p, s, "loop", k)
    <3>1. pc'[p] = "loop" /\ sess'[p] = s BY <1>t, <2>7, Zenon DEF Takes
    <3>2. AwaitsPrepare(p)' BY <1>6, <2>1, <2>3, <3>1, Zenon DEF AwaitsPrepare
    <3>3. conn[C(p)].rsp \in Quiet => HookAnswers(p, k.rsp)
      BY <2>1, <2>4, <3>2, Zenon DEF HookAnswers
    <3> QED BY <1>1, <1>w, <2>3, <2>5, <2>7, <3>2, <3>3, HookGoesOn, Zenon
  <2>8. CASE LeaveSession(p, sess[p], "resume_failed", k, TRUE)
    <3>1. ASSUME C(p) = hid, spc \notin Away PROVE Readable(k.rsp)
      <4>1. /\ spc \notin {"probe", "hello_o", "spawn", "hello_n", "negotiating", "prepare",
                           "draining", "seal_request", "drained"}
            /\ spc = "seal" => O.rsp \in Quiet
        BY <1>1, <1>3, <2>1, <3>1, HookTurn, Zenon
      <4>2. spc = "seal" => k.rsp \in Replies(Msg("SealFailed", hid))
        BY <1>3, <2>4, <3>1, <4>1, Zenon
      <4> QED BY <4>1, <4>2, Zenon DEF Readable
    <3> QED BY <1>2, <2>5, <2>6, <2>8, <3>1, SessionEnds, Zenon DEF Same
  <2> QED BY <1>e, <2>1, <2>7, <2>8, Zenon
<1>12. CASE HeartbeatDuringHook(p)
  <2> DEFINE k == Reply(conn[C(p)], Beat)
  <2>1. /\ pc[p] \in {"drain", "seal"} /\ Takes(p, sess[p], pc[p], k) /\ UNCHANGED <<pc, sess>>
        /\ \A i \in DOMAIN conn[C(p)].rsp : conn[C(p)].rsp[i].type # "Heartbeat"
    BY <1>12, <1>t, Zenon DEF HeartbeatDuringHook, Takes, Turns, Beat
  <2>2. conn[C(p)].rsp \in Quiet => k.rsp = <<Beat>>
    <3>1. conn[C(p)].rsp # <<Beat>>
      <4>1. 1 \in DOMAIN <<Beat>> /\ <<Beat>>[1].type = "Heartbeat" BY DEF Beat, Msg
      <4> QED BY <2>1, <4>1, Zenon
    <3>2. Append(<<>>, Beat) = <<Beat>> BY Words, Zenon
    <3> QED BY <1>r, <3>1, <3>2, Zenon DEF Quiet
  <2>3. Same(conn[C(p)], k) /\ k.req = conn[C(p)].req BY <1>r, Zenon
  <2> HIDE DEF k
  <2>4. /\ pc[p] = "drain" => Drains(p)'
        /\ pc[p] # "drain" => Seals(p)'
    BY <1>4, <2>1, Zenon DEF Drains, Seals, C
  <2>5. conn[C(p)].rsp \in Quiet => HookAnswers(p, k.rsp)
    BY <2>2, <2>4, Zenon DEF HookAnswers, Quiet, Replies
  <2> QED BY <1>1, <1>2, <1>5, <2>1, <2>3, <2>4, <2>5, HookGoesOn, Zenon
<1> QED BY <1>7, <1>8, <1>9, <1>10, <1>11, <1>12, Zenon

\* Every step of a primitive preserves DialogueInv.
LEMMA PrimitiveKeepsDialogue ==
    ASSUME HandoffInv, SealedInv, DialogueInv, NEW p \in Proc, PrimitiveStep(p)
    PROVE  DialogueInv'
<1>1. UNCHANGED <<spc, hid>> BY PrimitiveFrame, Zenon
<1>2. pc \in [Proc -> ProcPC] BY InvariantFacts, Zenon DEF TypeOK
<1>3. ASSUME NEW w, pc' = [pc EXCEPT ![p] = w], UNCHANGED <<sess, conn>>,
             pc[p] \notin SessionPC, pc[p] \in ServePC => w \in ServePC
      PROVE  DialogueInv'
  BY <1>1, <1>2, <1>3, OutsideDialogue, Zenon
<1>4. Exit(p) \/ FatalIo(p) => DialogueInv' BY <1>1, ExitDialogue, Zenon DEF Steady, FatalIo
<1>5. CASE ColdStart(p)
  BY <1>3, <1>5, Zenon DEF ColdStart, At, SessionPC, InLoop, ServePC
<1>6. CASE BindColdStart(p)
  BY <1>3, <1>4, <1>6, Zenon DEF BindColdStart, At, SessionPC, InLoop, ServePC
<1>7. CASE ServeStep(p)
  <2>1. CASE Accept(p) BY <1>1, <2>1, AcceptDialogue, Zenon
  <2>2. CASE RecvHelloAck(p) BY <1>1, <2>2, HelloAckDialogue, Zenon
  <2>3. CASE NoHelloAck(p) \/ Disconnected(p)
    <3>1. pc[p] \in SessionPC BY <2>3, Zenon DEF NoHelloAck, Disconnected, SessionPC, InLoop
    <3>2. \E e : EndSession(p, sess[p], consumer[p], e)
      BY <2>3, Zenon DEF NoHelloAck, Disconnected, SessionError
    <3> QED BY <1>1, <3>1, <3>2, SessionReturns, Zenon
  <2>4. CASE \/ RecvPrepareHandoff(p) \/ RecvSealRequest(p) \/ RecvCommit(p)
             \/ RecvResume(p) \/ RecvHeartbeat(p) \/ RecvUnexpected(p)
    BY <1>1, <2>4, LoopDialogue, Zenon
  <2>5. CASE DrainOk(p) \/ DrainErr(p) \/ SealOk(p) \/ SendSealComplete(p) \/ SealErr(p)
    BY <1>1, <2>5, HookDialogue, Zenon
  <2>6. CASE RecoverLock(p)
    BY <1>3, <1>4, <2>6, Zenon DEF RecoverLock, At, SessionPC, InLoop, ServePC
  <2>7. CASE GiveUp(p) BY <1>4, <2>7, Zenon DEF GiveUp
  <2>8. CASE AcceptFails(p)
    <3>1. FatalIo(p) \/ (pc[p] \notin SessionPC /\ UNCHANGED <<pc, sess, conn>>)
      BY <2>8, Zenon DEF AcceptFails, vars, SessionPC, InLoop
    <3> QED BY <1>1, <1>4, <3>1, OutsideDialogue, Zenon
  <2> QED BY <1>7, <2>1, <2>2, <2>3, <2>4, <2>5, <2>6, <2>7, <2>8, Zenon DEF ServeStep
<1>8. CASE HeartbeatDuringHook(p) BY <1>1, <1>8, HookDialogue, Zenon
<1>9. CASE SuccessorStep(p)
  <2> USE DEF SessionPC, InLoop, ServePC, Step, successorFrame, Fails
  <2>1. CASE SendHello(p) BY <1>3, <1>4, <2>1, Zenon DEF SendHello
  <2>2. CASE RecvAck(p) BY <1>3, <1>4, <2>2, Zenon DEF RecvAck
  <2>3. CASE RecvBegin(p) BY <1>3, <1>4, <2>3, Zenon DEF RecvBegin
  <2>4. CASE SupervisorGone(p) BY <1>4, <2>4, Zenon DEF SupervisorGone
  <2>5. CASE AcquireFlock(p) BY <1>3, <1>4, <2>5, Zenon DEF AcquireFlock
  <2>6. CASE AnnounceReady(p) BY <1>3, <1>4, <2>6, Zenon DEF AnnounceReady
  <2>7. CASE BindAfterReady(p) BY <1>3, <1>4, <2>7, Zenon DEF BindAfterReady
  <2>8. CASE InitFails(p) BY <1>4, <2>8, Zenon DEF InitFails
  <2> QED BY <1>9, <2>1, <2>2, <2>3, <2>4, <2>5, <2>6, <2>7, <2>8, Zenon DEF SuccessorStep
<1>10. CASE HeartbeatDuringInit(p)
  <2>1. pc[p] \notin SessionPC /\ UNCHANGED <<pc, sess, conn>>
    BY <1>10, Zenon DEF HeartbeatDuringInit, successorFrame, SessionPC, InLoop
  <2> QED BY <1>1, <2>1, OutsideDialogue, Zenon
<1>11. CASE ProcCrash(p) BY <1>4, <1>11, Zenon DEF ProcCrash
<1> QED BY <1>5, <1>6, <1>7, <1>8, <1>9, <1>10, <1>11, Zenon DEF PrimitiveStep
-----------------------------------------------------------------------------
\* A step of S keeps DialogueInv if it does so for the connection of its handoff.
LEMMA SupervisorDialogue ==
    ASSUME HandoffInv, SealedInv, DialogueInv, UNCHANGED <<hid, sess>>,
           \A p \in Proc : pc[p] # "unborn" => pc'[p] = pc[p],
           \A c \in Conn : c # hid => conn'[c] = conn[c],
           hid \in Conn =>
              /\ (O.oOpen)' = O.oOpen
              /\ O.oOpen => (O.o)' = O.o
              /\ (O.sOpen)' => (InHandoff \/ spc = "probe")'
              /\ ~O.oOpen => (O.req)' = <<>>
              /\ (O.oOpen /\ C(O.o) # hid) => (O.req)' = <<>> /\ (O.rsp)' = <<>>,
           \A p \in Proc : (C(p) = hid /\ C(p) # 0) => Asked(p)',
           (spc \notin Away)' => Readable(O.rsp)' /\ (O.oOpen => Turn(O.o))'
    PROVE  DialogueInv'
<1>1. EndsInv'
  <2> SUFFICES ASSUME NEW c \in Conn
               PROVE  /\ conn'[c].sOpen => c = hid /\ (InHandoff \/ spc = "probe")'
                      /\ conn'[c].oOpen => conn'[c].o \in Proc /\ pc'[conn'[c].o] \in ServePC
                      /\ ~conn'[c].oOpen => conn'[c].req = <<>>
                      /\ (conn'[c].oOpen /\ sess[conn'[c].o].conn # c) =>
                            conn'[c].req = <<>> /\ conn'[c].rsp = <<>>
    BY Zenon DEF EndsInv, InHandoff, C
  <2>1. /\ conn[c].sOpen => c = hid
        /\ conn[c].oOpen => conn[c].o \in Proc /\ pc[conn[c].o] \in ServePC
        /\ ~conn[c].oOpen => conn[c].req = <<>>
        /\ (conn[c].oOpen /\ sess[conn[c].o].conn # c) =>
              conn[c].req = <<>> /\ conn[c].rsp = <<>>
    BY Zenon DEF DialogueInv, EndsInv, C
  <2>2. conn[c].oOpen => pc'[conn[c].o] \in ServePC
    BY <2>1, Zenon DEF ServePC
  <2>3. CASE c # hid BY <2>1, <2>2, <2>3, Zenon
  <2>4. CASE c = hid
    <3>1. /\ conn'[c].oOpen = conn[c].oOpen
          /\ conn[c].oOpen => conn'[c].o = conn[c].o
          /\ conn'[c].sOpen => (InHandoff \/ spc = "probe")'
          /\ ~conn[c].oOpen => conn'[c].req = <<>>
          /\ (conn[c].oOpen /\ sess[conn[c].o].conn # c) => conn'[c].req = <<>> /\ conn'[c].rsp = <<>>
      BY <2>4, Zenon DEF O, C
    <3> QED BY <2>1, <2>2, <2>4, <3>1, Zenon
  <2> QED BY <2>3, <2>4, Zenon
<1>2. ASSUME NEW p \in Proc, C(p)' # 0 PROVE Asked(p)'
  <2>1. C(p) # 0 /\ C(p)' = C(p) BY <1>2, Zenon DEF C
  <2>2. CASE C(p) = hid BY <2>1, <2>2, Zenon
  <2>3. CASE C(p) # hid
    <3>1. C(p) \in Conn /\ pc[p] # "unborn"
      <4>1. pc[p] \in SessionPC BY <2>1, Zenon DEF SealedInv, SessionInv, C
      <4> QED BY <4>1, SessionConn, Zenon DEF SessionPC, InLoop
    <3>2. conn'[C(p)] = conn[C(p)] /\ pc'[p] = pc[p] BY <2>3, <3>1, Zenon
    <3>3. Asked(p) BY <2>1, Zenon DEF DialogueInv
    <3> QED
      BY <3>2, <3>3, Zenon DEF Asked, C, AwaitsAck, AwaitsPrepare, Drains, AwaitsSeal, Seals,
         AwaitsOutcome
  <2> QED BY <2>2, <2>3, Zenon
<1> QED BY <1>1, <1>2, Zenon DEF DialogueInv, Away

\* What DialogueInv says where S is.
LEMMA OFacts ==
    ASSUME HandoffInv, SealedInv, DialogueInv, spc \notin Away
    PROVE  /\ hid \in Conn /\ hid # 0 /\ O \in ConnState
           /\ Readable(O.rsp) /\ (O.oOpen => Turn(O.o) /\ O.o \in Proc /\ pc[O.o] \in ServePC)
           /\ ~O.oOpen => O.req = <<>>
           /\ (O.oOpen /\ C(O.o) # hid) => O.req = <<>> /\ O.rsp = <<>>
           /\ \A p \in Proc : C(p) = hid => p = O.o /\ O.oOpen /\ Asked(p) /\ pc[p] \in SessionPC
<1>1. hid \in Conn /\ O \in ConnState BY SupervisorUses, Zenon DEF Away
<1>2. hid # 0 BY <1>1 DEF Conn
<1>3. Readable(O.rsp) /\ (O.oOpen => Turn(O.o)) BY Zenon DEF DialogueInv, Away
<1>4. /\ O.oOpen => O.o \in Proc /\ pc[O.o] \in ServePC
      /\ ~O.oOpen => O.req = <<>>
      /\ (O.oOpen /\ C(O.o) # hid) => O.req = <<>> /\ O.rsp = <<>>
  BY <1>1, Zenon DEF DialogueInv, EndsInv, O
<1>5. \A p \in Proc : C(p) = hid => p = O.o /\ O.oOpen /\ Asked(p) /\ pc[p] \in SessionPC
  BY <1>2, Zenon DEF DialogueInv, SealedInv, SessionInv, O, C
<1> QED BY <1>1, <1>2, <1>3, <1>4, <1>5, Zenon

\* What a session was asked does not change with S's other queue.
LEMMA AskedKept ==
    ASSUME NEW p, Asked(p), UNCHANGED sess, pc'[p] = pc[p], conn'[C(p)].req = conn[C(p)].req
    PROVE  Asked(p)'
  BY Zenon DEF Asked, C, AwaitsAck, AwaitsPrepare, Drains, AwaitsSeal, Seals, AwaitsOutcome

\* S goes on without a frame to O: to another phase in which O has the same turn, or
\* past the seal.
LEMMA QuietDialogue ==
    ASSUME HandoffInv, SealedInv, DialogueInv, spc \notin Away, UNCHANGED <<hid, sess, conn>>,
           \A p \in Proc : pc[p] # "unborn" => pc'[p] = pc[p],
           \/ spc' \in Past
           \/ /\ spc \in {"spawn", "hello_n", "negotiating", "prepare"}
              /\ spc' \in {"spawn", "hello_n", "negotiating", "prepare"}
           \/ /\ spc \in {"draining", "seal_request"} /\ spc' \in {"draining", "seal_request"}
    PROVE  DialogueInv'
<1>1. /\ hid \in Conn /\ hid # 0 /\ O \in ConnState
      /\ Readable(O.rsp) /\ (O.oOpen => Turn(O.o) /\ O.o \in Proc /\ pc[O.o] \in ServePC)
      /\ ~O.oOpen => O.req = <<>>
      /\ (O.oOpen /\ C(O.o) # hid) => O.req = <<>> /\ O.rsp = <<>>
      /\ \A p \in Proc : C(p) = hid => p = O.o /\ O.oOpen /\ Asked(p) /\ pc[p] \in SessionPC
  BY OFacts, Zenon
<1>2. O' = O BY Zenon DEF O
<1>3. InHandoff' BY Zenon DEF InHandoff, Past, Driving, Unwinding
<1>4. ASSUME NEW p \in Proc, C(p) = hid PROVE Asked(p)'
  <2>1. pc'[p] = pc[p] BY <1>1, <1>4, Zenon DEF SessionPC, InLoop
  <2> QED BY <1>1, <1>4, <2>1, AskedKept, Zenon
<1>5. Readable(O.rsp)' BY <1>1, <1>2, Zenon DEF Readable, Past, Driving, Unwinding
<1>6. ASSUME O.oOpen PROVE Turn(O.o)'
  <2> DEFINE o == O.o
  <2>1. pc'[o] = pc[o] BY <1>1, <1>6, Zenon DEF ServePC
  <2>2. Turn(o) BY <1>1, <1>6, Zenon
  <2> HIDE DEF o
  <2>3. ASSUME NEW r, r = o PROVE Turn(r)'
    <3>1. CASE spc' \in Past BY <3>1, Zenon DEF Turn, Past, Driving, Unwinding
    <3>2. CASE spc' \notin Past
      <4>1. AwaitsAck(r)' = AwaitsAck(r) /\ AwaitsPrepare(r)' = AwaitsPrepare(r)
        BY <2>1, <2>3, Zenon DEF AwaitsAck, AwaitsPrepare
      <4>2. AwaitsSeal(r)' = AwaitsSeal(r) /\ C(r)' = C(r)
        BY <2>1, <2>3, Zenon DEF AwaitsSeal, C
      <4> QED BY <1>2, <2>2, <2>3, <3>2, <4>1, <4>2, Zenon DEF Turn
    <3> QED BY <3>1, <3>2, Zenon
  <2> QED BY <1>2, <2>3, Zenon DEF o
<1> QED BY <1>1, <1>2, <1>3, <1>4, <1>5, <1>6, SupervisorDialogue, Zenon

\* S sends to O or reads from it.
LEMMA TalkDialogue ==
    ASSUME HandoffInv, SealedInv, DialogueInv, spc \notin Away, UNCHANGED <<hid, sess, pc>>,
           InHandoff', NEW k, ToO(k), Same(O, k), ~O.oOpen => k.req = <<>>,
           (O.oOpen /\ C(O.o) # hid) => k.req = <<>> /\ k.rsp = <<>>,
           \A p \in Proc : C(p) = hid => Asked(p)',
           Readable(O.rsp)', \A r : (O.oOpen /\ r = O.o) => Turn(r)'
    PROVE  DialogueInv'
<1>1. hid \in Conn /\ hid # 0 BY OFacts, Zenon
<1>2. O' = k /\ \A c \in Conn : c # hid => conn'[c] = conn[c]
  BY <1>1, InvariantFacts, Zenon DEF TypeOK, ToO, O
<1>3. /\ (O.oOpen)' = O.oOpen /\ (O.o)' = O.o
      /\ ~O.oOpen => (O.req)' = <<>>
      /\ (O.oOpen /\ C(O.o) # hid) => (O.req)' = <<>> /\ (O.rsp)' = <<>>
  BY <1>2, Zenon DEF Same
<1> QED BY <1>1, <1>2, <1>3, SupervisorDialogue, Zenon

\* S reads a reply: past the seal nothing is left to show.
LEMMA ReadDialogue ==
    ASSUME HandoffInv, SealedInv, DialogueInv, spc \in {"drained", "seal"},
           UNCHANGED <<hid, sess, pc>>, O.rsp # <<>>, ToO(TakeReply(O)),
           \/ spc' \in Past
           \/ spc' = spc /\ Head(O.rsp).type = "Heartbeat"
           \/ spc' = "draining" /\ spc = "drained" /\ Head(O.rsp).type = "Drained"
    PROVE  DialogueInv'
<1> DEFINE k == TakeReply(O)
<1>a. spc \notin Away BY Zenon DEF Away
<1>1. /\ hid \in Conn /\ O \in ConnState /\ Readable(O.rsp)
      /\ O.oOpen => Turn(O.o) /\ O.o \in Proc
      /\ ~O.oOpen => O.req = <<>>
      /\ (O.oOpen /\ C(O.o) # hid) => O.req = <<>> /\ O.rsp = <<>>
      /\ \A p \in Proc : C(p) = hid => Asked(p)
  BY <1>a, OFacts, Zenon
<1>2. Same(O, k) /\ k.req = O.req /\ k.rsp = Tail(O.rsp) BY <1>1, QueueFields, Zenon
<1>3. O' = k BY <1>1, InvariantFacts, Zenon DEF TypeOK, ToO, O
<1>k. ToO(k) OBVIOUS
<1> HIDE DEF k
<1>4. InHandoff' BY Zenon DEF InHandoff, Past, Driving, Unwinding
<1>5. ASSUME NEW p \in Proc, C(p) = hid PROVE Asked(p)'
  <2>1. conn'[C(p)].req = conn[C(p)].req BY <1>2, <1>3, <1>5, Zenon DEF O
  <2> QED BY <1>1, <1>5, <2>1, AskedKept, Zenon
<1>6. ASSUME NEW m, O.rsp \in Replies(m)
      PROVE  /\ Head(O.rsp).type = "Heartbeat" \/ (Head(O.rsp) = m /\ O.rsp \notin Quiet /\ k.rsp = <<>>)
                \/ m.type = "Heartbeat"
             /\ k.rsp = <<>> \/ k.rsp = <<m>>
             /\ O.rsp \in Quiet => k.rsp = <<>>
  <2>1. \A a, b : /\ Head(<<a>>) = a /\ Head(<<a, b>>) = a
                  /\ Tail(<<a>>) = <<>> /\ Tail(<<a, b>>) = <<b>> /\ <<a>> # <<>>
    BY Words, Zenon
  <2>2. Beat.type = "Heartbeat" BY MsgFields, Zenon DEF Beat
  <2>3. ASSUME O.rsp = <<m>>, m.type # "Heartbeat" PROVE O.rsp \notin Quiet
    <3>1. Head(O.rsp) = m /\ Head(<<Beat>>) = Beat BY <2>1, <2>3, Zenon
    <3> QED BY <2>1, <2>2, <2>3, <3>1, Zenon DEF Quiet
  <2> QED BY <1>2, <1>6, <2>1, <2>2, <2>3, Zenon DEF Replies, Quiet
<1>7. CASE spc' \in Past
  <2>1. Readable(O.rsp)' /\ \A r : Turn(r)'
    BY <1>7, Zenon DEF Readable, Turn, Past, Driving, Unwinding
  <2> QED BY <1>a, <1>k, <1>1, <1>2, <1>4, <1>5, <2>1, TalkDialogue, Zenon
<1>q. ASSUME NEW r, O.oOpen, r = O.o
      PROVE  /\ Turn(r) /\ C(r)' = C(r) /\ C(r) = hid
             /\ Drains(r)' = Drains(r) /\ AwaitsSeal(r)' = AwaitsSeal(r) /\ Seals(r)' = Seals(r)
             /\ AwaitsOutcome(r)' = AwaitsOutcome(r) /\ AwaitsPrepare(r)' = AwaitsPrepare(r)
             /\ (O.req)' = O.req /\ (O.rsp)' = k.rsp
  BY <1>1, <1>2, <1>3, <1>q, Zenon DEF C, Drains, AwaitsSeal, Seals, AwaitsOutcome, AwaitsPrepare
<1>8. CASE spc' = spc /\ Head(O.rsp).type = "Heartbeat"
  <2>1. Readable(O.rsp)'
    <3>1. CASE spc = "drained"
      <4>1. O.rsp \in Replies(Msg("Drained", 0)) BY <1>1, <3>1, Zenon DEF Readable
      <4>2. k.rsp = <<>> \/ k.rsp = <<Msg("Drained", 0)>> BY <1>6, <4>1, Zenon
      <4>3. k.rsp \in Replies(Msg("Drained", 0)) BY <4>2, Zenon DEF Replies
      <4> QED BY <1>3, <1>8, <3>1, <4>3, Zenon DEF Readable
    <3>2. CASE spc = "seal"
      <4>1. PICK m \in {Msg("SealComplete", hid), Msg("SealFailed", hid)} : O.rsp \in Replies(m)
        BY <1>1, <3>2, Zenon DEF Readable
      <4>2. k.rsp = <<>> \/ k.rsp = <<m>> BY <1>6, <4>1, Zenon
      <4>3. k.rsp \in Replies(m) BY <4>2, Zenon DEF Replies
      <4> QED BY <1>3, <1>8, <3>2, <4>1, <4>3, Zenon DEF Readable
    <3> QED BY <3>1, <3>2, Zenon
  <2>2. O.rsp \in Quiet => k.rsp \in Quiet
    <3>1. Quiet \subseteq Replies(Beat) BY Zenon DEF Quiet, Replies
    <3> QED BY <1>6, <3>1, Zenon DEF Quiet
  <2>3. ASSUME NEW r, O.oOpen, r = O.o PROVE Turn(r)'
    BY <1>q, <1>8, <2>2, <2>3, ZenonT(30) DEF Turn
  <2> QED BY <1>a, <1>k, <1>1, <1>2, <1>4, <1>5, <2>1, <2>3, TalkDialogue, Zenon
<1>9. CASE spc' = "draining" /\ spc = "drained" /\ Head(O.rsp).type = "Drained"
  <2>1. O.rsp \in Replies(Msg("Drained", 0)) BY <1>1, <1>9, Zenon DEF Readable
  <2>2. O.rsp \notin Quiet /\ k.rsp = <<>>
    <3>1. Msg("Drained", 0).type = "Drained" BY MsgFields, Zenon
    <3> QED BY <1>6, <1>9, <2>1, <3>1, Zenon
  <2>3. Readable(O.rsp)' BY <1>3, <1>9, <2>2, Zenon DEF Readable
  <2>4. ASSUME NEW r, O.oOpen, r = O.o PROVE Turn(r)'
    BY <1>q, <1>9, <2>2, <2>4, Zenon DEF Turn, Quiet
  <2> QED BY <1>a, <1>k, <1>1, <1>2, <1>4, <1>5, <2>3, <2>4, TalkDialogue, Zenon
<1> QED BY <1>7, <1>8, <1>9, Zenon

\* S sends PrepareHandoff, SealRequest, or the outcome.
LEMMA SendDialogue ==
    ASSUME HandoffInv, SealedInv, DialogueInv, spc \notin Away, UNCHANGED <<hid, sess, pc>>,
           O.oOpen, NEW t, ToO(Request(O, Msg(t, hid))),
           \/ spc = "prepare" /\ t = "PrepareHandoff" /\ spc' = "drained"
           \/ spc = "seal_request" /\ t = "SealRequest" /\ spc' = "seal"
           \/ spc \in Driving /\ t \in {"Commit", "ResumeAfterAbort"} /\ spc' \in Past
    PROVE  DialogueInv'
<1> DEFINE k == Request(O, Msg(t, hid))
           o == O.o
<1>1. /\ hid \in Conn /\ O \in ConnState /\ Readable(O.rsp) /\ Turn(o)
      /\ o \in Proc /\ pc[o] \in ServePC
      /\ C(o) # hid => O.req = <<>> /\ O.rsp = <<>>
      /\ \A p \in Proc : C(p) = hid => p = o /\ Asked(p)
  BY OFacts, Zenon
<1>2. Same(O, k) /\ k.req = Append(O.req, Msg(t, hid)) /\ k.rsp = O.rsp
  BY <1>1, QueueFields, Zenon
<1>3. O' = k BY <1>1, InvariantFacts, Zenon DEF TypeOK, ToO, O
<1>k. ToO(k) OBVIOUS
<1>o. o = O.o OBVIOUS
<1> HIDE DEF k, o
<1>4. InHandoff' BY Zenon DEF InHandoff, Past, Driving, Unwinding
<1>5. \A a, b : Append(<<>>, a) = <<a>> /\ Append(<<a>>, b) = <<a, b>> BY Words, Zenon
<1>6. ASSUME NEW r
      PROVE  /\ C(r)' = C(r) /\ AwaitsAck(r)' = AwaitsAck(r)
             /\ AwaitsPrepare(r)' = AwaitsPrepare(r) /\ AwaitsSeal(r)' = AwaitsSeal(r)
             /\ AwaitsOutcome(r)' = AwaitsOutcome(r)
  BY Zenon DEF C, AwaitsAck, AwaitsPrepare, AwaitsSeal, AwaitsOutcome
<1>7. SUFFICES ASSUME NEW r \in Proc, r = o
               PROVE  C(r) = hid /\ Asked(r)' /\ Readable(O.rsp)' /\ Turn(r)'
  <2>1. C(o) = hid /\ Readable(O.rsp)' BY <1>1, <1>7, Zenon
  <2> QED BY <1>k, <1>o, <1>1, <1>2, <1>4, <1>7, <2>1, TalkDialogue, Zenon
<1>8. Turn(r) /\ (C(r) = hid => conn'[C(r)] = k /\ Asked(r)) BY <1>1, <1>3, <1>7, Zenon DEF O
<1>9. CASE spc = "prepare" /\ t = "PrepareHandoff" /\ spc' = "drained"
  <2>1. /\ C(r) = hid
        /\ \/ AwaitsAck(r) /\ O.req = <<Msg("HelloAck", hid)>>
           \/ AwaitsPrepare(r) /\ O.req = <<>>
    BY <1>8, <1>9, Zenon DEF Turn
  <2>2. \/ /\ AwaitsAck(r)
           /\ k.req = <<Msg("HelloAck", hid), Msg("PrepareHandoff", hid)>>
        \/ AwaitsPrepare(r) /\ k.req = <<Msg("PrepareHandoff", hid)>>
    BY <1>2, <1>5, <1>9, <2>1, Zenon
  <2>3. k.rsp = <<>> BY <1>1, <1>2, <1>9, Zenon DEF Readable
  <2>4. Asked(r)'
    <3>1. C(r)' = C(r) /\ C(r) = hid /\ conn'[C(r)] = k BY <1>6, <1>8, <2>1, Zenon
    <3>2. \/ /\ AwaitsAck(r)'
             /\ k.req = <<Msg("HelloAck", hid), Msg("PrepareHandoff", hid)>>
          \/ AwaitsPrepare(r)' /\ k.req = <<Msg("PrepareHandoff", hid)>>
      BY <1>6, <2>2, Zenon
    <3> QED BY <3>1, <3>2, Zenon DEF Asked
  <2>5. Readable(O.rsp)' BY <1>3, <1>9, <2>3, Zenon DEF Readable, Replies
  <2>6. Turn(r)' BY <1>3, <1>6, <1>9, <2>1, <2>2, <2>3, Zenon DEF Turn
  <2> QED BY <2>1, <2>4, <2>5, <2>6, Zenon
<1>10. CASE spc = "seal_request" /\ t = "SealRequest" /\ spc' = "seal"
  <2>1. C(r) = hid /\ AwaitsSeal(r) /\ O.req = <<>> BY <1>8, <1>10, Zenon DEF Turn
  <2>2. k.req = <<Msg("SealRequest", hid)>> BY <1>2, <1>5, <1>10, <2>1, Zenon
  <2>3. k.rsp = <<>> BY <1>1, <1>2, <1>10, Zenon DEF Readable
  <2>4. Asked(r)'
    <3>1. /\ C(r)' = C(r) /\ C(r) = hid /\ conn'[C(r)] = k /\ AwaitsSeal(r)'
      BY <1>6, <1>8, <2>1, Zenon
    <3> QED BY <2>2, <3>1, Zenon DEF Asked
  <2>5. Readable(O.rsp)' BY <1>3, <1>10, <2>3, Zenon DEF Readable, Replies
  <2>6. Turn(r)' BY <1>3, <1>6, <1>10, <2>1, <2>2, <2>3, Zenon DEF Turn
  <2> QED BY <2>1, <2>4, <2>5, <2>6, Zenon
<1>11. CASE spc \in Driving /\ t \in {"Commit", "ResumeAfterAbort"} /\ spc' \in Past
  <2>1. Held BY <1>11, Zenon DEF SealedInv, HeldInv
  <2>2. pc[r] = "loop" /\ C(r) = hid /\ sess[r].sealed /\ O.req = <<>>
    BY <1>1, <1>7, <1>o, <2>1, Zenon DEF Held, O, C, ServePC
  <2>3. AwaitsOutcome(r)
    BY <1>8, <2>2, Zenon DEF Asked, AwaitsAck, AwaitsPrepare, Drains, AwaitsSeal, Seals
  <2>4. k.req = <<Msg(t, hid)>> BY <1>2, <1>5, <2>2, Zenon
  <2>5. Asked(r)'
    <3>1. /\ C(r)' = C(r) /\ C(r) = hid /\ conn'[C(r)] = k /\ AwaitsOutcome(r)'
      BY <1>6, <1>8, <2>2, <2>3, Zenon
    <3> QED BY <1>11, <2>4, <3>1, Zenon DEF Asked
  <2>6. Readable(O.rsp)' /\ Turn(r)' BY <1>11, Zenon DEF Readable, Turn, Past, Driving, Unwinding
  <2> QED BY <2>2, <2>5, <2>6, Zenon
<1> QED BY <1>9, <1>10, <1>11, Zenon

\* S reads O's Hello and answers it.
LEMMA HelloDialogue ==
    ASSUME HandoffInv, SealedInv, DialogueInv, spc = "hello_o", spc' = "spawn",
           UNCHANGED <<hid, sess, pc>>, O.oOpen, O.rsp # <<>>,
           ToO(Request(TakeReply(O), Msg("HelloAck", hid)))
    PROVE  DialogueInv'
<1> DEFINE l == TakeReply(O)
           k == Request(l, Msg("HelloAck", hid))
           o == O.o
<1>a. spc \notin Away BY Zenon DEF Away
<1>1. /\ hid \in Conn /\ O \in ConnState /\ Readable(O.rsp) /\ Turn(o) /\ o \in Proc
      /\ C(o) # hid => O.req = <<>> /\ O.rsp = <<>>
      /\ \A p \in Proc : C(p) = hid => p = o /\ Asked(p)
  BY <1>a, OFacts, Zenon
<1>2. l \in ConnState BY <1>1, MsgType1, ConnQueueType DEF MsgType, Id
<1>3. Same(O, l) /\ l.req = O.req /\ l.rsp = Tail(O.rsp) BY <1>1, QueueFields, Zenon
<1>4. Same(l, k) /\ k.req = Append(l.req, Msg("HelloAck", hid)) /\ k.rsp = l.rsp
  BY <1>2, QueueFields, Zenon
<1>5. O' = k BY <1>1, InvariantFacts, Zenon DEF TypeOK, ToO, O
<1>k. ToO(k) OBVIOUS
<1>o. o = O.o OBVIOUS
<1> HIDE DEF k, l, o
<1>6. Same(O, k) BY <1>3, <1>4, Zenon DEF Same
<1>7. C(o) = hid /\ AwaitsAck(o) /\ O.req = <<>> BY <1>1, Zenon DEF Turn
<1>8. k.req = <<Msg("HelloAck", hid)>> /\ k.rsp = <<>>
  <2>1. \A a : Append(<<>>, a) = <<a>> /\ Tail(<<a>>) = <<>> BY Words, Zenon
  <2>2. O.rsp = <<Msg("Hello", 0)>> BY <1>1, Zenon DEF Readable
  <2> QED BY <1>3, <1>4, <1>7, <2>1, <2>2, Zenon
<1>9. ASSUME NEW r \in Proc, r = o PROVE Asked(r)' /\ Turn(r)'
  <2>1. C(r)' = C(r) /\ C(r) = hid /\ AwaitsAck(r)' BY <1>7, <1>9, Zenon DEF C, AwaitsAck
  <2>2. conn'[C(r)] = k BY <1>5, <2>1, Zenon DEF O
  <2>3. Asked(r)' BY <1>8, <2>1, <2>2, Zenon DEF Asked
  <2>4. Turn(r)' BY <1>5, <1>8, <2>1, Zenon DEF Turn
  <2> QED BY <2>3, <2>4, Zenon
<1>10. Readable(O.rsp)' BY <1>5, <1>8, Zenon DEF Readable
<1>11. InHandoff' BY Zenon DEF InHandoff
<1> QED BY <1>a, <1>k, <1>o, <1>1, <1>6, <1>7, <1>9, <1>10, <1>11, TalkDialogue, Zenon

\* S has no handoff under way and starts none.
LEMMA AwayDialogue ==
    ASSUME HandoffInv, SealedInv, DialogueInv, spc \in Away, spc' \in Away,
           UNCHANGED <<hid, sess, pc, conn>>
    PROVE  DialogueInv'
<1>1. \A p \in Proc : C(p) # 0 => Asked(p)'
  <2> SUFFICES ASSUME NEW p \in Proc, C(p) # 0 PROVE Asked(p)'
    BY Zenon
  <2>1. Asked(p) BY Zenon DEF DialogueInv
  <2> QED BY <2>1, AskedKept, Zenon
<1>2. \A c \in Conn : ~conn[c].sOpen
  BY Zenon DEF DialogueInv, EndsInv, InHandoff, Away
<1>3. EndsInv' BY <1>2, Zenon DEF DialogueInv, EndsInv, C
<1> QED BY <1>1, <1>3, Zenon DEF DialogueInv, Away, C

\* S closes its ends: it returns, ends its probe, or dies.
LEMMA ClosedDialogue ==
    ASSUME HandoffInv, SealedInv, DialogueInv, spc' \in Away, UNCHANGED <<hid, sess, pc>>,
           \A c \in Conn : conn'[c] = CloseS(conn[c]) \/ (c # hid /\ conn'[c] = conn[c])
    PROVE  DialogueInv'
<1>1. ASSUME NEW c \in Conn
      PROVE  /\ ~conn'[c].sOpen /\ conn'[c].oOpen = conn[c].oOpen
             /\ conn[c].oOpen => conn'[c].o = conn[c].o /\ conn'[c].req = conn[c].req
             /\ ~conn[c].oOpen => conn'[c].req = <<>>
             /\ conn'[c].rsp = <<>> \/ conn'[c].rsp = conn[c].rsp
  <2>1. CASE c # hid /\ conn'[c] = conn[c]
    BY <1>1, <2>1, Zenon DEF DialogueInv, EndsInv
  <2>2. CASE conn'[c] = CloseS(conn[c])
    <3> DEFINE l == CloseS(conn[c])
    <3>1. /\ ~l.sOpen /\ l.rsp = <<>> /\ l.oOpen = conn[c].oOpen
          /\ conn[c].oOpen => l.o = conn[c].o /\ l.req = conn[c].req
          /\ ~conn[c].oOpen => l.req = <<>>
      BY <1>1, InvariantFacts, ClosedFields, Zenon
    <3>2. conn'[c] = l BY <2>2
    <3> HIDE DEF l
    <3> QED BY <3>1, <3>2, Zenon
  <2> QED BY <1>1, <2>1, <2>2, Zenon
<1>2. EndsInv'
  <2> SUFFICES ASSUME NEW c \in Conn
               PROVE  /\ ~conn'[c].sOpen
                      /\ conn'[c].oOpen => conn'[c].o \in Proc /\ pc[conn'[c].o] \in ServePC
                      /\ ~conn'[c].oOpen => conn'[c].req = <<>>
                      /\ (conn'[c].oOpen /\ sess[conn'[c].o].conn # c) =>
                            conn'[c].req = <<>> /\ conn'[c].rsp = <<>>
    BY Zenon DEF EndsInv, C
  <2>1. /\ conn[c].oOpen => conn[c].o \in Proc /\ pc[conn[c].o] \in ServePC
        /\ (conn[c].oOpen /\ sess[conn[c].o].conn # c) =>
              conn[c].req = <<>> /\ conn[c].rsp = <<>>
    BY Zenon DEF DialogueInv, EndsInv, C
  <2> QED BY <1>1, <2>1, Zenon
<1>3. ASSUME NEW p \in Proc, C(p) # 0 PROVE Asked(p)'
  <2>1. pc[p] \in SessionPC BY <1>3, Zenon DEF SealedInv, SessionInv, C
  <2>2. C(p) \in Conn /\ conn[C(p)].oOpen /\ Asked(p) BY <2>1, SessionFacts, Zenon
  <2> QED BY <1>1, <2>2, AskedKept, Zenon
<1> QED BY <1>2, <1>3, Zenon DEF DialogueInv, Away, C

\* S connects: the connection is new, and in the backlog of a listener.
LEMMA ConnectDialogue ==
    ASSUME HandoffInv, SealedInv, DialogueInv, spc \in Away, spc' \in {"probe", "hello_o"},
           UNCHANGED <<sess, pc>>, Connectable, Connect
    PROVE  DialogueInv'
<1> DEFINE n == [NoConn EXCEPT !.o = path, !.sOpen = TRUE, !.oOpen = TRUE]
<1>1. hid' = hid + 1 /\ hid' \in Conn /\ conn' = [conn EXCEPT ![hid'] = n]
  BY InvariantFacts, ConnectType DEF Connect
<1>2. n.o = path /\ n.oOpen /\ n.req = <<>> /\ n.rsp = <<>> BY DEF NoConn
<1> HIDE DEF n
<1>3. path \in Proc /\ pc[path] \in ServePC
  BY InvariantFacts, Zenon DEF TypeOK, Connectable, Listening
<1>4. \A p \in Proc : C(p) # hid'
  <2> SUFFICES ASSUME NEW p \in Proc PROVE C(p) # hid'
    BY Zenon
  <2>1. sess[p].conn \in Id /\ sess[p].conn <= hid /\ hid \in Id
    BY InvariantFacts, Zenon DEF SealOnceInv, SessionState
  <2> QED BY <1>1, <2>1 DEF C, Id
<1>5. O' = n /\ \A c \in Conn : c # hid' => conn'[c] = conn[c]
  BY <1>1, InvariantFacts, Zenon DEF TypeOK, O
<1>6. \A c \in Conn : ~conn[c].sOpen
  BY Zenon DEF DialogueInv, EndsInv, InHandoff, Away
<1>7. EndsInv'
  <2> SUFFICES ASSUME NEW c \in Conn
               PROVE  /\ conn'[c].sOpen => c = hid' /\ (InHandoff \/ spc = "probe")'
                      /\ conn'[c].oOpen => conn'[c].o \in Proc /\ pc[conn'[c].o] \in ServePC
                      /\ ~conn'[c].oOpen => conn'[c].req = <<>>
                      /\ (conn'[c].oOpen /\ sess[conn'[c].o].conn # c) =>
                            conn'[c].req = <<>> /\ conn'[c].rsp = <<>>
    BY Zenon DEF EndsInv, C
  <2>1. CASE c = hid'
    <3>1. conn'[c] = n BY <1>5, <2>1, Zenon DEF O
    <3>2. (InHandoff \/ spc = "probe")' BY Zenon DEF InHandoff
    <3> QED BY <1>2, <1>3, <2>1, <3>1, <3>2, Zenon
  <2>2. CASE c # hid'
    <3>1. conn'[c] = conn[c] BY <1>5, <2>2, Zenon
    <3> QED BY <1>6, <3>1, Zenon DEF DialogueInv, EndsInv, C
  <2> QED BY <2>1, <2>2, Zenon
<1>8. ASSUME NEW p \in Proc, C(p) # 0 PROVE Asked(p)'
  <2>1. pc[p] \in SessionPC BY <1>8, Zenon DEF SealedInv, SessionInv, C
  <2>2. C(p) \in Conn /\ Asked(p) BY <2>1, SessionFacts, Zenon
  <2>3. conn'[C(p)] = conn[C(p)] BY <1>4, <1>5, <2>2, Zenon
  <2> QED BY <2>2, <2>3, AskedKept, Zenon
<1>9. Readable(O.rsp)' BY <1>2, <1>5, Zenon DEF Readable
<1>10. Turn(O.o)'
  <2>1. (O.o)' \in Proc BY <1>2, <1>3, <1>5, Zenon
  <2>2. sess'[(O.o)'].conn # hid' BY <1>4, <2>1, Zenon DEF C
  <2> QED BY <2>2, Zenon DEF Turn, C
<1> QED BY <1>7, <1>8, <1>9, <1>10, Zenon DEF DialogueInv, C

\* S starts, restarts, probes, connects, returns or dies.
LEMMA BootDialogue ==
    ASSUME HandoffInv, SealedInv, DialogueInv,
           BootStep \/ PerformHandoff \/ SupervisorCrash \/ Restart \/ Return
    PROVE  DialogueInv'
<1> USE DEF Goto, primitivesUnchanged, primitiveVars
<1>1. CASE Probe \/ Return
  <2>1. /\ spc' \in Away /\ UNCHANGED <<hid, sess, pc>> /\ ToO(CloseS(O)) /\ spc \notin Away
    BY <1>1, Zenon DEF Probe, Return, Away
  <2>2. hid \in Conn BY <2>1, OFacts, Zenon
  <2>3. \A c \in Conn : conn'[c] = CloseS(conn[c]) \/ (c # hid /\ conn'[c] = conn[c])
    BY <2>1, <2>2, InvariantFacts, Zenon DEF TypeOK, ToO, O
  <2> QED BY <2>1, <2>3, ClosedDialogue, Zenon
<1>2. CASE SupervisorCrash
  <2>1. spc' \in Away /\ UNCHANGED <<hid, sess, pc>> /\ \A c \in Conn : conn'[c] = CloseS(conn[c])
    BY <1>2, Zenon DEF SupervisorCrash, Away
  <2> QED BY <2>1, ClosedDialogue, Zenon
<1>3. CASE (ResumeFromJournal \/ PerformHandoff \/ ProbeClear \/ Restart) /\ UNCHANGED <<conn, hid>>
  <2>1. CASE ResumeFromJournal /\ Connect
    <3>1. hid \in Nat BY InvariantFacts DEF TypeOK, Id
    <3> QED BY <1>3, <2>1, <3>1 DEF Connect
  <2>2. CASE PerformHandoff /\ Connect
    <3>1. hid \in Nat BY InvariantFacts DEF TypeOK, Id
    <3> QED BY <1>3, <2>2, <3>1 DEF Connect
  <2>3. spc \in Away /\ UNCHANGED <<sess, pc>>
    BY <1>3, Zenon DEF ResumeFromJournal, PerformHandoff, ProbeClear, Restart, Away
  <2>4. CASE spc' \in Away BY <1>3, <2>3, <2>4, AwayDialogue, Zenon
  <2> QED BY <1>3, <2>1, <2>2, <2>4, Zenon
          DEF ResumeFromJournal, PerformHandoff, ProbeClear, Restart, Away
<1>4. CASE (ResumeFromJournal \/ PerformHandoff) /\ ~UNCHANGED <<conn, hid>>
  <2>1. /\ spc \in Away /\ spc' \in {"probe", "hello_o"} /\ UNCHANGED <<sess, pc>>
        /\ Connectable /\ Connect
    BY <1>4, Zenon DEF ResumeFromJournal, PerformHandoff, Away
  <2> QED BY <2>1, ConnectDialogue, Zenon
<1> QED BY <1>1, <1>2, <1>3, <1>4, Zenon DEF BootStep, ProbeClear, Restart

\* The ChildGuard kills N: at most the connections of N close.
LEMMA KillDialogue ==
    ASSUME HandoffInv, SealedInv, DialogueInv, Kill
    PROVE  DialogueInv'
<1>1. spc \in Past /\ spc' \in Past /\ hid' = hid
  BY Zenon DEF Kill, Goto, Past, Driving, Unwinding
<1>2. spc \notin Away /\ child \in Proc
  <2>1. spc \notin Away BY Zenon DEF Kill, Away
  <2>2. child \in Proc BY InvariantFacts, Zenon DEF Kill, SupervisorInv, TypeOK
  <2> QED BY <2>1, <2>2, Zenon
<1>3. CASE Alive(child)
  <2>1. Exit(child) BY <1>3, Zenon DEF Kill, KillAndReap
  <2> QED BY <1>1, <1>2, <2>1, ExitDialogue, Zenon DEF Steady
<1>4. CASE ~Alive(child)
  <2>1. UNCHANGED <<pc, sess, conn>> BY <1>4, Zenon DEF Kill, KillAndReap
  <2> QED BY <1>1, <1>2, <2>1, QuietDialogue, Zenon
<1> QED BY <1>3, <1>4, Zenon

\* S's steps keep DialogueInv.
LEMMA SupervisorKeepsDialogue ==
    ASSUME HandoffInv, SealedInv, DialogueInv, SupervisorStep
    PROVE  DialogueInv'
<1>1. CASE BootStep \/ PerformHandoff \/ SupervisorCrash \/ Restart \/ Return
  BY <1>1, BootDialogue, Zenon
<1>2. CASE Kill BY <1>2, KillDialogue, Zenon
<1> USE DEF Goto, primitivesUnchanged, primitiveVars
<1>f. ASSUME NEW r, FailWith(r) PROVE spc' \in Past
  BY <1>f, Zenon DEF FailWith, Past, Unwinding
<1>3. CASE SpawnSuccessor
  <2>1. /\ spc = "spawn" /\ UNCHANGED <<sess, conn, hid>>
        /\ spc' = "hello_n" \/ spc' \in Past
    BY <1>3, <1>f, Zenon DEF SpawnSuccessor
  <2>2. \A p \in Proc : pc[p] # "unborn" => pc'[p] = pc[p]
    BY <1>3, InvariantFacts, Zenon DEF SpawnSuccessor, TypeOK
  <2> QED BY <2>1, <2>2, QuietDialogue, Zenon DEF Away
<1>4. CASE HelloO
  <2>1. spc = "hello_o" /\ UNCHANGED <<pc, sess, hid>> BY <1>4, Zenon DEF HelloO
  <2>2. CASE FailWith("error") /\ UNCHANGED conn
    BY <1>f, <2>1, <2>2, QuietDialogue, Zenon DEF Away
  <2>3. CASE ~(FailWith("error") /\ UNCHANGED conn)
    <3>1. /\ O.rsp # <<>> /\ O.oOpen /\ spc' = "spawn"
          /\ ToO(Request(TakeReply(O), Msg("HelloAck", hid)))
      BY <1>4, <2>3, Zenon DEF HelloO
    <3> QED BY <2>1, <3>1, HelloDialogue, Zenon
  <2> QED BY <2>2, <2>3, Zenon
<1>5. CASE HelloN
  <2>1. /\ spc = "hello_n" /\ UNCHANGED <<pc, sess, hid, conn>>
        /\ spc' = "negotiating" \/ spc' \in Past
    BY <1>5, <1>f, Zenon DEF HelloN
  <2> QED BY <2>1, QuietDialogue, Zenon DEF Away
<1>6. CASE \/ JournalNegotiating \/ JournalDraining \/ JournalSealing \/ JournalAwaitingReady
           \/ JournalResuming
  <2>1. /\ UNCHANGED <<pc, sess, hid, conn>>
        /\ spc \in {"negotiating", "draining", "sealing", "awaiting_ready", "resuming"}
        /\ \/ spc = "negotiating" /\ spc' = "prepare"
           \/ spc = "draining" /\ spc' = "seal_request"
           \/ spc' \in {"begin", "ready", "clear"}
           \/ FailWith("error")
    BY <1>6, Zenon DEF JournalNegotiating, JournalDraining, JournalSealing, JournalAwaitingReady,
       JournalResuming, JournalSet
  <2>2. spc \notin Away BY <2>1, Zenon DEF Away
  <2>3. \/ spc = "negotiating" /\ spc' = "prepare"
        \/ spc = "draining" /\ spc' = "seal_request"
        \/ spc' \in Past
    BY <1>f, <2>1, Zenon DEF Past, Driving, Unwinding
  <2> QED BY <2>1, <2>2, <2>3, QuietDialogue, Zenon
<1>7. CASE PrepareHandoff \/ SealRequest \/ ResumeAfterAbort
  <2>1. PICK t \in {"PrepareHandoff", "SealRequest", "ResumeAfterAbort"} :
          /\ UNCHANGED <<pc, sess, hid>> /\ spc \in {"prepare", "seal_request", "resume"}
          /\ \/ /\ ToO(Request(O, Msg(t, hid))) /\ O.oOpen
                /\ \/ spc = "prepare" /\ t = "PrepareHandoff" /\ spc' = "drained"
                   \/ spc = "seal_request" /\ t = "SealRequest" /\ spc' = "seal"
                   \/ spc = "resume" /\ t = "ResumeAfterAbort" /\ spc' = "resuming"
             \/ UNCHANGED conn /\ FailWith("error")
    BY <1>7, Zenon DEF PrepareHandoff, SealRequest, ResumeAfterAbort, SendToO
  <2>2. spc \notin Away BY <2>1, Zenon DEF Away
  <2>3. CASE UNCHANGED conn /\ FailWith("error")
    BY <1>f, <2>1, <2>2, <2>3, QuietDialogue, Zenon
  <2>4. CASE ~(UNCHANGED conn /\ FailWith("error"))
    <3>1. "resume" \in Driving /\ "resuming" \in Past BY Zenon DEF Driving, Past, Unwinding
    <3> QED BY <2>1, <2>2, <2>4, <3>1, SendDialogue, Zenon
  <2> QED BY <2>3, <2>4, Zenon
<1>8. CASE AwaitDrained \/ DrainedDeadline \/ RecvSealReply \/ SealDeadline
  <2>1. /\ UNCHANGED <<pc, sess, hid>> /\ spc \in {"drained", "seal"}
        /\ \/ UNCHANGED conn /\ FailWith("error")
           \/ /\ O.rsp # <<>> /\ ToO(TakeReply(O))
              /\ \/ FailWith("error") \/ spc' \in {"sealing", "kill_clear"}
                 \/ spc' = spc /\ Head(O.rsp).type = "Heartbeat"
                 \/ spc' = "draining" /\ spc = "drained" /\ Head(O.rsp).type = "Drained"
    BY <1>8, Zenon DEF AwaitDrained, DrainedDeadline, RecvSealReply, SealDeadline, AbortSealPhase
  <2>2. spc \notin Away BY <2>1, Zenon DEF Away
  <2>3. CASE UNCHANGED conn /\ FailWith("error")
    BY <1>f, <2>1, <2>2, <2>3, QuietDialogue, Zenon
  <2>4. CASE ~(UNCHANGED conn /\ FailWith("error"))
    <3>1. "sealing" \in Past /\ "kill_clear" \in Past BY Zenon DEF Past, Driving, Unwinding
    <3> QED BY <1>f, <2>1, <2>4, <3>1, ReadDialogue, Zenon
  <2> QED BY <2>3, <2>4, Zenon
<1>9. CASE \/ SealTimeout \/ SealReadError \/ Begin \/ AwaitReady \/ ReadyDeadline
           \/ JournalCommitted \/ JournalClear
  <2>1. /\ UNCHANGED <<pc, sess, hid, conn>>
        /\ spc \in {"seal", "begin", "ready", "committed", "clear"}
        /\ \/ FailWith("error")
           \/ spc' \in {"kill_clear", "awaiting_ready", "kill_resume", "commit", "ready",
                        "clear", "return"}
    BY <1>9, Zenon DEF SealTimeout, SealReadError, AbortSealPhase, Begin, AwaitReady,
       ReadyDeadline, AbortReadyPhase, JournalCommitted, JournalClear
  <2>2. spc \notin Away BY <2>1, Zenon DEF Away
  <2>3. spc' \in Past BY <1>f, <2>1, Zenon DEF Past, Driving, Unwinding
  <2> QED BY <2>1, <2>2, <2>3, QuietDialogue, Zenon
<1>10. CASE Commit
  <2>1. /\ UNCHANGED <<pc, sess, hid>> /\ spc = "commit" /\ spc' = "committed"
        /\ ToO(IF O.oOpen THEN Request(O, Msg("Commit", hid)) ELSE O)
    BY <1>10, Zenon DEF Commit
  <2>2. spc \notin Away /\ spc \in Driving /\ spc' \in Past
    BY <2>1, Zenon DEF Away, Past, Driving
  <2>3. CASE O.oOpen BY <2>1, <2>2, <2>3, SendDialogue, Zenon
  <2>4. CASE ~O.oOpen
    <3>1. hid \in Conn BY <2>2, OFacts, Zenon
    <3>2. ToO(O) BY <2>1, <2>4, Zenon
    <3>3. UNCHANGED conn BY <3>1, <3>2, InvariantFacts DEF TypeOK, ToO, O
    <3> QED BY <2>1, <2>2, <3>3, QuietDialogue, Zenon
  <2> QED BY <2>3, <2>4, Zenon
<1> QED
  BY <1>1, <1>2, <1>3, <1>4, <1>5, <1>6, <1>7, <1>8, <1>9, <1>10, ZenonT(30)
     DEF SupervisorStep, HandoffStep

\* DialogueInv, with HandoffInv and SealedInv, is inductive.
LEMMA DialogueStep ==
    ASSUME HandoffInv, SealedInv, DialogueInv, [Next]_vars
    PROVE  DialogueInv'
<1>1. CASE UNCHANGED vars
  <2>1. UNCHANGED <<pc, sess, conn, spc, hid>> BY <1>1, Zenon DEF vars
  <2>2. EndsInv' BY <2>1, Zenon DEF DialogueInv, EndsInv, InHandoff, C
  <2>3. \A p \in Proc : C(p)' = C(p) /\ (Asked(p) => Asked(p)') BY <2>1, AskedKept, Zenon DEF C
  <2>4. ASSUME NEW q, Readable(q) PROVE Readable(q)' BY <2>1, <2>4, Zenon DEF Readable
  <2>5. ASSUME NEW r, Turn(r) PROVE Turn(r)'
    BY <2>1, <2>5, Zenon DEF Turn, C, O, AwaitsAck, AwaitsPrepare, Drains, AwaitsSeal, Seals,
       AwaitsOutcome
  <2>6. O' = O BY <2>1, Zenon DEF O
  <2> QED BY <2>1, <2>2, <2>3, <2>4, <2>5, <2>6, Zenon DEF DialogueInv
<1> QED BY <1>1, SupervisorKeepsDialogue, PrimitiveKeepsDialogue, Zenon DEF Next
-----------------------------------------------------------------------------
\* The words of three frames that a successor may find.
LEMMA LongWords ==
    ASSUME NEW a, NEW b, NEW c
    PROVE  /\ Append(<<a, b>>, c) = <<a, b, c>>
           /\ Head(<<a, b, c>>) = a /\ Tail(<<a, b, c>>) = <<b, c>> /\ <<a, b, c>> # <<>>
<1>1. Append(<<a, b>>, c) = <<a, b, c>>
  <2>1. <<a, b>> \in Seq({a, b, c}) /\ c \in {a, b, c} OBVIOUS
  <2>2. /\ Append(<<a, b>>, c) \in Seq({a, b, c}) /\ Len(Append(<<a, b>>, c)) = 3
        /\ Append(<<a, b>>, c)[1] = a /\ Append(<<a, b>>, c)[2] = b
        /\ Append(<<a, b>>, c)[3] = c
    BY <2>1
  <2>3. Append(<<a, b>>, c) = [i \in 1..3 |-> Append(<<a, b>>, c)[i]] BY <2>2
  <2>4. <<a, b, c>> = [i \in 1..3 |-> <<a, b, c>>[i]] OBVIOUS
  <2>5. \A i \in 1..3 : Append(<<a, b>>, c)[i] = <<a, b, c>>[i] BY <2>2
  <2> QED BY <2>3, <2>4, <2>5, ZenonT(30)
<1>2. Head(<<a, b, c>>) = a /\ <<a, b, c>> # <<>> OBVIOUS
<1>3. Tail(<<a, b, c>>) = <<b, c>> OBVIOUS
<1> QED BY <1>1, <1>2, <1>3

\* What S's and N's reads and writes leave of a socketpair.
LEMMA PipeFields ==
    ASSUME NEW w \in PipeState, NEW m
    PROVE  /\ SendToN(w, m).sOpen = w.sOpen /\ SendToN(w, m).id = w.id
           /\ SendToN(w, m).toN = Append(w.toN, m) /\ SendToN(w, m).toS = w.toS
           /\ SendToS(w, m).sOpen = w.sOpen /\ SendToS(w, m).id = w.id
           /\ SendToS(w, m).toN = w.toN /\ SendToS(w, m).toS = Append(w.toS, m)
           /\ TakeFromS(w).sOpen = w.sOpen /\ TakeFromS(w).id = w.id
           /\ TakeFromS(w).toN = Tail(w.toN) /\ TakeFromS(w).toS = w.toS
           /\ TakeFromN(w).sOpen = w.sOpen /\ TakeFromN(w).id = w.id
           /\ TakeFromN(w).toN = w.toN /\ TakeFromN(w).toS = Tail(w.toS)
           /\ Handshook(w).sOpen = w.sOpen /\ Handshook(w).id = Head(w.toN).id
           /\ Handshook(w).toN = Tail(w.toN) /\ Handshook(w).toS = w.toS
  BY ZenonT(30) DEF PipeState, SendToN, SendToS, TakeFromS, TakeFromN, Handshook

\* What is left of a socketpair when an end closes.
LEMMA ClosedPipe ==
    ASSUME NEW w \in PipeState
    PROVE  /\ CloseN(w).sOpen = w.sOpen /\ CloseN(w).toN = <<>>
           /\ CloseN(w).toS = w.toS \/ CloseN(w).toS = <<>>
           /\ w.sOpen => CloseN(w).toS = w.toS /\ CloseN(w).id = w.id
           /\ ~ClosePipeS(w).sOpen
           /\ \/ ClosePipeS(w).toN = w.toN /\ ClosePipeS(w).id = w.id
              \/ ClosePipeS(w).toN = <<>>
  BY ZenonT(30) DEF PipeState, CloseN, ClosePipeS, NoPipe

\* serve and a cold start are past the startup of a successor, and at most close a
\* socketpair.
LEMMA IncumbentPipe ==
    ASSUME HandoffInv, NEW p \in Proc,
           ColdStart(p) \/ BindColdStart(p) \/ ServeStep(p) \/ HeartbeatDuringHook(p), ~FatalIo(p)
    PROVE  /\ pc'[p] \notin SuccessorPC
           /\ pipe'[p] = pipe[p] \/ pipe'[p] = CloseN(pipe[p])
<1>t. pc \in [Proc -> ProcPC] /\ pipe \in [Proc -> PipeState] BY InvariantFacts, Zenon DEF TypeOK
<1> USE <1>t DEF At, othersUnchanged, SuccessorPC
<1>x. ASSUME Exit(p) PROVE pc'[p] = "dead" /\ pipe'[p] = CloseN(pipe[p])
  BY <1>x, Zenon DEF Exit
<1>l. ASSUME NEW s, NEW q, NEW k, NEW e, LeaveSession(p, s, q, k, e)
      PROVE  pc'[p] \in {"recover", "accept"}
  BY <1>l, Zenon DEF LeaveSession
<1>1. CASE ColdStart(p) \/ BindColdStart(p) \/ RecoverLock(p) \/ SealOk(p)
  BY <1>1, Zenon DEF ColdStart, BindColdStart, RecoverLock, SealOk
<1>2. CASE GiveUp(p) BY <1>2, <1>x, Zenon DEF GiveUp
<1>3. CASE NoHelloAck(p) \/ Disconnected(p) \/ RecvUnexpected(p)
  BY <1>3, <1>l, Zenon DEF NoHelloAck, Disconnected, RecvUnexpected, Receives, SessionError, EndSession
<1>4. CASE RecvHelloAck(p) \/ RecvPrepareHandoff(p) \/ RecvSealRequest(p) \/ SendSealComplete(p)
  BY <1>4, <1>l, Zenon DEF RecvHelloAck, RecvPrepareHandoff, RecvSealRequest, SendSealComplete,
     Receives, SessionError, EndSession
<1>5. CASE DrainOk(p) \/ DrainErr(p) \/ SealErr(p)
  BY <1>5, <1>l, Zenon DEF DrainOk, DrainErr, SealErr, EndSession
<1>6. CASE RecvCommit(p)
  BY <1>6, <1>l, <1>x, Zenon DEF RecvCommit, Receives, SessionError, EndSession
<1>7. CASE RecvResume(p) \/ RecvHeartbeat(p)
  BY <1>7, <1>l, Zenon DEF RecvResume, RecvHeartbeat, Receives, NextRequest, SessionError, EndSession
<1>8. CASE HeartbeatDuringHook(p) BY <1>8, Zenon DEF HeartbeatDuringHook
<1>9. CASE Accept(p) \/ AcceptFails(p) BY <1>9, ZenonT(30) DEF Accept, AcceptFails, vars
<1> QED BY <1>1, <1>2, <1>3, <1>4, <1>5, <1>6, <1>7, <1>8, <1>9, ZenonT(30) DEF ServeStep

\* One process moves: the other processes and their socketpairs are as they were.
LEMMA ProcPair ==
    ASSUME PairInv, NEW p \in Proc, UNCHANGED <<spc, hid, child>>,
           \A q \in Proc : q # p => pc'[q] = pc[q] /\ pipe'[q] = pipe[q],
           child \in Proc \cup {None}, OrdersInv(p)', child = p => Stage(p)'
    PROVE  PairInv'
<1>1. ASSUME NEW q \in Proc, q # p PROVE OrdersInv(q)'
  <2>1. pc'[q] = pc[q] /\ pipe'[q] = pipe[q] BY <1>1, Zenon
  <2>2. OrdersInv(q) BY Zenon DEF PairInv
  <2> QED BY <2>1, <2>2, Zenon DEF OrdersInv, InHandoff
<1>2. ASSUME NEW q \in Proc, q # p, Stage(q) PROVE Stage(q)'
  <2>1. pc'[q] = pc[q] /\ pipe'[q] = pipe[q] BY <1>2, Zenon
  <2> QED BY <1>2, <2>1, Zenon DEF Stage
<1>3. ASSUME child # None PROVE Stage(child)'
  <2>1. Stage(child) BY <1>3, Zenon DEF PairInv
  <2> QED BY <1>2, <1>3, <2>1, Zenon
<1> QED BY <1>1, <1>3, Zenon DEF PairInv

\* The first order is HelloAck; the others carry its id.
LEMMA FirstOrder ==
    ASSUME NEW i, NEW q \in FirstOrders(i)
    PROVE  Head(q) = Msg("HelloAck", i) /\ Head(q).id = i /\ Tail(q) \in Orders(i)
<1> DEFINE h == Msg("HelloAck", i)
           b == Msg("Begin", i)
           a == Msg("Abort", i)
<1>1. h.id = i BY MsgFields, Zenon
<1>2. q \in {<<h>>, <<h, b>>, <<h, a>>, <<h, b, a>>} BY Zenon DEF FirstOrders
<1>3. Orders(i) = {<<>>, <<b>>, <<a>>, <<b, a>>} BY Zenon DEF Orders
<1>4. h = Msg("HelloAck", i) OBVIOUS
<1> HIDE DEF h, b, a
<1>5. Head(<<h>>) = h /\ Tail(<<h>>) = <<>> /\ Head(<<h, b>>) = h /\ Tail(<<h, b>>) = <<b>>
  BY Words, Zenon
<1>6. Head(<<h, a>>) = h /\ Tail(<<h, a>>) = <<a>> BY Words, Zenon
<1>7. Head(<<h, b, a>>) = h /\ Tail(<<h, b, a>>) = <<b, a>> BY LongWords, Zenon
<1> QED BY <1>1, <1>2, <1>3, <1>4, <1>5, <1>6, <1>7, Zenon

\* A process ends: what it wrote to S is still to be read, unless S is gone.
LEMMA ExitPair ==
    ASSUME HandoffInv, PairInv, NEW p \in Proc, Exit(p),
           (pipe[p].sOpen /\ p = child /\ InHandoff) => (p = child /\ InHandoff)'
    PROVE  /\ \A q \in Proc : q # p => pc'[q] = pc[q] /\ pipe'[q] = pipe[q]
           /\ OrdersInv(p)'
           /\ UNCHANGED <<spc, hid>> /\ Stage(p) => Stage(p)'
<1> DEFINE w == CloseN(pipe[p])
<1>t. pc \in [Proc -> ProcPC] /\ pipe \in [Proc -> PipeState] BY InvariantFacts, Zenon DEF TypeOK
<1>1. pc'[p] = "dead" /\ pipe'[p] = w BY <1>t, Zenon DEF Exit
<1>2. \A q \in Proc : q # p => pc'[q] = pc[q] /\ pipe'[q] = pipe[q] BY <1>t, Zenon DEF Exit
<1>3. /\ w.sOpen = pipe[p].sOpen /\ w.toN = <<>>
      /\ w.toS = pipe[p].toS \/ w.toS = <<>>
  BY <1>t, ClosedPipe, Zenon
<1> HIDE DEF w
<1>4. pipe[p].sOpen => (p = child /\ InHandoff)' BY Zenon DEF PairInv, OrdersInv
<1>5. OrdersInv(p)' BY <1>1, <1>3, <1>4, Zenon DEF OrdersInv
<1>6. ASSUME UNCHANGED <<spc, hid>>, Stage(p) PROVE Stage(p)'
  <2> DEFINE a == pipe[p]
  <2>1. spc = "hello_n" => a.toS \in {<<>>, <<Msg("Hello", 0)>>} BY <1>6, Zenon DEF Stage
  <2>2. spc \in Greeted => a.toS = <<>> BY <1>6, Zenon DEF Stage
  <2>3. spc \in {"awaiting_ready", "ready"} => a.toS \in Replies(Msg("Ready", hid))
    BY <1>6, Zenon DEF Stage, Replies, Quiet
  <2>4. w.toS \in {a.toS, <<>>} BY <1>3, Zenon
  <2>5. w.toS = a.toS \/ (w.toS = <<>> /\ <<>> \in Replies(Msg("Ready", hid)))
    BY <2>4, Zenon DEF Replies
  <2>6. /\ spc = "hello_n" => w.toS \in {<<>>, <<Msg("Hello", 0)>>}
        /\ spc \in Greeted => w.toS = <<>>
        /\ spc \in {"awaiting_ready", "ready"} => w.toS \in Replies(Msg("Ready", hid))
    BY <2>1, <2>2, <2>3, <2>5, Zenon
  <2>7. "dead" \in Announced BY Zenon DEF Announced
  <2> QED BY <1>1, <1>3, <1>6, <2>6, <2>7, Zenon DEF Stage
<1> QED BY <1>2, <1>5, <1>6, Zenon

\* A successor's move keeps what it and S have to read in step.
LEMMA SuccessorPair ==
    ASSUME HandoffInv, PairInv, NEW p \in Proc, UNCHANGED <<spc, hid, child>>,
           SuccessorStep(p) \/ HeartbeatDuringInit(p) \/ Fault(p), ~FatalIo(p) \/ Fault(p)
    PROVE  OrdersInv(p)' /\ (Stage(p) => Stage(p)')
<1> DEFINE w == pipe[p]
<1>t. pc \in [Proc -> ProcPC] /\ pipe \in [Proc -> PipeState] /\ w \in PipeState
  BY InvariantFacts, Zenon DEF TypeOK
<1>a. /\ w.sOpen => p = child /\ InHandoff
      /\ pc[p] = "spawned" => w.toN = <<>>
      /\ pc[p] = "handshake" => w.toN = <<>> \/ \E i \in Id : w.toN \in FirstOrders(i)
      /\ pc[p] = "wait_for_begin" => w.toN \in Orders(w.id)
  BY Zenon DEF PairInv, OrdersInv
<1>b. (p = child /\ InHandoff)' = (p = child /\ InHandoff) BY Zenon DEF InHandoff
<1>x. Exit(p) => OrdersInv(p)' /\ (Stage(p) => Stage(p)') BY <1>b, ExitPair, Zenon
<1>w. \A a, b : /\ Head(<<a>>) = a /\ Head(<<a, b>>) = a /\ Append(<<>>, a) = <<a>>
                /\ Tail(<<a>>) = <<>> /\ Tail(<<a, b>>) = <<b>> /\ Append(<<a>>, b) = <<a, b>>
  BY Words, Zenon
<1>v. \A a, b, c : Head(<<a, b, c>>) = a /\ Tail(<<a, b, c>>) = <<b, c>> BY LongWords, Zenon
<1>m. \A t, h : Msg(t, h).type = t /\ Msg(t, h).id = h BY MsgFields, Zenon
<1>f. pipe[p] = w OBVIOUS
<1> USE <1>f
<1>o. ASSUME NEW u, pipe'[p] = u, u.sOpen = w.sOpen,
             pc'[p] = "spawned" => u.toN = <<>>,
             pc'[p] = "handshake" => u.toN = <<>>,
             pc'[p] = "wait_for_begin" => u.toN \in Orders(u.id)
      PROVE  OrdersInv(p)'
  BY <1>a, <1>b, <1>o, Zenon DEF OrdersInv
<1>1. CASE SendHello(p)
  <2>1. CASE ~Fails(p)
    <3> DEFINE u == SendToS(w, Msg("Hello", 0))
    <3>1. pc[p] = "spawned" /\ pc'[p] = "handshake" /\ pipe'[p] = u
      BY <1>1, <1>t, <2>1, Zenon DEF SendHello, Step
    <3>2. u.sOpen = w.sOpen /\ u.toN = <<>> /\ u.toS = Append(w.toS, Msg("Hello", 0))
      BY <1>a, <1>t, <3>1, PipeFields, Zenon
    <3> HIDE DEF u
    <3>3. OrdersInv(p)' BY <1>o, <3>1, <3>2, Zenon
    <3>4. ASSUME Stage(p) PROVE Stage(p)'
      <4>1. spc \notin Greeted /\ spc \notin {"awaiting_ready", "ready"}
        BY <3>1, <3>4, Zenon DEF Stage, Announced
      <4>2. spc = "hello_n" => u.toS = <<Msg("Hello", 0)>> BY <1>w, <3>1, <3>2, <3>4, ZenonT(30) DEF Stage
      <4> QED BY <3>1, <3>2, <4>1, <4>2, Zenon DEF Stage
    <3> QED BY <3>3, <3>4, Zenon
  <2> QED BY <1>x, <2>1, Zenon DEF Fails
<1>2. CASE RecvAck(p)
  <2>1. CASE ~Fails(p)
    <3> DEFINE u == Handshook(w)
    <3>1. pc[p] = "handshake" /\ pc'[p] = "wait_for_begin" /\ w.toN # <<>> /\ pipe'[p] = u
      BY <1>2, <1>t, <2>1, Zenon DEF RecvAck, Step, ToN
    <3>2. /\ u.sOpen = w.sOpen /\ u.toN = Tail(w.toN) /\ u.toS = w.toS
          /\ u.id = Head(w.toN).id
      BY <1>t, PipeFields, Zenon
    <3> HIDE DEF u
    <3>3. PICK i \in Id : w.toN \in FirstOrders(i) BY <1>a, <3>1, Zenon
    <3>4. Head(w.toN).id = i /\ Tail(w.toN) \in Orders(i) BY <3>3, FirstOrder, Zenon
    <3>5. u.id = i /\ u.toN \in Orders(u.id) BY <3>2, <3>4, Zenon
    <3>6. OrdersInv(p)' BY <1>o, <3>1, <3>2, <3>5, Zenon
    <3>7. ASSUME Stage(p) PROVE Stage(p)'
      <4>1. spc # "hello_n" BY <3>1, <3>7, Zenon DEF Stage
      <4>2. spc \in Greeted => u.id = hid /\ u.toN = <<>> /\ u.toS = <<>>
        <5>1. spc \in Greeted => w.toN = <<Msg("HelloAck", hid)>> /\ w.toS = <<>>
          BY <3>1, <3>7, Zenon DEF Stage
        <5>2. Msg("HelloAck", hid).id = hid BY <1>m, Zenon
        <5>3. ASSUME NEW a, w.toN = <<a>> PROVE Head(w.toN) = a /\ Tail(w.toN) = <<>>
          BY <1>w, <5>3, Zenon
        <5> QED BY <3>2, <5>1, <5>2, <5>3, Zenon
      <4>3. spc \in {"awaiting_ready", "ready"} =>
               u.id = hid /\ u.toN = <<Msg("Begin", hid)>> /\ u.toS = <<>>
        <5>1. spc \in {"awaiting_ready", "ready"} =>
                 w.toN = <<Msg("HelloAck", hid), Msg("Begin", hid)>> /\ w.toS = <<>>
          BY <3>1, <3>7, Zenon DEF Stage, Announced
        <5>2. Msg("HelloAck", hid).id = hid BY <1>m, Zenon
        <5>3. ASSUME NEW a, NEW b, w.toN = <<a, b>> PROVE Head(w.toN) = a /\ Tail(w.toN) = <<b>>
          BY <1>w, <5>3, ZenonT(30)
        <5> QED BY <3>2, <5>1, <5>2, <5>3, Zenon
      <4> QED BY <3>1, <4>1, <4>2, <4>3, Zenon DEF Stage
    <3> QED BY <3>6, <3>7, Zenon
  <2> QED BY <1>x, <2>1, Zenon DEF Fails
<1>3. CASE RecvBegin(p)
  <2>1. CASE ~Fails(p)
    <3> DEFINE u == TakeFromS(w)
    <3>1. /\ pc[p] = "wait_for_begin" /\ w.toN # <<>> /\ pipe'[p] = u
          /\ Head(w.toN) = Msg("Begin", w.id) \/ Head(w.toN).type = "Heartbeat"
          /\ pc'[p] = IF Head(w.toN).type = "Begin" THEN "begun" ELSE "wait_for_begin"
      BY <1>3, <1>t, <2>1, Zenon DEF RecvBegin, Step, ToN
    <3>2. u.sOpen = w.sOpen /\ u.id = w.id /\ u.toS = w.toS BY <1>t, PipeFields, Zenon
    <3> HIDE DEF u
    <3>3. Head(w.toN) = Msg("Begin", w.id) \/ Head(w.toN) = Msg("Abort", w.id)
      BY <1>a, <1>w, <3>1, Zenon DEF Orders
    <3>4. pc'[p] = "begun"
      <4>1. Msg("Begin", w.id).type = "Begin" /\ Msg("Abort", w.id).type = "Abort" BY <1>m, Zenon
      <4>2. Head(w.toN).type # "Heartbeat" BY <3>3, <4>1, Zenon
      <4>3. Head(w.toN).type = "Begin" BY <3>1, <4>1, <4>2, Zenon
      <4> QED BY <3>1, <4>3, Zenon
    <3>5. OrdersInv(p)' BY <1>o, <3>1, <3>2, <3>4, Zenon
    <3>6. ASSUME Stage(p) PROVE Stage(p)'
      <4>1. spc # "hello_n" /\ spc \notin Greeted BY <3>1, <3>6, Zenon DEF Stage
      <4>2. spc \in {"awaiting_ready", "ready"} => w.id = hid /\ w.toS \in Quiet
        BY <3>1, <3>6, Zenon DEF Stage, Announced, Quiet
      <4> QED BY <3>1, <3>2, <3>4, <4>1, <4>2, Zenon DEF Stage
    <3> QED BY <3>5, <3>6, Zenon
  <2> QED BY <1>x, <2>1, Zenon DEF Fails
<1>s. ASSUME Stage(p), pc[p] \in {"begun", "locked"}
      PROVE  /\ spc # "hello_n" /\ spc \notin Greeted
             /\ spc \in {"awaiting_ready", "ready"} => w.id = hid /\ w.toS \in Quiet
  BY <1>s, Zenon DEF Stage, Announced
<1>4. CASE AcquireFlock(p)
  <2>1. CASE ~Fails(p)
    <3>1. pc[p] = "begun" /\ pc'[p] = "locked" /\ pipe'[p] = w
      BY <1>4, <1>t, <2>1, Zenon DEF AcquireFlock, Step
    <3> QED BY <1>o, <1>s, <3>1, Zenon DEF Stage
  <2> QED BY <1>x, <2>1, Zenon DEF Fails
<1>5. CASE HeartbeatDuringInit(p)
  <2> DEFINE u == SendToS(w, Beat)
  <2>1. /\ pc[p] \in {"begun", "locked"} /\ pc'[p] = pc[p] /\ pipe'[p] = u
        /\ \A i \in DOMAIN w.toS : w.toS[i].type # "Heartbeat"
    BY <1>5, <1>t, Zenon DEF HeartbeatDuringInit, Beat
  <2>2. u.sOpen = w.sOpen /\ u.id = w.id /\ u.toS = Append(w.toS, Beat) BY <1>t, PipeFields, ZenonT(30)
  <2> HIDE DEF u
  <2>3. w.toS # <<Beat>>
    <3>1. 1 \in DOMAIN <<Beat>> /\ <<Beat>>[1] = Beat OBVIOUS
    <3>2. Beat.type = "Heartbeat" BY <1>m, Zenon DEF Beat
    <3> QED BY <2>1, <3>1, <3>2, Zenon
  <2>4. w.toS \in Quiet => u.toS \in Quiet BY <1>w, <2>2, <2>3, Zenon DEF Quiet
  <2>5. OrdersInv(p)' BY <1>o, <2>1, <2>2, Zenon
  <2> QED BY <1>s, <2>1, <2>2, <2>4, <2>5, Zenon DEF Stage
<1>6. CASE AnnounceReady(p)
  <2>1. CASE ~Fails(p)
    <3> DEFINE v == SendToS(w, Msg("Ready", w.id))
               u == CloseN(v)
    <3>1. pc[p] = "locked" /\ pc'[p] = "announced" /\ pipe'[p] = u /\ w.sOpen
      BY <1>6, <1>t, <2>1, Zenon DEF AnnounceReady, Step
    <3>2. v.sOpen = w.sOpen /\ v.toS = Append(w.toS, Msg("Ready", w.id)) BY <1>t, PipeFields, Zenon
    <3>3. v \in PipeState
      <4>1. w.id \in Id BY <1>t, Zenon DEF PipeState
      <4> QED BY <1>t, <4>1, MsgType1, PipeQueueType, Zenon DEF MsgType
    <3>4. u.sOpen = v.sOpen /\ (v.sOpen => u.toS = v.toS) BY <3>3, ClosedPipe, Zenon
    <3> HIDE DEF u, v
    <3>5. u.sOpen = w.sOpen /\ u.toS = Append(w.toS, Msg("Ready", w.id))
      BY <3>1, <3>2, <3>4, Zenon
    <3>6. OrdersInv(p)' BY <1>o, <3>1, <3>5, Zenon
    <3>7. (w.id = hid /\ w.toS \in Quiet) => u.toS \in Replies(Msg("Ready", hid))
      BY <1>w, <3>5, Zenon DEF Quiet, Replies
    <3>8. "announced" \in Announced BY Zenon DEF Announced
    <3> QED BY <1>s, <3>1, <3>6, <3>7, <3>8, ZenonT(30) DEF Stage
  <2> QED BY <1>x, <2>1, Zenon DEF Fails
<1>7. CASE BindAfterReady(p) /\ ~FatalIo(p)
  <2>1. pc[p] = "announced" /\ pc'[p] = "accept" /\ pipe'[p] = w
    BY <1>7, <1>t, Zenon DEF BindAfterReady, Step
  <2>2. OrdersInv(p)' BY <1>o, <2>1, Zenon
  <2>3. "accept" \in Announced BY Zenon DEF Announced
  <2> QED BY <2>1, <2>2, <2>3, Zenon DEF Stage
<1>8. CASE SupervisorGone(p) \/ InitFails(p) BY <1>8, <1>x, Zenon DEF SupervisorGone, InitFails, Fails
<1>9. CASE Fault(p) BY <1>9, <1>x, Zenon DEF Fault, ProcCrash, FatalIo
<1> QED BY <1>1, <1>2, <1>3, <1>4, <1>5, <1>6, <1>7, <1>8, <1>9, ZenonT(30) DEF SuccessorStep

\* Every step of a primitive preserves PairInv.
LEMMA PrimitivePair ==
    ASSUME HandoffInv, ChildInv, PairInv, NEW p \in Proc, PrimitiveStep(p)
    PROVE  PairInv'
<1> DEFINE incumbent == /\ ~FatalIo(p)
                        /\ ColdStart(p) \/ BindColdStart(p) \/ ServeStep(p) \/ HeartbeatDuringHook(p)
           starting == /\ ~FatalIo(p) \/ Fault(p)
                       /\ SuccessorStep(p) \/ HeartbeatDuringInit(p) \/ Fault(p)
<1>u. UNCHANGED <<spc, hid, child>> BY PrimitiveFrame, Zenon
<1>s. incumbent \/ starting BY FaultSplit, InvariantFacts, Zenon
<1>t. child \in Proc \cup {None} /\ p # None /\ pipe[p] \in PipeState
  BY InvariantFacts, Zenon DEF TypeOK
<1>1. \A q \in Proc : q # p => pc'[q] = pc[q] /\ pipe'[q] = pipe[q]
  BY <1>s, IncumbentMoves, SuccessorMoves, Zenon
<1>2. CASE starting
  <2>1. OrdersInv(p)' /\ (Stage(p) => Stage(p)') BY <1>u, <1>2, SuccessorPair, Zenon
  <2>2. child = p => Stage(p) BY <1>t, Zenon DEF PairInv
  <2> QED BY <1>u, <1>t, <1>1, <2>1, <2>2, ProcPair, Zenon
<1>3. CASE incumbent /\ ~starting
  <2>1. pc'[p] \notin SuccessorPC /\ (pipe'[p] = pipe[p] \/ pipe'[p] = CloseN(pipe[p]))
    BY <1>3, IncumbentPipe, Zenon
  <2>2. pipe'[p].sOpen = pipe[p].sOpen BY <1>t, <2>1, ClosedPipe, Zenon
  <2>3. OrdersInv(p)
    BY Zenon DEF PairInv
  <2>4. OrdersInv(p)' BY <1>u, <2>1, <2>2, <2>3, Zenon DEF OrdersInv, InHandoff, SuccessorPC
  <2>5. (child = p /\ spc # "idle") => FALSE
    <3> SUFFICES ASSUME child = p, spc # "idle" PROVE FALSE
      BY Zenon
    <3>1. pc[p] \in Starting /\ \A c \in Conn : conn[c].o # p BY <1>t, Zenon DEF ChildInv, ReadyInv
    <3>2. ~Accept(p) /\ ~AcceptFails(p) BY <1>3, <3>1, Zenon DEF Accept, AcceptFails, Backlog
    <3> QED BY <1>3, <3>1, <3>2, IncumbentMoves, Zenon
  <2>6. child = p => Stage(p)' BY <1>u, <2>5, Zenon DEF Stage, Greeted
  <2> QED BY <1>u, <1>t, <1>1, <2>4, <2>6, ProcPair, Zenon
<1> QED BY <1>s, <1>2, <1>3, Zenon

\* Where S is past HelloAck and before the outcome of Ready.
Staged == Greeted \cup {"hello_n", "awaiting_ready", "ready"}

\* S moves without N: to a phase in which N is asked nothing new.
LEMMA QuietPair ==
    ASSUME HandoffInv, PairInv, InHandoff, InHandoff', UNCHANGED <<hid, child, pc, pipe>>,
           \/ spc' \notin Staged \cup {"hello_o", "spawn"}
           \/ spc \in Greeted /\ spc' \in Greeted
           \/ spc \in {"awaiting_ready", "ready"} /\ spc' \in {"awaiting_ready", "ready"}
           \/ spc = "hello_o" /\ spc' = "spawn"
    PROVE  PairInv'
<1>1. ASSUME NEW p \in Proc PROVE OrdersInv(p)'
  <2>1. OrdersInv(p) BY Zenon DEF PairInv
  <2> QED BY <2>1, Zenon DEF OrdersInv
<1>2. ASSUME NEW n, Stage(n) PROVE Stage(n)'
  <2>1. spc' \notin Staged => Stage(n)' BY Zenon DEF Stage, Staged
  <2>2. spc \in Greeted /\ spc' \in Greeted => Stage(n)' BY <1>2, Zenon DEF Stage, Greeted
  <2>3. spc \in {"awaiting_ready", "ready"} /\ spc' \in {"awaiting_ready", "ready"} => Stage(n)'
    BY <1>2, Zenon DEF Stage, Greeted
  <2>4. "spawn" \notin Staged BY Zenon DEF Staged, Greeted
  <2> QED BY <2>1, <2>2, <2>3, <2>4, Zenon
<1>3. spc' \in {"hello_o", "spawn"} => child = None
  BY Zenon DEF PairInv, Greeted
<1> QED BY <1>1, <1>2, <1>3, Zenon DEF PairInv

\* S writes to its child or reads from it.
LEMMA ChildPair ==
    ASSUME HandoffInv, PairInv, child \in Proc, InHandoff', UNCHANGED <<hid, child, pc>>,
           spc' \notin {"hello_o", "spawn"},
           NEW u, ToPipe(u), u.sOpen => N.sOpen,
           pc[child] = "spawned" => u.toN = <<>>,
           pc[child] = "handshake" => u.toN = <<>> \/ \E i \in Id : u.toN \in FirstOrders(i),
           pc[child] = "wait_for_begin" => u.toN \in Orders(u.id),
           Stage(child)'
    PROVE  PairInv'
<1>1. pipe'[child] = u /\ \A q \in Proc : q # child => pipe'[q] = pipe[q]
  BY InvariantFacts, Zenon DEF TypeOK, ToPipe
<1>2. ASSUME NEW q \in Proc PROVE OrdersInv(q)'
  <2>1. OrdersInv(q) BY Zenon DEF PairInv
  <2>2. CASE q = child
    <3>1. pipe'[q] = u BY <1>1, <2>2, Zenon
    <3> QED BY <2>2, <3>1, Zenon DEF OrdersInv
  <2>3. CASE q # child
    <3>1. pipe'[q] = pipe[q] BY <1>1, <2>3, Zenon
    <3>2. ~pipe[q].sOpen BY <2>1, <2>3, Zenon DEF OrdersInv
    <3> QED BY <2>1, <3>1, <3>2, Zenon DEF OrdersInv
  <2> QED BY <2>2, <2>3, Zenon
<1> QED BY <1>2, Zenon DEF PairInv

\* The child of a handoff that has spawned one.
LEMMA ChildFacts ==
    ASSUME HandoffInv, PairInv, spc \in Staged
    PROVE  child \in Proc /\ hid \in Id /\ N \in PipeState /\ Stage(child)
<1>1. child # None BY InvariantFacts, Zenon DEF SupervisorInv, Staged, Greeted
<1>2. child \in Proc /\ hid \in Id /\ N \in PipeState BY <1>1, InvariantFacts, Zenon DEF TypeOK, N
<1> QED BY <1>1, <1>2, Zenon DEF PairInv

\* send_best_effort_abort: Abort is the last order.
LEMMA AbortPair ==
    ASSUME HandoffInv, PairInv, spc \in {"seal", "begin", "ready"},
           spc' \in {"kill_clear", "kill_resume"}, UNCHANGED <<hid, child, pc>>, AbortN
    PROVE  PairInv'
<1> DEFINE b == Msg("Abort", hid)
           u == IF N.nOpen THEN SendToN(N, b) ELSE N
<1>1. spc \in Staged BY Zenon DEF Staged, Greeted
<1>2. child \in Proc /\ hid \in Id /\ N \in PipeState /\ Stage(child) BY <1>1, ChildFacts, Zenon
<1>3. ToPipe(u) /\ InHandoff' /\ Stage(child)'
  BY Zenon DEF AbortN, InHandoff, Stage, Greeted
<1>4. u.sOpen = N.sOpen /\ u.id = N.id /\ (u.toN = N.toN \/ u.toN = Append(N.toN, b))
  BY <1>2, PipeFields, Zenon
<1>b. b = Msg("Abort", hid) OBVIOUS
<1> HIDE DEF u, b
<1>5. ASSUME NEW x, NEW y, NEW z
      PROVE  /\ Append(<<>>, x) = <<x>> /\ Append(<<x>>, y) = <<x, y>>
             /\ Append(<<x, y>>, z) = <<x, y, z>>
  <2>1. Append(<<>>, x) = <<x>> /\ Append(<<x>>, y) = <<x, y>> BY Words, Zenon
  <2>2. Append(<<x, y>>, z) = <<x, y, z>> BY LongWords, Zenon
  <2> QED BY <2>1, <2>2, Zenon
<1>6. pc[child] # "spawned" BY <1>2, Zenon DEF Stage, Greeted, Announced
<1>7. ASSUME pc[child] = "handshake" PROVE u.toN \in FirstOrders(hid)
  <2> DEFINE h == Msg("HelloAck", hid)
             g == Msg("Begin", hid)
  <2>1. N.toN = <<h>> \/ N.toN = <<h, g>> BY <1>2, <1>7, Zenon DEF Stage, Greeted, Announced, N
  <2>2. FirstOrders(hid) = {<<h>>, <<h, g>>, <<h, b>>, <<h, g, b>>} BY <1>b, Zenon DEF FirstOrders
  <2> HIDE DEF h, g
  <2>3. Append(<<h>>, b) = <<h, b>> /\ Append(<<h, g>>, b) = <<h, g, b>> BY <1>5, Zenon
  <2>4. u.toN \in {<<h>>, <<h, g>>, <<h, b>>, <<h, g, b>>} BY <1>4, <2>1, <2>3, Zenon
  <2> QED BY <2>2, <2>4, Zenon
<1>8. ASSUME pc[child] = "wait_for_begin" PROVE u.toN \in Orders(u.id)
  <2> DEFINE g == Msg("Begin", hid)
  <2>1. N.id = hid /\ (N.toN = <<>> \/ N.toN = <<g>>)
    BY <1>2, <1>8, Zenon DEF Stage, Greeted, Announced, N
  <2>2. Orders(hid) = {<<>>, <<g>>, <<b>>, <<g, b>>} BY <1>b, Zenon DEF Orders
  <2> HIDE DEF g
  <2>3. u.toN \in {<<>>, <<g>>, <<b>>, <<g, b>>} BY <1>4, <1>5, <2>1, Zenon
  <2> QED BY <1>4, <2>1, <2>2, <2>3, Zenon
<1> QED BY <1>2, <1>3, <1>4, <1>6, <1>7, <1>8, ChildPair, Zenon

\* S greets N, or tells it to begin.
LEMMA OrderPair ==
    ASSUME HandoffInv, PairInv, UNCHANGED <<hid, child, pc>>,
           \/ /\ spc = "hello_n" /\ spc' = "negotiating" /\ N.toS # <<>>
              /\ ToPipe(SendToN(TakeFromN(N), Msg("HelloAck", hid)))
           \/ /\ spc = "begin" /\ spc' = "awaiting_ready"
              /\ ToPipe(SendToN(N, Msg("Begin", hid)))
    PROVE  PairInv'
<1>1. spc \in Staged BY Zenon DEF Staged, Greeted
<1>2. child \in Proc /\ hid \in Id /\ N \in PipeState /\ Stage(child) BY <1>1, ChildFacts, Zenon
<1>3. InHandoff' BY Zenon DEF InHandoff
<1>w. \A x, y : /\ Append(<<>>, x) = <<x>> /\ Append(<<x>>, y) = <<x, y>> /\ Tail(<<x>>) = <<>>
  BY Words, Zenon
<1>c. ASSUME NEW u, ToPipe(u) PROVE pipe'[child] = u
  BY <1>2, <1>c, InvariantFacts, Zenon DEF TypeOK, ToPipe
<1>4. CASE spc = "hello_n"
  <2> DEFINE v == TakeFromN(N)
             h == Msg("HelloAck", hid)
             u == SendToN(v, h)
  <2>1. /\ spc' = "negotiating" /\ N.toS # <<>> /\ ToPipe(u) BY <1>4, Zenon
  <2>2. v.sOpen = N.sOpen /\ v.toN = N.toN /\ v.toS = Tail(N.toS) BY <1>2, PipeFields, Zenon
  <2>3. v \in PipeState BY <1>2, <2>1, MsgType1, PipeQueueType, Zenon DEF MsgType
  <2>4. u.sOpen = v.sOpen /\ u.toN = Append(v.toN, h) /\ u.toS = v.toS BY <2>3, PipeFields, Zenon
  <2>h. h = Msg("HelloAck", hid) OBVIOUS
  <2> HIDE DEF u, v, h
  <2>5. /\ N.toN = <<>> /\ N.toS \in {<<>>, <<Msg("Hello", 0)>>}
        /\ pc[child] = "handshake" \/ pc[child] = "dead"
    BY <1>2, <1>4, <2>1, Zenon DEF Stage, N
  <2>6. u.sOpen = N.sOpen /\ u.toN = <<h>> /\ u.toS = <<>> BY <1>w, <2>1, <2>2, <2>4, <2>5, Zenon
  <2>7. pipe'[child] = u BY <1>c, <2>1, Zenon
  <2>8. <<h>> \in FirstOrders(hid) BY <2>h, Zenon DEF FirstOrders
  <2>9. ASSUME NEW n, n = child PROVE Stage(n)'
    <3>1. pipe'[n] = u /\ (pc'[n] = "handshake" \/ pc'[n] = "dead") BY <2>5, <2>7, <2>9, Zenon
    <3> QED BY <2>1, <2>6, <2>h, <3>1, Zenon DEF Stage
  <2> QED BY <1>2, <1>3, <2>1, <2>5, <2>6, <2>8, <2>9, ChildPair, Zenon
<1>5. CASE spc = "begin"
  <2> DEFINE g == Msg("Begin", hid)
             h == Msg("HelloAck", hid)
             u == SendToN(N, g)
  <2>1. spc' = "awaiting_ready" /\ ToPipe(u) BY <1>5, Zenon
  <2>2. u.sOpen = N.sOpen /\ u.id = N.id /\ u.toN = Append(N.toN, g) /\ u.toS = N.toS
    BY <1>2, PipeFields, Zenon
  <2>3. /\ N.toS = <<>>
        /\ \/ pc[child] = "handshake" /\ N.toN = <<h>>
           \/ pc[child] = "wait_for_begin" /\ N.id = hid /\ N.toN = <<>>
           \/ pc[child] = "dead"
    BY <1>2, <1>5, Zenon DEF Stage, Greeted, N
  <2>g. g = Msg("Begin", hid) /\ h = Msg("HelloAck", hid) OBVIOUS
  <2> HIDE DEF u, g, h
  <2>4. /\ u.toS = <<>>
        /\ \/ pc[child] = "handshake" /\ u.toN = <<h, g>>
           \/ pc[child] = "wait_for_begin" /\ u.id = hid /\ u.toN = <<g>>
           \/ pc[child] = "dead"
    BY <1>w, <2>2, <2>3, Zenon
  <2>5. pipe'[child] = u BY <1>c, <2>1, Zenon
  <2>6. <<h, g>> \in FirstOrders(hid) /\ <<g>> \in Orders(hid) BY <2>g, Zenon DEF FirstOrders, Orders
  <2>7. "dead" \in Announced /\ <<>> \in Replies(Msg("Ready", hid)) BY Zenon DEF Announced, Replies
  <2>8. ASSUME NEW n, n = child PROVE Stage(n)'
    <3>1. /\ pipe'[n] = u
          /\ \/ pc'[n] = "handshake" /\ u.toN = <<h, g>>
             \/ pc'[n] = "wait_for_begin" /\ u.id = hid /\ u.toN = <<g>>
             \/ pc'[n] = "dead"
      BY <2>4, <2>5, <2>8, Zenon
    <3> QED BY <2>1, <2>4, <2>g, <2>7, <3>1, Zenon DEF Stage, Greeted
  <2> QED BY <1>2, <1>3, <2>1, <2>2, <2>4, <2>6, <2>8, ChildPair, ZenonT(30)
<1> QED BY <1>4, <1>5, Zenon

\* S reads a heartbeat or Ready.
LEMMA ReadyPair ==
    ASSUME HandoffInv, PairInv, UNCHANGED <<hid, child, pc>>, spc = "ready",
           spc' \in {"ready", "commit"}, N.toS # <<>>, ToPipe(TakeFromN(N))
    PROVE  PairInv'
<1> DEFINE u == TakeFromN(N)
           r == Msg("Ready", hid)
<1>1. spc \in Staged BY Zenon DEF Staged
<1>2. child \in Proc /\ hid \in Id /\ N \in PipeState /\ Stage(child) BY <1>1, ChildFacts, Zenon
<1>3. InHandoff' BY Zenon DEF InHandoff
<1>w. \A x, y : Tail(<<x>>) = <<>> /\ Tail(<<x, y>>) = <<y>> BY Words, Zenon
<1>4. u.sOpen = N.sOpen /\ u.id = N.id /\ u.toN = N.toN /\ u.toS = Tail(N.toS)
  BY <1>2, PipeFields, Zenon
<1>5. pipe'[child] = u BY <1>2, InvariantFacts, Zenon DEF TypeOK, ToPipe
<1>u. ToPipe(u) OBVIOUS
<1> HIDE DEF u
<1>6. /\ pc[child] \notin {"spawned", "handshake", "wait_for_begin"}
      /\ pc[child] \in {"begun", "locked"} => N.id = hid /\ N.toS \in Quiet
      /\ pc[child] \in {"begun", "locked"} \/ (pc[child] \in Announced /\ N.toS \in Replies(r))
  BY <1>2, Zenon DEF Stage, Greeted, Announced, N
<1>r. <<r>> \in Replies(r) /\ <<>> \in Replies(r) /\ <<>> \in Quiet BY Zenon DEF Replies, Quiet
<1>7. /\ N.toS \in Quiet => u.toS = <<>>
      /\ N.toS \in Replies(r) => u.toS = <<>> \/ u.toS = <<r>>
  BY <1>w, <1>4, Zenon DEF Quiet, Replies
<1>8. ASSUME NEW n, n = child PROVE Stage(n)'
  <2>1. pipe'[n] = u /\ pc'[n] = pc[child] BY <1>5, <1>8, Zenon
  <2>2. /\ pc'[n] \in {"begun", "locked"} => u.id = hid /\ u.toS \in Quiet
        /\ pc'[n] \in {"begun", "locked"} \/ (pc'[n] \in Announced /\ u.toS \in Replies(r))
    BY <1>4, <1>6, <1>7, <1>r, <2>1, Zenon
  <2> QED BY <2>1, <2>2, Zenon DEF Stage, Greeted
<1> QED BY <1>u, <1>2, <1>3, <1>4, <1>6, <1>8, ChildPair, Zenon

\* S spawns N: N is a new process with a new socketpair, and S's only child.
LEMMA SpawnPair ==
    ASSUME HandoffInv, PairInv, spc = "spawn", spc' = "hello_n", UNCHANGED hid,
           NEW p \in Proc, child' = p, pc' = [pc EXCEPT ![p] = "spawned"],
           pipe' = [pipe EXCEPT ![p] = [NoPipe EXCEPT !.sOpen = TRUE, !.nOpen = TRUE]]
    PROVE  PairInv'
<1> DEFINE u == [NoPipe EXCEPT !.sOpen = TRUE, !.nOpen = TRUE]
<1>t. pc \in [Proc -> ProcPC] /\ pipe \in [Proc -> PipeState] BY InvariantFacts, Zenon DEF TypeOK
<1>1. /\ pc'[p] = "spawned" /\ pipe'[p] = u
      /\ \A q \in Proc : q # p => pc'[q] = pc[q] /\ pipe'[q] = pipe[q]
  BY <1>t, Zenon
<1>2. u.toN = <<>> /\ u.toS = <<>> BY Zenon DEF NoPipe
<1> HIDE DEF u
<1>3. ASSUME NEW q \in Proc PROVE OrdersInv(q)'
  <2>1. CASE q = p
    <3>1. InHandoff' BY Zenon DEF InHandoff
    <3> QED BY <1>1, <1>2, <2>1, <3>1, Zenon DEF OrdersInv
  <2>2. CASE q # p
    <3>1. pc'[q] = pc[q] /\ pipe'[q] = pipe[q] BY <1>1, <2>2, Zenon
    <3>2. OrdersInv(q) /\ child = None BY Zenon DEF PairInv
    <3>3. ~pipe[q].sOpen BY <3>2, NoneAssumption, Zenon DEF OrdersInv
    <3> QED BY <3>1, <3>2, <3>3, Zenon DEF OrdersInv
  <2> QED BY <2>1, <2>2, Zenon
<1>4. Stage(p)' BY <1>1, <1>2, Zenon DEF Stage, Greeted
<1> QED BY <1>3, <1>4, Zenon DEF PairInv

\* The ChildGuard kills N.
LEMMA KillPair ==
    ASSUME HandoffInv, PairInv, Kill
    PROVE  PairInv'
<1>1. /\ InHandoff /\ InHandoff' /\ UNCHANGED <<hid, child>>
      /\ spc' \notin Staged \cup {"hello_o", "spawn"}
  BY Zenon DEF Kill, Goto, InHandoff, Staged, Greeted
<1>2. child \in Proc
  <2>1. spc \notin {"down", "boot", "probe", "probe_clear", "idle", "hello_o", "spawn", "return"}
    BY Zenon DEF Kill
  <2> QED BY <2>1, InvariantFacts, Zenon DEF SupervisorInv, TypeOK
<1>3. CASE Alive(child)
  <2>1. Exit(child) BY <1>3, Zenon DEF Kill, KillAndReap
  <2>2. ASSUME NEW p \in Proc, p = child
        PROVE  OrdersInv(p)' /\ \A q \in Proc : q # p => pc'[q] = pc[q] /\ pipe'[q] = pipe[q]
    BY <1>1, <2>1, <2>2, ExitPair, Zenon
  <2>3. ASSUME NEW q \in Proc PROVE OrdersInv(q)'
    <3>1. CASE q = child BY <2>2, <3>1, Zenon
    <3>2. CASE q # child
      <4>1. pc'[q] = pc[q] /\ pipe'[q] = pipe[q] BY <1>2, <2>2, <3>2, Zenon
      <4>2. OrdersInv(q) BY Zenon DEF PairInv
      <4> QED BY <1>1, <4>1, <4>2, Zenon DEF OrdersInv
    <3> QED BY <3>1, <3>2, Zenon
  <2>4. \A n : Stage(n)' BY <1>1, Zenon DEF Stage, Staged
  <2> QED BY <1>1, <2>3, <2>4, Zenon DEF PairInv
<1>4. CASE ~Alive(child)
  <2>1. UNCHANGED <<pc, pipe>> BY <1>4, Zenon DEF Kill, KillAndReap
  <2> QED BY <1>1, <2>1, QuietPair, Zenon
<1> QED BY <1>3, <1>4, Zenon

\* S has no handoff under way after the step: every socketpair is closed on its side.
LEMMA AwayPair ==
    ASSUME HandoffInv, PairInv, UNCHANGED pc,
           ~InHandoff' \/ (spc' = "hello_o" /\ child' = None),
           \A p \in Proc : \/ pipe'[p] = ClosePipeS(pipe[p])
                           \/ pipe'[p] = pipe[p] /\ (p # child \/ ~InHandoff)
    PROVE  PairInv'
<1>1. ASSUME NEW p \in Proc PROVE OrdersInv(p)'
  <2>1. OrdersInv(p) /\ pipe[p] \in PipeState BY InvariantFacts, Zenon DEF PairInv, TypeOK
  <2>2. /\ ~pipe'[p].sOpen
        /\ \/ pipe'[p].toN = <<>>
           \/ pipe'[p].toN = pipe[p].toN /\ pipe'[p].id = pipe[p].id
    <3>1. CASE pipe'[p] = ClosePipeS(pipe[p])
      <4> DEFINE u == ClosePipeS(pipe[p])
      <4>1. ~u.sOpen /\ ((u.toN = pipe[p].toN /\ u.id = pipe[p].id) \/ u.toN = <<>>)
        BY <2>1, ClosedPipe, Zenon
      <4>2. pipe'[p] = u BY <3>1, Zenon
      <4> HIDE DEF u
      <4> QED BY <4>1, <4>2, Zenon
    <3>2. CASE pipe'[p] = pipe[p] /\ (p # child \/ ~InHandoff)
      BY <2>1, <3>2, Zenon DEF OrdersInv
    <3> QED BY <3>1, <3>2, Zenon
  <2>3. \A i : <<>> \in Orders(i) BY Zenon DEF Orders
  <2>4. /\ pc'[p] = "spawned" => pipe'[p].toN = <<>>
        /\ pc'[p] = "handshake" =>
              pipe'[p].toN = <<>> \/ \E i \in Id : pipe'[p].toN \in FirstOrders(i)
    BY <2>1, <2>2, Zenon DEF OrdersInv
  <2>5. pc'[p] = "wait_for_begin" => pipe'[p].toN \in Orders(pipe'[p].id)
    BY <2>1, <2>2, <2>3, Zenon DEF OrdersInv
  <2> QED BY <2>2, <2>4, <2>5, Zenon DEF OrdersInv
<1>2. \A n : Stage(n)' BY Zenon DEF Stage, Greeted, InHandoff
<1>3. spc' \in {"hello_o", "spawn"} => child' = None BY Zenon DEF InHandoff
<1> QED BY <1>1, <1>2, <1>3, Zenon DEF PairInv

\* S's steps keep PairInv.
LEMMA SupervisorPair ==
    ASSUME HandoffInv, PairInv, SupervisorStep
    PROVE  PairInv'
<1> USE DEF Goto, primitivesUnchanged, primitiveVars
<1>1. CASE SupervisorCrash \/ Return
  <2>1. CASE SupervisorCrash
    <3>1. /\ UNCHANGED pc /\ spc' = "down" /\ \A p \in Proc : pipe'[p] = ClosePipeS(pipe[p])
      BY <2>1, Zenon DEF SupervisorCrash
    <3> QED BY <3>1, AwayPair, Zenon DEF InHandoff
  <2>2. CASE Return
    <3>1. /\ UNCHANGED pc /\ spc' = "idle"
          /\ \A p \in Proc : pipe'[p] = IF p = child THEN ClosePipeS(pipe[p]) ELSE pipe[p]
      BY <2>2, Zenon DEF Return
    <3> QED BY <3>1, AwayPair, Zenon DEF InHandoff
  <2> QED BY <1>1, <2>1, <2>2, Zenon
<1>2. CASE BootStep \/ PerformHandoff \/ Restart
  <2>1. UNCHANGED <<pc, pipe>> /\ ~InHandoff
    BY <1>2, Zenon DEF BootStep, ResumeFromJournal, Probe, ProbeClear, PerformHandoff, Restart,
       InHandoff
  <2>2. ~InHandoff' \/ (spc' = "hello_o" /\ child' = None)
    BY <1>2, Zenon DEF BootStep, ResumeFromJournal, Probe, ProbeClear, PerformHandoff, Restart,
       InHandoff
  <2> QED BY <2>1, <2>2, AwayPair, Zenon
<1>3. CASE Kill BY <1>3, KillPair, Zenon
<1>f. ASSUME NEW r, FailWith(r) PROVE InHandoff' /\ spc' \notin Staged \cup {"hello_o", "spawn"}
  BY <1>f, Zenon DEF FailWith, InHandoff, Staged, Greeted
<1>q. ASSUME InHandoff, FailWith("error"), UNCHANGED <<hid, child, pc, pipe>> PROVE PairInv'
  BY <1>f, <1>q, QuietPair, Zenon
<1>4. CASE SpawnSuccessor
  <2>1. spc = "spawn" /\ InHandoff /\ UNCHANGED hid BY <1>4, Zenon DEF SpawnSuccessor, InHandoff
  <2>2. CASE FailWith("error") /\ UNCHANGED <<pc, pipe, child>> BY <1>q, <2>1, <2>2, Zenon
  <2>3. CASE ~(FailWith("error") /\ UNCHANGED <<pc, pipe, child>>)
    <3>1. PICK p \in Proc :
             /\ pc' = [pc EXCEPT ![p] = "spawned"] /\ child' = p /\ spc' = "hello_n"
             /\ pipe' = [pipe EXCEPT ![p] = [NoPipe EXCEPT !.sOpen = TRUE, !.nOpen = TRUE]]
      BY <1>4, <2>3, Zenon DEF SpawnSuccessor
    <3> QED BY <2>1, <3>1, SpawnPair, Zenon
  <2> QED BY <2>2, <2>3, Zenon
<1>5. CASE HelloN
  <2>1. spc = "hello_n" /\ InHandoff /\ UNCHANGED <<hid, child, pc>>
    BY <1>5, Zenon DEF HelloN, InHandoff
  <2>2. CASE FailWith("error") /\ UNCHANGED pipe BY <1>q, <2>1, <2>2, Zenon
  <2>3. CASE ~(FailWith("error") /\ UNCHANGED pipe)
    <3>1. /\ spc' = "negotiating" /\ N.toS # <<>>
          /\ ToPipe(SendToN(TakeFromN(N), Msg("HelloAck", hid)))
      BY <1>5, <2>3, Zenon DEF HelloN
    <3> QED BY <2>1, <3>1, OrderPair, Zenon
  <2> QED BY <2>2, <2>3, Zenon
<1>6. CASE Begin
  <2>1. spc = "begin" /\ UNCHANGED <<hid, child, pc>> BY <1>6, Zenon DEF Begin
  <2>2. CASE N.nOpen
    <3>1. spc' = "awaiting_ready" /\ ToPipe(SendToN(N, Msg("Begin", hid)))
      BY <1>6, <2>2, Zenon DEF Begin
    <3> QED BY <2>1, <3>1, OrderPair, Zenon
  <2>3. CASE ~N.nOpen
    <3>1. AbortN /\ spc' = "kill_resume" BY <1>6, <2>3, Zenon DEF Begin, AbortReadyPhase
    <3> QED BY <2>1, <3>1, AbortPair, Zenon
  <2> QED BY <2>2, <2>3, Zenon
<1>7. CASE AwaitReady \/ ReadyDeadline
  <2>1. spc = "ready" /\ UNCHANGED <<hid, child, pc>>
    BY <1>7, Zenon DEF AwaitReady, ReadyDeadline
  <2>2. \/ AbortN /\ spc' = "kill_resume"
        \/ N.toS # <<>> /\ ToPipe(TakeFromN(N)) /\ spc' \in {"ready", "commit"}
    BY <1>7, Zenon DEF AwaitReady, ReadyDeadline, AbortReadyPhase
  <2>3. CASE AbortN /\ spc' = "kill_resume" BY <2>1, <2>3, AbortPair, Zenon
  <2>4. CASE N.toS # <<>> /\ ToPipe(TakeFromN(N)) /\ spc' \in {"ready", "commit"}
    BY <2>1, <2>4, ReadyPair, Zenon
  <2> QED BY <2>2, <2>3, <2>4, Zenon
<1>8. CASE RecvSealReply \/ SealDeadline \/ SealTimeout \/ SealReadError
  <2>1. /\ spc = "seal" /\ UNCHANGED <<hid, child, pc>>
        /\ \/ AbortN /\ spc' = "kill_clear"
           \/ UNCHANGED pipe /\ (spc' \in {"seal", "sealing"} \/ FailWith("error"))
    BY <1>8, Zenon DEF RecvSealReply, SealDeadline, SealTimeout, SealReadError, AbortSealPhase
  <2>2. CASE AbortN /\ spc' = "kill_clear" BY <2>1, <2>2, AbortPair, Zenon
  <2>3. CASE UNCHANGED pipe /\ (spc' \in {"seal", "sealing"} \/ FailWith("error"))
    <3>1. InHandoff BY <2>1, Zenon DEF InHandoff
    <3>2. CASE FailWith("error") BY <1>q, <2>1, <2>3, <3>1, <3>2, Zenon
    <3>3. CASE spc' \in {"seal", "sealing"}
      <4>1. InHandoff' /\ spc \in Greeted /\ spc' \in Greeted
        BY <2>1, <3>3, Zenon DEF InHandoff, Greeted
      <4> QED BY <2>1, <2>3, <3>1, <4>1, QuietPair, Zenon
    <3> QED BY <2>3, <3>2, <3>3, Zenon
  <2> QED BY <2>1, <2>2, <2>3, Zenon
<1>9. CASE \/ HelloO \/ JournalNegotiating \/ PrepareHandoff \/ AwaitDrained \/ DrainedDeadline
           \/ JournalDraining \/ SealRequest \/ JournalSealing \/ JournalAwaitingReady
           \/ Commit \/ JournalCommitted \/ ResumeAfterAbort \/ JournalResuming \/ JournalClear
  <2>1. UNCHANGED <<hid, child, pc, pipe>>
    BY <1>9, Zenon DEF HelloO, JournalNegotiating, PrepareHandoff, AwaitDrained, DrainedDeadline,
       JournalDraining, SealRequest, JournalSealing, JournalAwaitingReady, Commit,
       JournalCommitted, ResumeAfterAbort, JournalResuming, JournalClear, JournalSet, SendToO
  <2>2. \/ spc \in {"hello_o", "negotiating", "prepare", "drained", "draining", "seal_request",
                    "sealing", "awaiting_ready", "resume", "resuming"} /\ FailWith("error")
        \/ spc = "hello_o" /\ spc' = "spawn"
        \/ spc \in {"negotiating", "prepare", "drained", "draining", "seal_request", "sealing"}
           /\ spc' \in {"prepare", "drained", "draining", "seal_request", "seal", "begin"}
        \/ spc = "awaiting_ready" /\ spc' = "ready"
        \/ spc \in {"commit", "committed", "resume", "resuming", "clear"}
           /\ spc' \in {"committed", "clear", "resuming", "return"}
    BY <1>9, Zenon DEF HelloO, JournalNegotiating, PrepareHandoff, AwaitDrained, DrainedDeadline,
       JournalDraining, SealRequest, JournalSealing, JournalAwaitingReady, Commit,
       JournalCommitted, ResumeAfterAbort, JournalResuming, JournalClear, JournalSet, SendToO
  <2>3. InHandoff BY <2>2, Zenon DEF InHandoff
  <2>4. CASE FailWith("error") BY <1>q, <2>1, <2>3, <2>4, Zenon
  <2>5. CASE ~FailWith("error")
    <3>1. InHandoff' BY <2>2, <2>5, Zenon DEF InHandoff
    <3>2. \/ spc' \notin Staged \cup {"hello_o", "spawn"}
          \/ spc \in Greeted /\ spc' \in Greeted
          \/ spc = "awaiting_ready" /\ spc' = "ready"
          \/ spc = "hello_o" /\ spc' = "spawn"
      BY <2>2, <2>5, Zenon DEF Greeted, Staged
    <3> QED BY <2>1, <2>3, <3>1, <3>2, QuietPair, Zenon
  <2> QED BY <2>4, <2>5, Zenon
<1> QED
  BY <1>1, <1>2, <1>3, <1>4, <1>5, <1>6, <1>7, <1>8, <1>9, ZenonT(30)
     DEF SupervisorStep, HandoffStep

\* PairInv, with HandoffInv and ChildInv, is inductive.
LEMMA PairStep ==
    ASSUME HandoffInv, ChildInv, PairInv, [Next]_vars
    PROVE  PairInv'
<1>1. CASE UNCHANGED vars
  <2>1. UNCHANGED <<pc, pipe, spc, hid, child>> BY <1>1, Zenon DEF vars
  <2>2. \A p \in Proc : OrdersInv(p) => OrdersInv(p)' BY <2>1, Zenon DEF OrdersInv, InHandoff
  <2>3. \A n : Stage(n) => Stage(n)' BY <2>1, Zenon DEF Stage
  <2> QED BY <2>1, <2>2, <2>3, Zenon DEF PairInv
<1> QED BY <1>1, SupervisorPair, PrimitivePair, Zenon DEF Next
-----------------------------------------------------------------------------
\* Initially no frame was sent and S has no connection and no child.
LEMMA InitDialogue == Init => DialogueInv /\ PairInv
<1> SUFFICES ASSUME Init PROVE DialogueInv /\ PairInv
  BY Zenon
<1>1. NoConn.oOpen = FALSE /\ NoConn.sOpen = FALSE /\ NoConn.req = <<>> /\ NoPipe.sOpen = FALSE
  BY DEF NoConn, NoPipe
<1>2. /\ \A c \in Conn : conn[c] = NoConn
      /\ \A p \in Proc : sess[p] = NoSession /\ pipe[p] = NoPipe
                         /\ pc[p] \notin {"spawned", "handshake", "wait_for_begin"}
      /\ spc = "boot" /\ child = None
  BY Zenon DEF Init
<1>3. NoSession.conn = 0 BY DEF NoSession
<1>4. EndsInv BY <1>1, <1>2, Zenon DEF EndsInv
<1>5. DialogueInv BY <1>2, <1>3, <1>4, Zenon DEF DialogueInv, C
<1>6. \A p \in Proc : OrdersInv(p) BY <1>1, <1>2, Zenon DEF OrdersInv
<1>7. PairInv BY <1>2, <1>6, Zenon DEF PairInv
<1> QED BY <1>5, <1>7, Zenon

\* The first frame that S may find is one it waits for.
LEMMA FirstAnswer ==
    ASSUME NEW m, NEW q \in Replies(m), q # <<>>
    PROVE  Head(q) = Beat \/ Head(q) = m
<1>1. \A a, b : Head(<<a>>) = a /\ Head(<<a, b>>) = a BY Words, Zenon
<1> QED BY <1>1, Zenon DEF Replies

\* The words in the queues are ones their readers have a use for.
LEMMA FramesFit ==
    ASSUME HandoffInv, DialogueInv, PairInv
    PROVE  NoUnexpectedFrame
<1>h. \A a, b : Head(<<a>>) = a /\ Head(<<a, b>>) = a BY Words, Zenon
<1>m. \A t, h : Msg(t, h).type = t /\ Msg(t, h).id = h BY MsgFields, Zenon
<1>1. ASSUME NEW p \in Proc, C(p) # 0 PROVE FitsIncumbent(p)
  <2> DEFINE q == conn[C(p)].req
             m == Head(q)
  <2>1. Asked(p) BY <1>1, Zenon DEF DialogueInv
  <2>2. ASSUME pc[p] = "hello_ack", q # <<>> PROVE m.type = "HelloAck"
    <3>1. q = <<Msg("HelloAck", C(p))>> \/ q = <<Msg("HelloAck", C(p)), Msg("PrepareHandoff", C(p))>>
      BY <2>1, <2>2, Zenon DEF Asked, AwaitsAck, AwaitsPrepare, Drains, AwaitsSeal, Seals, AwaitsOutcome
    <3> HIDE DEF q
    <3>2. Head(q) = Msg("HelloAck", C(p)) BY <1>h, <3>1, Zenon
    <3> QED BY <1>m, <3>2, Zenon
  <2>3. ASSUME pc[p] = "loop", q # <<>>
        PROVE  \/ m = Msg("PrepareHandoff", C(p)) /\ sess[p].active = 0
               \/ m = Msg("SealRequest", sess[p].active) /\ sess[p].drained /\ ~sess[p].sealed
               \/ /\ m.type \in {"Commit", "ResumeAfterAbort"} /\ m.id = sess[p].active
                  /\ sess[p].sealed
    <3>1. \/ q = <<Msg("PrepareHandoff", C(p))>> /\ sess[p].active = 0
          \/ /\ q = <<Msg("SealRequest", C(p))>>
             /\ sess[p].active = C(p) /\ sess[p].drained /\ ~sess[p].sealed
          \/ /\ q = <<Msg("Commit", C(p))>> \/ q = <<Msg("ResumeAfterAbort", C(p))>>
             /\ sess[p].active = C(p) /\ sess[p].sealed
      BY <2>1, <2>3, Zenon DEF Asked, AwaitsAck, AwaitsPrepare, Drains, AwaitsSeal, Seals, AwaitsOutcome
    <3> HIDE DEF q
    <3>2. ASSUME NEW a, q = <<a>> PROVE m = a BY <1>h, <3>2, Zenon
    <3>3. /\ Msg("Commit", C(p)).type = "Commit" /\ Msg("Commit", C(p)).id = C(p)
          /\ Msg("ResumeAfterAbort", C(p)).type = "ResumeAfterAbort"
          /\ Msg("ResumeAfterAbort", C(p)).id = C(p)
      BY <1>m, Zenon
    <3> HIDE DEF m
    <3> QED BY <3>1, <3>2, <3>3, Zenon
  <2> QED BY <2>2, <2>3, Zenon DEF FitsIncumbent
<1>2. ASSUME NEW p \in Proc PROVE FitsSuccessor(p)
  <2> DEFINE q == ToN(p)
  <2>1. /\ pc[p] = "handshake" => q = <<>> \/ \E i \in Id : q \in FirstOrders(i)
        /\ pc[p] = "wait_for_begin" => q \in Orders(pipe[p].id)
    BY Zenon DEF PairInv, OrdersInv, ToN
  <2>q. q = ToN(p) OBVIOUS
  <2> HIDE DEF q
  <2>2. ASSUME pc[p] = "handshake", q # <<>> PROVE Head(q).type = "HelloAck"
    <3>1. PICK i \in Id : q \in FirstOrders(i) BY <2>1, <2>2, Zenon
    <3>2. Head(q) = Msg("HelloAck", i) BY <3>1, FirstOrder, Zenon
    <3> QED BY <1>m, <3>2, Zenon
  <2>3. ASSUME pc[p] = "wait_for_begin", q # <<>>
        PROVE  Head(q) \in {Msg("Begin", pipe[p].id), Msg("Abort", pipe[p].id)}
    BY <1>h, <2>1, <2>3, Zenon DEF Orders
  <2> QED BY <2>q, <2>2, <2>3, Zenon DEF FitsSuccessor
<1>3. FitsSupervisor
  <2> DEFINE q == O.rsp
             w == N.toS
  <2>1. spc \in {"hello_o", "drained", "seal"} => Readable(q) BY Zenon DEF DialogueInv
  <2>2. spc \in {"hello_n", "ready"} => Stage(child)
    BY ChildFacts, Zenon DEF Staged
  <2>3. /\ spc = "hello_o" => q \in {<<>>, <<Msg("Hello", 0)>>}
        /\ spc = "drained" => q \in Replies(Msg("Drained", 0))
        /\ spc = "seal" => q \in Replies(Msg("SealComplete", hid)) \cup Replies(Msg("SealFailed", hid))
    BY <2>1, Zenon DEF Readable
  <2>4. spc = "hello_n" => w \in {<<>>, <<Msg("Hello", 0)>>} BY <2>2, Zenon DEF Stage, N
  <2>5. spc = "ready" => w \in Replies(Msg("Ready", hid))
    BY <2>2, Zenon DEF Stage, N, Quiet, Replies
  <2>q. q = O.rsp /\ w = N.toS OBVIOUS
  <2> HIDE DEF q, w
  <2>6. /\ Msg("Hello", 0).type = "Hello" /\ Msg("Drained", 0).type = "Drained"
        /\ Beat.type = "Heartbeat"
    BY <1>m, Zenon DEF Beat
  <2>7. spc = "hello_o" /\ q # <<>> => Head(q).type = "Hello" BY <1>h, <2>3, <2>6, Zenon
  <2>8. spc = "drained" /\ q # <<>> => Head(q).type \in {"Drained", "Heartbeat"}
    <3>1. spc = "drained" /\ q # <<>> => Head(q) = Beat \/ Head(q) = Msg("Drained", 0)
      BY <2>3, FirstAnswer, Zenon
    <3> QED BY <2>6, <3>1, Zenon
  <2>9. spc = "seal" /\ q # <<>> =>
           Head(q) \in {Beat, Msg("SealComplete", hid), Msg("SealFailed", hid)}
    BY <2>3, FirstAnswer, Zenon
  <2>10. spc = "hello_n" /\ w # <<>> => Head(w).type = "Hello" BY <1>h, <2>4, <2>6, Zenon
  <2>11. spc = "ready" /\ w # <<>> => Head(w) \in {Beat, Msg("Ready", hid)}
    BY <2>5, FirstAnswer, Zenon
  <2> QED BY <2>q, <2>7, <2>8, <2>9, <2>10, <2>11, Zenon DEF FitsSupervisor, Beat
<1> QED BY <1>1, <1>2, <1>3, Zenon DEF NoUnexpectedFrame

\* A session that waits for S has S's end open only in the handoff it was made for.
LEMMA WaitsMet ==
    ASSUME HandoffInv, SealedInv, DialogueInv, PairInv
    PROVE  NoOrphanedWait
<1>1. ASSUME NEW p \in Proc, pc[p] = "loop", conn[C(p)].sOpen PROVE InHandoff /\ C(p) = hid
  <2>1. C(p) \in Conn /\ (C(p) = hid /\ spc \notin Away => Turn(p))
    BY <1>1, SessionFacts, Zenon DEF SessionPC, InLoop
  <2>2. C(p) = hid /\ (InHandoff \/ spc = "probe") BY <1>1, <2>1, Zenon DEF DialogueInv, EndsInv
  <2>3. spc # "probe" BY <1>1, <2>1, <2>2, Zenon DEF Turn, AwaitsAck, Away
  <2> QED BY <2>2, <2>3, Zenon
<1>2. ASSUME NEW p \in Proc, pipe[p].sOpen PROVE InHandoff /\ p = child
  BY <1>2, Zenon DEF PairInv, OrdersInv
<1> QED BY <1>1, <1>2, Zenon DEF NoOrphanedWait
=============================================================================
