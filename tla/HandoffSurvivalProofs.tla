----------------------- MODULE HandoffSurvivalProofs ------------------------
(***************************************************************************)
(* SealedInv is inductive: a primitive's step keeps to its own session and *)
(* answers a seal only when it has sealed, and S's steps send nothing to a *)
(* sealed incumbent until the outcome.  SurvivalInv is inductive with it:  *)
(* what a step of a primitive and a step of S do to the successor of the   *)
(* handoff, to the incumbent that waits for its outcome, and to the Commit *)
(* that retires it.                                                        *)
(***************************************************************************)
EXTENDS HandoffTypeProofs

USE NoneAssumption, BoundAssumption
-----------------------------------------------------------------------------
\* What a step of p leaves of sessions and connections: it touches its own, answers a
\* seal only when it has sealed, and does nothing in a session that has nothing to read.
Obeys(p) ==
    /\ pc[p] # "dead"
    /\ \A q \in Proc : q # p => pc'[q] = pc[q] /\ sess'[q] = sess[q]
    /\ \A c \in Conn : conn[c].o # p => conn'[c] = conn[c]
    /\ \A c \in Conn : conn[c].sOpen => conn'[c].o = conn[c].o /\ conn'[c].sOpen
    /\ sess'[p].conn # 0 =>
          /\ pc'[p] \in SessionPC
          /\ conn'[sess'[p].conn].o = p /\ conn'[sess'[p].conn].oOpen
    /\ pc'[p] = "seal_complete" => sess'[p].sealed
    /\ pc'[p] = "dead" \/ pc[p] # "loop" \/ conn[C(p)].req # <<>> \/ ~conn[C(p)].sOpen

\* And of what is to be read.
Answers(p) ==
    /\ \A c \in Conn :
          \/ conn'[c].req \in {conn[c].req, <<>>}
          \/ conn[c].req # <<>> /\ conn'[c].req = Tail(conn[c].req)
    /\ \A c \in Conn : SealAnswered(conn'[c]) =>
          \/ SealAnswered(conn[c])
          \/ /\ c = C(p) /\ pc[p] = "seal_complete" /\ pc'[p] = "loop"
             /\ sess'[p] = sess[p] /\ conn'[c].req = conn[c].req
    /\ SealTaken(p)' =>
          /\ sess'[p].conn = C(p)
          /\ \/ SealTaken(p)
             \/ /\ conn[C(p)].req # <<>> /\ Head(conn[C(p)].req).type = "SealRequest"
                /\ conn'[C(p)].req = Tail(conn[C(p)].req)

\* What is read of a queue of requests was there.
LEMMA LastQueue ==
    ASSUME NEW q \in Seq(Message), SealRequestLast(q)
    PROVE  /\ SealRequestLast(<<>>)
           /\ q # <<>> => SealRequestLast(Tail(q))
           /\ q # <<>> /\ Head(q).type = "SealRequest" => Tail(q) = <<>>
<1>1. ASSUME q # <<>>
      PROVE  /\ Len(q) \in Nat \ {0} /\ Tail(q) \in Seq(Message) /\ Len(Tail(q)) = Len(q) - 1
             /\ \A i \in 1..Len(q) - 1 : Tail(q)[i] = q[i + 1]
             /\ Head(q) = q[1] /\ DOMAIN q = 1..Len(q) /\ DOMAIN Tail(q) = 1..Len(q) - 1
  BY <1>1
<1>2. q # <<>> => SealRequestLast(Tail(q))
  BY <1>1 DEF SealRequestLast
<1>3. ASSUME q # <<>>, Head(q).type = "SealRequest" PROVE Tail(q) = <<>>
  <2> DEFINE t == Tail(q)
  <2>1. 1 = Len(q) BY <1>1, <1>3 DEF SealRequestLast
  <2>2. t \in Seq(Message) /\ Len(t) = Len(q) - 1 BY <1>1, <1>3
  <2> HIDE DEF t
  <2>3. t = <<>> BY <2>1, <2>2, SMTT(30)
  <2> QED BY <2>3 DEF t
<1> QED BY <1>2, <1>3 DEF SealRequestLast

\* A step of a primitive keeps its session, and a sealed one waits.
LEMMA ObeysHeld ==
    ASSUME HandoffInv, SealedInv, NEW p \in Proc, Obeys(p), Answers(p), UNCHANGED <<spc, hid>>
    PROVE  SealedInv'
<1>t. /\ conn \in [Conn -> ConnState] /\ hid \in Id /\ sess \in [Proc -> SessionState]
      /\ SealOnceInv /\ SupervisorInv /\ SessionInv /\ HeldInv
  BY DEF HandoffInv, TypeOK, SealedInv
<1>i. \A q \in Proc : sess[q].conn # 0 => sess[q].conn \in Conn
  BY <1>t DEF SessionState, Id, Conn
<1>1. SessionInv'
  <2>1. SUFFICES ASSUME NEW q \in Proc
                 PROVE  /\ sess'[q].conn # 0 =>
                             /\ pc'[q] \in SessionPC
                             /\ conn'[sess'[q].conn].o = q /\ conn'[sess'[q].conn].oOpen
                        /\ pc'[q] = "seal_complete" => sess'[q].sealed
    BY DEF SessionInv
  <2>2. CASE q = p BY <2>2, Zenon DEF Obeys
  <2>3. CASE q # p BY <1>t, <1>i, <2>3 DEF Obeys, SessionInv
  <2> QED BY <2>2, <2>3
<1>h. InHandoff => hid \in Conn BY <1>t DEF InHandoff, SupervisorInv, Id, Conn
<1>2. ASSUME InHandoff
      PROVE  /\ hid \in Conn /\ conn[hid].o \in Proc /\ conn[hid].sOpen
             /\ conn'[hid].o = conn[hid].o /\ conn'[hid].sOpen
             /\ conn[hid].req \in Seq(Message)
  BY <1>h, <1>2, <1>t DEF HeldInv, Obeys, ConnState
<1>3. ASSUME InHandoff, Held PROVE Held'
  <2>1. CASE conn[hid].o = p
    <3>1. pc[p] = "loop" /\ C(p) = hid /\ conn[hid].req = <<>> /\ conn[hid].sOpen
      BY <1>2, <1>3, <2>1, Zenon DEF Held, Obeys, C
    <3>2. pc'[p] = "dead" BY <3>1, Zenon DEF Obeys
    <3> QED BY <1>2, <1>3, <2>1, <3>2, Zenon DEF Held
  <2>2. CASE conn[hid].o # p
    BY <1>2, <1>3, <2>2 DEF Held, Obeys
  <2> QED BY <2>1, <2>2, Zenon
<1>4. ASSUME spc \in BeforeSealRequest PROVE ~SealAnswered(conn'[hid])
  <2>1. InHandoff BY <1>4 DEF InHandoff, BeforeSealRequest
  <2>2. ~SealAnswered(conn[hid]) BY <1>4, <1>t, Zenon DEF HeldInv
  <2>3. ~(hid = C(p) /\ pc[p] = "seal_complete")
    BY <1>4, <1>t DEF SealOnceInv, SealTaken, C
  <2> QED BY <1>2, <2>1, <2>2, <2>3, Zenon DEF Answers
<1>5. ASSUME spc = "seal"
      PROVE  /\ SealRequestLast(conn'[hid].req)
             /\ \A q \in Proc : sess'[q].conn = hid /\ SealTaken(q)' => conn'[hid].req = <<>>
             /\ SealAnswered(conn'[hid]) => Held'
  <2>1. InHandoff BY <1>5, Zenon DEF InHandoff
  <2>2. /\ SealRequestLast(conn[hid].req)
        /\ \A q \in Proc : sess[q].conn = hid /\ SealTaken(q) => conn[hid].req = <<>>
        /\ SealAnswered(conn[hid]) => Held
    BY <1>5, <1>t, Zenon DEF HeldInv
  <2>3. conn[hid].req = <<>> => conn'[hid].req = <<>> BY <1>2, <2>1, Zenon DEF Answers
  <2>4. SealRequestLast(conn'[hid].req)
    BY <1>2, <2>1, <2>2, LastQueue, Zenon DEF Answers
  <2>5. ASSUME NEW q \in Proc, sess'[q].conn = hid, SealTaken(q)'
        PROVE  conn'[hid].req = <<>>
    <3>1. CASE q # p BY <2>2, <2>3, <2>5, <3>1, Zenon DEF Obeys, SealTaken
    <3>2. CASE q = p
      <4>1. C(p) = hid BY <2>5, <3>2, Zenon DEF Answers
      <4>2. CASE SealTaken(p) BY <2>2, <2>3, <4>1, <4>2, Zenon DEF C
      <4>3. CASE /\ conn[hid].req # <<>> /\ Head(conn[hid].req).type = "SealRequest"
                 /\ conn'[hid].req = Tail(conn[hid].req)
        BY <1>2, <2>1, <2>2, <4>3, LastQueue, Zenon
      <4> QED BY <2>5, <3>2, <4>1, <4>2, <4>3, Zenon DEF Answers
    <3> QED BY <3>1, <3>2, Zenon
  <2>6. ASSUME SealAnswered(conn'[hid]) PROVE Held'
    <3>1. CASE SealAnswered(conn[hid]) BY <1>3, <2>1, <2>2, <3>1, Zenon
    <3>2. CASE /\ hid = C(p) /\ pc[p] = "seal_complete" /\ pc'[p] = "loop"
               /\ sess'[p] = sess[p] /\ conn'[hid].req = conn[hid].req
      <4>1. sess[p].conn = hid /\ sess[p].sealed /\ SealTaken(p) /\ conn[hid].o = p
        BY <1>t, <1>2, <2>1, <3>2 DEF C, SessionInv, SealTaken, Conn
      <4>2. conn[hid].req = <<>> BY <2>2, <4>1, Zenon
      <4> QED BY <1>2, <2>1, <3>2, <4>1, <4>2, Zenon DEF Held
    <3> QED BY <1>2, <2>1, <2>6, <3>1, <3>2, Zenon DEF Answers
  <2> QED BY <2>4, <2>5, <2>6, Zenon
<1>6. spc \in Driving => Held'
  BY <1>3, <1>t, Zenon DEF HeldInv, Driving, InHandoff
<1>7. HeldInv'
  BY <1>2, <1>4, <1>5, <1>6, Zenon DEF HeldInv, InHandoff
<1> QED BY <1>1, <1>7 DEF SealedInv

\* No operation on a connection but the answer SealComplete answers a seal.
LEMMA AnswerKept ==
    ASSUME NEW k \in ConnState, NEW m \in Message
    PROVE  /\ m.type # "SealComplete" /\ SealAnswered(Reply(k, m)) => SealAnswered(k)
           /\ SealAnswered(Request(k, m)) => SealAnswered(k)
           /\ SealAnswered(TakeRequest(k)) => SealAnswered(k)
           /\ k.rsp # <<>> /\ SealAnswered(TakeReply(k)) => SealAnswered(k)
           /\ k.rsp # <<>> /\ SealAnswered(Request(TakeReply(k), m)) => SealAnswered(k)
           /\ SealAnswered(CloseO(k)) => SealAnswered(k)
           /\ SealAnswered(Answer(k, <<>>)) => SealAnswered(k)
           /\ m.type # "SealComplete" /\ SealAnswered(Answer(k, <<m>>)) => SealAnswered(k)
<1>1. k.rsp \in Seq(Message) BY DEF ConnState
<1>2. /\ Reply(k, m).rsp = Append(k.rsp, m) /\ Request(k, m).rsp = k.rsp
      /\ TakeRequest(k).rsp = k.rsp /\ TakeReply(k).rsp = Tail(k.rsp)
      /\ Request(TakeReply(k), m).rsp = Tail(k.rsp)
      /\ CloseO(k).rsp \in {k.rsp, <<>>}
      /\ Answer(k, <<>>).rsp = k.rsp \o <<>> /\ Answer(k, <<m>>).rsp = k.rsp \o <<m>>
  BY DEF ConnState, Reply, Request, TakeRequest, TakeReply, CloseO, NoConn, Answer
<1>3. k.rsp \o <<>> = k.rsp /\ k.rsp \o <<m>> = Append(k.rsp, m) BY <1>1
<1>4. ASSUME m.type # "SealComplete", NEW i \in DOMAIN Append(k.rsp, m),
             Append(k.rsp, m)[i].type = "SealComplete"
      PROVE  SealAnswered(k)
  BY <1>1, <1>4 DEF SealAnswered
<1>5. ASSUME k.rsp # <<>>, NEW i \in DOMAIN Tail(k.rsp), Tail(k.rsp)[i].type = "SealComplete"
      PROVE  SealAnswered(k)
  <2>1. i + 1 \in DOMAIN k.rsp /\ Tail(k.rsp)[i] = k.rsp[i + 1] BY <1>1, <1>5
  <2> QED BY <1>5, <2>1 DEF SealAnswered
<1>6. ASSUME NEW j, SealAnswered(j)
      PROVE  /\ j.rsp \in {k.rsp, <<>>} => SealAnswered(k)
             /\ m.type # "SealComplete" /\ j.rsp = Append(k.rsp, m) => SealAnswered(k)
             /\ k.rsp # <<>> /\ j.rsp = Tail(k.rsp) => SealAnswered(k)
  <2>1. PICK i \in DOMAIN j.rsp : j.rsp[i].type = "SealComplete" BY <1>6 DEF SealAnswered
  <2>2. CASE j.rsp = k.rsp BY <2>1, <2>2, Zenon DEF SealAnswered
  <2>3. CASE j.rsp = <<>> BY <2>1, <2>3
  <2>4. ASSUME m.type # "SealComplete", j.rsp = Append(k.rsp, m) PROVE SealAnswered(k)
    BY <1>4, <2>1, <2>4, Zenon
  <2>5. ASSUME k.rsp # <<>>, j.rsp = Tail(k.rsp) PROVE SealAnswered(k)
    BY <1>5, <2>1, <2>5, Zenon
  <2> QED BY <2>2, <2>3, <2>4, <2>5, Zenon
<1> QED BY <1>2, <1>3, <1>6, Zenon

\* Nor does one but the two ends' own closing close an end, or move it.
LEMMA OpenKept ==
    ASSUME NEW k \in ConnState, NEW m, NEW out
    PROVE  /\ Request(k, m).sOpen = k.sOpen /\ Request(k, m).oOpen = k.oOpen
           /\ Reply(k, m).sOpen = k.sOpen /\ Reply(k, m).oOpen = k.oOpen
           /\ Reply(k, m).req = k.req
           /\ Answer(k, out).sOpen = k.sOpen /\ Answer(k, out).oOpen = k.oOpen
           /\ Answer(k, out).req = Tail(k.req)
           /\ TakeRequest(k).sOpen = k.sOpen /\ TakeRequest(k).oOpen = k.oOpen
           /\ TakeRequest(k).req = Tail(k.req)
           /\ TakeReply(k).sOpen = k.sOpen /\ TakeReply(k).oOpen = k.oOpen
           /\ TakeReply(k).req = k.req
           /\ CloseO(k).req = <<>>
           /\ k.sOpen => CloseO(k).sOpen /\ CloseO(k).o = k.o
           /\ k.oOpen => CloseS(k).oOpen /\ CloseS(k).o = k.o
BY DEF ConnState, Request, Reply, Answer, TakeRequest, TakeReply, CloseO, CloseS, NoConn

\* The end of a process.
LEMMA ExitObeys ==
    ASSUME HandoffInv, SealedInv, NEW p \in Proc, pc[p] # "dead", Exit(p)
    PROVE  Obeys(p) /\ Answers(p)
<1>t. /\ conn \in [Conn -> ConnState] /\ pc \in [Proc -> ProcPC] /\ sess \in [Proc -> SessionState]
  BY DEF HandoffInv, TypeOK
<1>1. /\ pc'[p] = "dead" /\ sess'[p] = NoSession
      /\ \A q \in Proc : q # p => pc'[q] = pc[q] /\ sess'[q] = sess[q]
      /\ \A c \in Conn : conn'[c] = IF conn[c].o = p THEN CloseO(conn[c]) ELSE conn[c]
  BY <1>t, Zenon DEF Exit
<1>2. ~SealTaken(p)' /\ sess'[p].conn = 0 BY <1>1 DEF SealTaken, NoSession
<1>m. Msg("Hello", 0) \in Message BY MsgType1 DEF MsgType, Id
<1>3. ASSUME NEW c \in Conn
      PROVE  /\ conn[c].o # p => conn'[c] = conn[c]
             /\ conn[c].sOpen => conn'[c].o = conn[c].o /\ conn'[c].sOpen
             /\ conn'[c].req \in {conn[c].req, <<>>}
             /\ SealAnswered(conn'[c]) => SealAnswered(conn[c])
  <2>1. conn[c] \in ConnState BY <1>t
  <2>2. /\ CloseO(conn[c]).req = <<>> /\ (SealAnswered(CloseO(conn[c])) => SealAnswered(conn[c]))
        /\ conn[c].sOpen => CloseO(conn[c]).sOpen /\ CloseO(conn[c]).o = conn[c].o
    BY <2>1, <1>m, OpenKept, AnswerKept, Zenon
  <2> QED BY <1>1, <2>2, Zenon
<1>4. Obeys(p) BY <1>1, <1>2, <1>3, Zenon DEF Obeys
<1>5. Answers(p) BY <1>2, <1>3, Zenon DEF Answers
<1> QED BY <1>4, <1>5, Zenon

\* The end of a session, with the connection as it is or with one more reply in it.
LEMMA LeaveObeys ==
    ASSUME HandoffInv, SealedInv, NEW p \in Proc, pc[p] \in SessionPC,
           pc[p] # "loop" \/ conn[C(p)].req # <<>> \/ ~conn[C(p)].sOpen,
           NEW k \in ConnState, k.o = conn[C(p)].o, k.sOpen = conn[C(p)].sOpen,
           SealAnswered(k) => SealAnswered(conn[C(p)]),
           NEW s, NEW q, NEW e, LeaveSession(p, s, q, k, e)
    PROVE  Obeys(p) /\ Answers(p)
<1> DEFINE d == C(p)
           l == CloseO(k)
<1>t. /\ conn \in [Conn -> ConnState] /\ pc \in [Proc -> ProcPC] /\ sess \in [Proc -> SessionState]
  BY DEF HandoffInv, TypeOK
<1>m. Msg("Hello", 0) \in Message BY MsgType1 DEF MsgType, Id
<1>1. d \in Conn /\ conn[d].o = p
  <2>1. d \in Conn BY SessionConn DEF SessionPC
  <2> QED BY <2>1 DEF SealedInv, SessionInv, C, Conn
<1>2. /\ l.req = <<>> /\ (SealAnswered(l) => SealAnswered(conn[d]))
      /\ conn[d].sOpen => l.sOpen /\ l.o = conn[d].o
  BY <1>m, OpenKept, AnswerKept, Zenon
<1>3. conn' = [conn EXCEPT ![d] = l] BY Zenon DEF LeaveSession
<1>4. /\ pc'[p] \in {"recover", "accept"} /\ sess'[p] = NoSession
      /\ \A r \in Proc : r # p => pc'[r] = pc[r] /\ sess'[r] = sess[r]
  BY <1>t, Zenon DEF LeaveSession, At, Session
<1>5. ~SealTaken(p)' /\ sess'[p].conn = 0 BY <1>4 DEF SealTaken, NoSession
<1>6. pc[p] # "dead" /\ (pc[p] # "loop" \/ conn[d].req # <<>> \/ ~conn[d].sOpen)
  BY Zenon DEF SessionPC, InLoop
<1> HIDE DEF d, l
<1>7. \A c \in Conn : conn'[c] = IF c = d THEN l ELSE conn[c] BY <1>t, <1>1, <1>3, Zenon
<1>8. Obeys(p) BY <1>1, <1>2, <1>4, <1>5, <1>6, <1>7, Zenon DEF Obeys, d
<1>9. Answers(p) BY <1>1, <1>2, <1>5, <1>7, Zenon DEF Answers
<1> QED BY <1>8, <1>9, Zenon

\* A step within a session.
LEMMA TurnObeys ==
    ASSUME HandoffInv, SealedInv, NEW p \in Proc, pc[p] \in SessionPC,
           pc[p] # "loop" \/ conn[C(p)].req # <<>>,
           NEW k, k.o = conn[C(p)].o, k.sOpen = conn[C(p)].sOpen, k.oOpen = conn[C(p)].oOpen,
           NEW where \in InLoop, NEW s \in SessionState, s.conn = C(p),
           where = "seal_complete" => s.sealed,
           Turns(p, k), At(p, where), Session(p, s),
           \/ k.req = conn[C(p)].req
           \/ conn[C(p)].req # <<>> /\ k.req = Tail(conn[C(p)].req),
           SealAnswered(k) =>
              \/ SealAnswered(conn[C(p)])
              \/ /\ pc[p] = "seal_complete" /\ where = "loop"
                 /\ s = sess[p] /\ k.req = conn[C(p)].req,
           s.sealed \/ where \in {"seal", "seal_complete"} =>
              \/ SealTaken(p)
              \/ /\ conn[C(p)].req # <<>> /\ Head(conn[C(p)].req).type = "SealRequest"
                 /\ k.req = Tail(conn[C(p)].req)
    PROVE  Obeys(p) /\ Answers(p)
<1> DEFINE d == C(p)
<1>t. /\ conn \in [Conn -> ConnState] /\ pc \in [Proc -> ProcPC] /\ sess \in [Proc -> SessionState]
  BY Zenon DEF HandoffInv, TypeOK
<1>1. d \in Conn /\ conn[d].o = p /\ conn[d].oOpen
  <2>1. d \in Conn BY SessionConn, Zenon DEF SessionPC
  <2> QED BY <2>1 DEF SealedInv, SessionInv, C, Conn
<1>2. conn' = [conn EXCEPT ![d] = k] BY Zenon DEF Turns
<1>3. /\ pc'[p] = where /\ sess'[p] = s
      /\ \A r \in Proc : r # p => pc'[r] = pc[r] /\ sess'[r] = sess[r]
  BY <1>t, Zenon DEF At, Session
<1>4. /\ k.o = p /\ k.sOpen = conn[d].sOpen /\ k.oOpen = TRUE /\ s.conn = d
      /\ pc[p] # "dead" /\ (pc[p] # "loop" \/ conn[d].req # <<>> \/ ~conn[d].sOpen)
      /\ pc'[p] \in SessionPC
      /\ k.req = conn[d].req \/ (conn[d].req # <<>> /\ k.req = Tail(conn[d].req))
  BY <1>1, <1>3, Zenon DEF SessionPC, InLoop
<1>5. SealAnswered(k) =>
         \/ SealAnswered(conn[d])
         \/ pc[p] = "seal_complete" /\ where = "loop" /\ s = sess[p] /\ k.req = conn[d].req
  BY Zenon
<1>6. SealTaken(p)' =>
         \/ SealTaken(p)
         \/ /\ conn[d].req # <<>> /\ Head(conn[d].req).type = "SealRequest"
            /\ k.req = Tail(conn[d].req)
  BY <1>3, Zenon DEF SealTaken
<1> HIDE DEF d
<1>7. \A c \in Conn : conn'[c] = IF c = d THEN k ELSE conn[c] BY <1>t, <1>1, <1>2, Zenon
<1>8. Obeys(p)
  <2>1. C(p) = d BY Zenon DEF d
  <2>2. \A c \in Conn : conn[c].sOpen => conn'[c].o = conn[c].o /\ conn'[c].sOpen
    BY <1>1, <1>4, <1>7, ZenonT(30)
  <2>3. sess'[p].conn = d /\ conn'[d].o = p /\ conn'[d].oOpen
    BY <1>1, <1>3, <1>4, <1>7, SMTT(30), Z3T(30)
  <2> QED BY <1>1, <1>3, <1>4, <1>7, <2>1, <2>2, <2>3, Zenon DEF Obeys
<1>9. Answers(p)
  <2>1. C(p) = d BY DEF d
  <2> QED BY <1>1, <1>3, <1>4, <1>5, <1>6, <1>7, <2>1 DEF Answers
<1> QED BY <1>8, <1>9, Zenon

\* A step outside a session that leaves connections and sessions alone.
LEMMA QuietObeys ==
    ASSUME HandoffInv, SealedInv, NEW p \in Proc, pc[p] \notin SessionPC \cup {"dead"},
           NEW where, where \notin SessionPC, pc' = [pc EXCEPT ![p] = where], UNCHANGED <<conn, sess>>
    PROVE  Obeys(p) /\ Answers(p)
<1>t. pc \in [Proc -> ProcPC] BY Zenon DEF HandoffInv, TypeOK
<1>1. sess[p].conn = 0 /\ ~sess[p].sealed
  BY DEF SealedInv, SessionInv, HandoffInv, OwnershipInv, SessionPC
<1>2. pc'[p] = where /\ \A q \in Proc : q # p => pc'[q] = pc[q] BY <1>t, Zenon
<1>3. Obeys(p) BY <1>1, <1>2, Zenon DEF Obeys, SessionPC, InLoop
<1>4. Answers(p) BY <1>1, <1>2, Zenon DEF Answers, SealTaken, SessionPC, InLoop, SealAnswered
<1> QED BY <1>3, <1>4, Zenon

\* accept opens a session on a connection of its own backlog, or drops a dead one.
LEMMA AcceptObeys ==
    ASSUME HandoffInv, SealedInv, NEW p \in Proc, Accept(p)
    PROVE  Obeys(p) /\ Answers(p)
<1>t. /\ conn \in [Conn -> ConnState] /\ pc \in [Proc -> ProcPC] /\ sess \in [Proc -> SessionState]
  BY DEF HandoffInv, TypeOK
<1>1. PICK c \in Conn :
        /\ conn[c].o = p /\ conn[c].oOpen
        /\ IF conn[c].sOpen
           THEN /\ conn' = [conn EXCEPT ![c] = Reply(conn[c], Msg("Hello", 0))]
                /\ Session(p, [NoSession EXCEPT !.conn = c]) /\ At(p, "hello_ack")
           ELSE /\ conn' = [conn EXCEPT ![c] = CloseO(conn[c])]
                /\ UNCHANGED <<sess, pc>>
  BY <1>t, Zenon DEF Accept, Backlog
<1>2. pc[p] = "accept" /\ sess[p].conn = 0 /\ ~sess[p].sealed
  BY Zenon DEF Accept, SealedInv, SessionInv, HandoffInv, OwnershipInv, SessionPC, InLoop
<1> DEFINE l == Reply(conn[c], Msg("Hello", 0))
           g == CloseO(conn[c])
<1>3. /\ l.o = conn[c].o /\ l.sOpen = conn[c].sOpen /\ l.oOpen = conn[c].oOpen
      /\ l.req = conn[c].req
      /\ SealAnswered(l) => SealAnswered(conn[c])
      /\ g.req = <<>> /\ (SealAnswered(g) => SealAnswered(conn[c]))
  <2>1. conn[c] \in ConnState BY <1>t, Zenon
  <2>2. Msg("Hello", 0) \in Message /\ Msg("Hello", 0).type # "SealComplete"
    BY MsgType1 DEF MsgType, Id, Msg
  <2> DEFINE e == conn[c]
             m == Msg("Hello", 0)
  <2>3. l = Reply(e, m) /\ g = CloseO(e) BY Zenon
  <2> HIDE DEF l, g, e, m
  <2>4. Reply(e, m).o = e.o BY <2>1, EndKept, Zenon DEF e
  <2>5. /\ Reply(e, m).sOpen = e.sOpen /\ Reply(e, m).oOpen = e.oOpen /\ Reply(e, m).req = e.req
        /\ CloseO(e).req = <<>>
    BY <2>1, OpenKept DEF e
  <2>6. /\ SealAnswered(Reply(e, m)) => SealAnswered(e)
        /\ SealAnswered(CloseO(e)) => SealAnswered(e)
    BY <2>1, <2>2, AnswerKept, Zenon DEF e, m
  <2> QED BY <2>3, <2>4, <2>5, <2>6, Zenon DEF e
<1>4. CASE conn[c].sOpen
  <2>1. conn' = [conn EXCEPT ![c] = l] BY <1>1, <1>4
  <2>2. /\ pc'[p] = "hello_ack" /\ sess'[p] = [NoSession EXCEPT !.conn = c]
        /\ \A q \in Proc : q # p => pc'[q] = pc[q] /\ sess'[q] = sess[q]
    BY <1>t, <1>1, <1>4, Zenon DEF Session, At
  <2>3. ~SealTaken(p)' /\ sess'[p].conn = c /\ pc'[p] \in SessionPC
    BY <2>2 DEF SealTaken, NoSession, SessionPC
  <2> HIDE DEF l
  <2>4. \A e \in Conn : conn'[e] = IF e = c THEN l ELSE conn[e] BY <1>t, <2>1, Zenon
  <2>5. Obeys(p)
    <3>1. conn'[c].o = p /\ conn'[c].oOpen /\ conn'[c].sOpen BY <1>1, <1>3, <1>4, <2>4, Zenon
    <3>2. \A e \in Conn : conn[e].sOpen => conn'[e].o = conn[e].o /\ conn'[e].sOpen
      BY <1>1, <2>4, <3>1, Zenon
    <3>3. pc'[p] # "seal_complete" /\ pc[p] \notin {"dead", "loop"} BY <1>2, <2>2, Zenon
    <3> QED BY <1>1, <2>2, <2>3, <2>4, <3>1, <3>2, <3>3, Zenon DEF Obeys
  <2>6. Answers(p) BY <1>3, <2>3, <2>4, Zenon DEF Answers
  <2> QED BY <2>5, <2>6, Zenon
<1>5. CASE ~conn[c].sOpen
  <2>1. conn' = [conn EXCEPT ![c] = g] /\ UNCHANGED <<sess, pc>> BY <1>1, <1>5, Zenon
  <2>2. ~SealTaken(p)' BY <1>2, <2>1, Zenon DEF SealTaken
  <2> HIDE DEF g
  <2>3. \A e \in Conn : conn'[e] = IF e = c THEN g ELSE conn[e] BY <1>t, <2>1, Zenon
  <2>4. Obeys(p) BY <1>1, <1>2, <1>5, <2>1, <2>3, ZenonT(30) DEF Obeys
  <2>5. Answers(p) BY <1>3, <2>2, <2>3, Zenon DEF Answers
  <2> QED BY <2>4, <2>5
<1> QED BY <1>4, <1>5, Zenon

\* Every step of an incumbent keeps to its session.
LEMMA IncumbentObeys ==
    ASSUME HandoffInv, SealedInv, NEW p \in Proc,
           ColdStart(p) \/ BindColdStart(p) \/ ServeStep(p) \/ HeartbeatDuringHook(p), ~FatalIo(p)
    PROVE  (Obeys(p) /\ Answers(p)) \/ AcceptFails(p)
<1> DEFINE d == C(p)
           k == conn[C(p)]
           goal == Obeys(p) /\ Answers(p)
<1>t. TypeOK /\ SealOnceInv /\ OwnershipInv(p) /\ SessionInv /\ sess \in [Proc -> SessionState]
  BY DEF HandoffInv, TypeOK, SealedInv
<1>s. sess[p] \in SessionState /\ sess = [sess EXCEPT ![p] = sess[p]] BY <1>t, Zenon
<1>c. pc[p] \in SessionPC => d \in Conn /\ k \in ConnState /\ k.req \in Seq(Message) /\ k.o = p
  <2>1. SUFFICES ASSUME pc[p] \in SessionPC
                 PROVE  d \in Conn /\ k \in ConnState /\ k.req \in Seq(Message) /\ k.o = p
    OBVIOUS
  <2>2. d \in Conn /\ k \in ConnState BY <2>1, SessionConn, Zenon DEF SessionPC
  <2> QED BY <1>t, <2>2 DEF SessionInv, C, Conn, ConnState
<1>m. \A t \in MsgType : Msg(t, 0) \in Message /\ Msg(t, sess[p].active) \in Message
  BY <1>s, MsgType1 DEF SessionState, Id
<1>x. ASSUME pc[p] # "dead", Exit(p) PROVE goal BY <1>x, ExitObeys, Zenon
<1>l. ASSUME pc[p] \in SessionPC, pc[p] # "loop" \/ k.req # <<>> \/ ~k.sOpen,
             NEW s, NEW q, NEW e, EndSession(p, s, q, e)
      PROVE  goal
  BY <1>l, <1>c, LeaveObeys, Zenon DEF EndSession
<1>e. ASSUME pc[p] \in SessionPC, pc[p] # "loop" \/ k.req # <<>> \/ ~k.sOpen, SessionError(p)
      PROVE  goal
  BY <1>e, <1>l, Zenon DEF SessionError
<1>k. ASSUME pc[p] \in SessionPC, NEW m \in Message
      PROVE  /\ TakeRequest(k).o = k.o /\ TakeRequest(k).sOpen = k.sOpen
             /\ TakeRequest(k).oOpen = k.oOpen /\ TakeRequest(k).req = Tail(k.req)
             /\ SealAnswered(TakeRequest(k)) => SealAnswered(k)
             /\ Reply(k, m).o = k.o /\ Reply(k, m).sOpen = k.sOpen
             /\ Reply(k, m).oOpen = k.oOpen /\ Reply(k, m).req = k.req
             /\ m.type # "SealComplete" /\ SealAnswered(Reply(k, m)) => SealAnswered(k)
             /\ Reply(k, m) \in ConnState
  <2>1. k \in ConnState BY <1>k, <1>c
  <2> HIDE DEF k
  <2> QED BY <1>k, <2>1, EndKept, OpenKept, AnswerKept, ConnQueueType, ZenonT(30)
\* Taking a request that is no SealRequest, answering with no SealComplete, or both.
<1>r. ASSUME pc[p] \in SessionPC, pc[p] # "loop" \/ k.req # <<>>, NEW h,
             h.o = k.o, h.sOpen = k.sOpen, h.oOpen = k.oOpen,
             h.req = k.req \/ (k.req # <<>> /\ h.req = Tail(k.req)),
             SealAnswered(h) => SealAnswered(k),
             NEW where \in InLoop, NEW s \in SessionState, s.conn = d,
             s.sealed \/ where \in {"seal", "seal_complete"} => SealTaken(p),
             where # "seal_complete",
             Turns(p, h), At(p, where), Session(p, s)
      PROVE  goal
  BY <1>r, TurnObeys, Zenon
<1>1. CASE ColdStart(p) \/ BindColdStart(p) \/ RecoverLock(p)
  <2>1. /\ pc[p] \in {"unborn", "cold_bind", "recover"} /\ UNCHANGED <<conn, sess>>
        /\ \E w \in {"cold_bind", "dead", "accept"} : pc' = [pc EXCEPT ![p] = w]
    BY <1>1, Zenon DEF ColdStart, BindColdStart, RecoverLock, At
  <2> QED BY <2>1, QuietObeys, Zenon DEF SessionPC, InLoop
<1>2. CASE GiveUp(p) BY <1>2, <1>x, Zenon DEF GiveUp
<1>3. CASE NoHelloAck(p) BY <1>3, <1>e, Zenon DEF NoHelloAck, SessionPC
<1>4. CASE Disconnected(p) BY <1>4, <1>l, Zenon DEF Disconnected, SessionPC, InLoop
<1>5. CASE RecvUnexpected(p) BY <1>5, <1>e, Zenon DEF RecvUnexpected, Receives, SessionPC, InLoop
<1>6. CASE RecvHelloAck(p)
  <2>1. pc[p] = "hello_ack" /\ k.req # <<>> /\ pc[p] \in SessionPC BY <1>6, Zenon DEF RecvHelloAck, SessionPC
  <2>2. CASE SessionError(p) BY <2>1, <2>2, <1>e, Zenon
  <2>3. CASE ~SessionError(p)
    <3>1. Turns(p, TakeRequest(k)) /\ At(p, "loop") /\ Session(p, sess[p])
      BY <1>6, <2>3, <1>s, Zenon DEF RecvHelloAck, Turns, Session
    <3>2. ~sess[p].sealed BY <1>t, <2>1, Zenon DEF OwnershipInv, InLoop
    <3> QED BY <2>1, <3>1, <3>2, <1>s, <1>k, <1>m, <1>r, ZenonT(30) DEF InLoop, MsgType, C
  <2> QED BY <2>2, <2>3, Zenon
<1>7. CASE RecvPrepareHandoff(p)
  <2>1. PICK m \in Message : /\ Receives(p, m)
                             /\ IF sess[p].active \in {0, m.id}
                                THEN /\ Session(p, [sess[p] EXCEPT !.active = m.id])
                                     /\ Turns(p, TakeRequest(k)) /\ At(p, "drain")
                                ELSE SessionError(p)
    BY <1>7, Zenon DEF RecvPrepareHandoff, Turns
  <2>2. pc[p] = "loop" /\ k.req # <<>> /\ pc[p] \in SessionPC BY <2>1, Zenon DEF Receives, SessionPC, InLoop
  <2>3. CASE SessionError(p) BY <2>2, <2>3, <1>e, Zenon
  <2>4. CASE ~SessionError(p)
    <3> DEFINE s == [sess[p] EXCEPT !.active = m.id]
    <3>1. s \in SessionState /\ s.conn = d /\ s.sealed = sess[p].sealed
      BY <1>s, Zenon DEF SessionState, Message, C
    <3>2. Turns(p, TakeRequest(k)) /\ At(p, "drain") /\ Session(p, s) BY <2>1, <2>4, Zenon
    <3> HIDE DEF s
    <3> QED BY <2>2, <3>1, <3>2, <1>k, <1>m, <1>r, ZenonT(30) DEF InLoop, MsgType, SealTaken
  <2> QED BY <2>3, <2>4, Zenon
<1>8. CASE RecvSealRequest(p)
  <2>1. PICK m \in Message : /\ Receives(p, m) /\ m.type = "SealRequest"
                             /\ IF sess[p].active = m.id
                                THEN /\ UNCHANGED sess
                                     /\ Turns(p, TakeRequest(k)) /\ At(p, "seal")
                                ELSE SessionError(p)
    BY <1>8, Zenon DEF RecvSealRequest, Turns
  <2>2. /\ pc[p] = "loop" /\ k.req # <<>> /\ Head(k.req).type = "SealRequest"
        /\ pc[p] \in SessionPC
    BY <2>1, Zenon DEF Receives, SessionPC, InLoop
  <2>3. CASE SessionError(p) BY <2>2, <2>3, <1>e, Zenon
  <2>4. CASE ~SessionError(p)
    <3>1. Turns(p, TakeRequest(k)) /\ At(p, "seal") /\ Session(p, sess[p])
      BY <2>1, <2>4, <1>s, ZenonT(30) DEF Session
    <3>2. /\ TakeRequest(k).o = k.o /\ TakeRequest(k).sOpen = k.sOpen
          /\ TakeRequest(k).oOpen = k.oOpen /\ TakeRequest(k).req = Tail(k.req)
          /\ SealAnswered(TakeRequest(k)) => SealAnswered(k)
      BY <2>2, <1>k, <1>m, ZenonT(30) DEF MsgType
    <3>3. "seal" \in InLoop /\ sess[p].conn = d BY DEF InLoop, C
    <3> DEFINE h == TakeRequest(k)
    <3> HIDE DEF h
    <3> QED BY <2>2, <3>1, <3>2, <3>3, <1>s, TurnObeys, ZenonT(30) DEF h
  <2> QED BY <2>3, <2>4
<1>9. CASE DrainOk(p)
  <2> DEFINE s == [sess[p] EXCEPT !.drained = TRUE]
  <2>1. pc[p] = "drain" /\ pc[p] \in SessionPC BY <1>9, Zenon DEF DrainOk, SessionPC, InLoop
  <2>2. CASE CanReply(p)
    <3>1. Turns(p, Reply(k, Msg("Drained", 0))) /\ At(p, "loop") /\ Session(p, s)
      BY <1>9, <2>2, Zenon DEF DrainOk, Turns
    <3>2. s \in SessionState /\ s.conn = d /\ s.sealed = sess[p].sealed
      BY <1>s, Zenon DEF SessionState, C
    <3>3. Msg("Drained", 0) \in Message /\ Msg("Drained", 0).type # "SealComplete"
      BY <1>m DEF MsgType, Msg
    <3> HIDE DEF s
    <3> QED BY <2>1, <3>1, <3>2, <3>3, <1>k, <1>r, Zenon DEF InLoop, SealTaken
  <2>3. CASE ~CanReply(p) BY <1>9, <2>1, <2>3, <1>l, Zenon DEF DrainOk
  <2> QED BY <2>2, <2>3, Zenon
<1>10. CASE DrainErr(p) BY <1>10, <1>l, Zenon DEF DrainErr, SessionPC, InLoop
<1>11. CASE SealOk(p)
  <2> DEFINE s == [sess[p] EXCEPT !.sealed = TRUE]
  <2>1. pc[p] = "seal" /\ pc[p] \in SessionPC /\ SealTaken(p)
    BY <1>11, Zenon DEF SealOk, SessionPC, InLoop, SealTaken
  <2>2. Turns(p, k) /\ At(p, "seal_complete") /\ Session(p, s)
    BY <1>11, <1>t, Zenon DEF SealOk, Turns, TypeOK
  <2>3. s \in SessionState /\ s.conn = d /\ s.sealed
    BY <1>s, Zenon DEF SessionState, C
  <2>4. "seal_complete" \in InLoop BY Zenon DEF InLoop
  <2> HIDE DEF s
  <2> QED BY <2>1, <2>2, <2>3, <2>4, TurnObeys, Zenon
<1>12. CASE SendSealComplete(p)
  <2> DEFINE m == Msg("SealComplete", sess[p].active)
             h == Reply(k, m)
  <2>1. pc[p] = "seal_complete" /\ pc[p] \in SessionPC /\ SealTaken(p)
    BY <1>12, Zenon DEF SendSealComplete, SessionPC, InLoop, SealTaken
  <2>2. CASE SessionError(p) BY <2>1, <2>2, <1>e, Zenon
  <2>3. CASE ~SessionError(p)
    <3>1. Turns(p, h) /\ At(p, "loop") /\ Session(p, sess[p])
      BY <1>12, <2>3, <1>s, Zenon DEF SendSealComplete, Turns, Session
    <3>2. m \in Message BY <1>m, Zenon DEF MsgType
    <3>3. h.o = k.o /\ h.sOpen = k.sOpen /\ h.oOpen = k.oOpen /\ h.req = k.req
      BY <2>1, <3>2, <1>k, Zenon
    <3>4. "loop" \in InLoop /\ sess[p].conn = d BY DEF InLoop, C
    <3> HIDE DEF h
    <3> QED BY <2>1, <3>1, <3>3, <3>4, <1>s, TurnObeys, Zenon
  <2> QED BY <2>2, <2>3
<1>13. CASE SealErr(p)
  <2> DEFINE m == Msg("SealFailed", sess[p].active)
             h == Reply(k, m)
             s == [sess[p] EXCEPT !.drained = FALSE, !.active = 0]
  <2>1. pc[p] = "seal" /\ pc[p] \in SessionPC /\ SealTaken(p)
    BY <1>13, Zenon DEF SealErr, SessionPC, InLoop, SealTaken
  <2>2. m \in Message /\ m.type # "SealComplete" BY <1>m, Zenon DEF MsgType, Msg
  <2>3. /\ h.o = k.o /\ h.sOpen = k.sOpen /\ h.oOpen = k.oOpen /\ h.req = k.req
        /\ SealAnswered(h) => SealAnswered(k)
        /\ h \in ConnState
    BY <2>1, <2>2, <1>k, Zenon
  <2>4. CASE Turns(p, h) /\ At(p, "loop") /\ Session(p, s)
    <3>0. 0 \in Id BY DEF Id
    <3>1. s \in SessionState /\ s.conn = d /\ s.sealed = sess[p].sealed
      BY <1>s, <3>0, Zenon DEF SessionState, C
    <3> HIDE DEF s, h
    <3> QED BY <2>1, <2>3, <2>4, <3>1, <1>r, Zenon DEF InLoop
  <2>5. CASE LeaveSession(p, sess[p], "resume_failed", h, TRUE)
    <3> HIDE DEF h
    <3> QED BY <2>1, <2>3, <2>5, LeaveObeys, Zenon
  <2>6. CASE EndSession(p, sess[p], consumer[p], TRUE) BY <2>1, <2>6, <1>l, Zenon
  <2> QED BY <1>13, <2>4, <2>5, <2>6, ZenonT(30) DEF SealErr, Turns
<1>14. CASE RecvCommit(p)
  <2>1. pc[p] = "loop" /\ k.req # <<>> /\ pc[p] \in SessionPC /\ (Exit(p) \/ SessionError(p))
    BY <1>14 DEF RecvCommit, Receives, SessionPC, InLoop
  <2> QED BY <2>1, <1>x, <1>e, Zenon
<1>15. CASE RecvResume(p)
  <2> DEFINE s == [sess[p] EXCEPT !.active = 0, !.sealed = FALSE, !.drained = FALSE]
             h == Answer(k, <<>>)
  <2>1. pc[p] = "loop" /\ k.req # <<>> /\ pc[p] \in SessionPC
    BY <1>15, Zenon DEF RecvResume, Receives, SessionPC, InLoop
  <2>2. \/ SessionError(p)
        \/ EndSession(p, sess[p], "resume_failed", TRUE)
        \/ \E q : NextRequest(p, s, q, <<>>)
    BY <1>15, Zenon DEF RecvResume
  <2>3. ASSUME NEW q, NextRequest(p, s, q, <<>>) PROVE goal
    <3>1. Turns(p, h) /\ At(p, "loop") /\ Session(p, s) BY <2>3 DEF NextRequest, Turns
    <3>0. 0 \in Id BY DEF Id
    <3>2. s \in SessionState /\ s.conn = d /\ s.sealed = FALSE
      BY <1>s, <3>0, ZenonT(30) DEF SessionState, C
    <3>3. /\ h.o = k.o /\ h.sOpen = k.sOpen /\ h.oOpen = k.oOpen /\ h.req = Tail(k.req)
          /\ SealAnswered(h) => SealAnswered(k)
      <4>1. k \in ConnState /\ Msg("Hello", 0) \in Message BY <2>1, <1>c, <1>m, Zenon DEF MsgType
      <4> HIDE DEF k
      <4>2. SealAnswered(h) => SealAnswered(k) BY <4>1, AnswerKept, ZenonT(30)
      <4>3. h.o = k.o BY <4>1, EndKept, Zenon
      <4> QED BY <4>1, <4>2, <4>3, OpenKept, ZenonT(30)
    <3> HIDE DEF s, h
    <3> QED BY <2>1, <3>1, <3>2, <3>3, <1>r, Zenon DEF InLoop
  <2> QED BY <2>1, <2>2, <2>3, <1>e, <1>l, Zenon
<1>16. CASE RecvHeartbeat(p)
  <2> DEFINE h == Answer(k, <<Msg("Heartbeat", 0)>>)
  <2>1. pc[p] = "loop" /\ k.req # <<>> /\ pc[p] \in SessionPC
    BY <1>16, Zenon DEF RecvHeartbeat, Receives, SessionPC, InLoop
  <2>2. SessionError(p) \/ NextRequest(p, sess[p], consumer[p], <<Msg("Heartbeat", 0)>>)
    BY <1>16, Zenon DEF RecvHeartbeat
  <2>3. ASSUME NextRequest(p, sess[p], consumer[p], <<Msg("Heartbeat", 0)>>) PROVE goal
    <3>1. Turns(p, h) /\ At(p, "loop") /\ Session(p, sess[p]) BY <2>3, Zenon DEF NextRequest, Turns
    <3>2. sess[p].conn = d BY Zenon DEF C
    <3>3. /\ h.o = k.o /\ h.sOpen = k.sOpen /\ h.oOpen = k.oOpen /\ h.req = Tail(k.req)
          /\ SealAnswered(h) => SealAnswered(k)
      <4>1. k \in ConnState BY <2>1, <1>c, Zenon
      <4>2. Msg("Heartbeat", 0) \in Message /\ Msg("Heartbeat", 0).type # "SealComplete"
        BY <1>m, Zenon DEF MsgType, Msg
      <4> HIDE DEF k
      <4>3. SealAnswered(h) => SealAnswered(k) BY <4>1, <4>2, AnswerKept, Zenon
      <4>4. h.o = k.o BY <4>1, EndKept, Zenon
      <4> QED BY <4>1, <4>3, <4>4, OpenKept, ZenonT(30)
    <3> HIDE DEF h
    <3> QED BY <2>1, <3>1, <3>2, <3>3, <1>s, <1>r, Zenon DEF InLoop, SealTaken
  <2> QED BY <2>1, <2>2, <2>3, <1>e, ZenonT(30)
<1>17. CASE HeartbeatDuringHook(p)
  <2> DEFINE m == Msg("Heartbeat", 0)
             h == Reply(k, m)
  <2>1. pc[p] \in {"drain", "seal"} /\ pc[p] \in SessionPC /\ pc[p] \in InLoop
    BY <1>17, Zenon DEF HeartbeatDuringHook, SessionPC, InLoop
  <2>2. m \in Message /\ m.type # "SealComplete" BY <1>m, Zenon DEF MsgType, Msg
  <2>3. /\ h.o = k.o /\ h.sOpen = k.sOpen /\ h.oOpen = k.oOpen /\ h.req = k.req
        /\ SealAnswered(h) => SealAnswered(k)
    BY <2>1, <2>2, <1>k, ZenonT(30)
  <2>4. Turns(p, h) /\ At(p, pc[p]) /\ Session(p, sess[p])
    BY <1>17, <1>t, <1>s, Zenon DEF HeartbeatDuringHook, Turns, At, Session, TypeOK
  <2>5. sess[p].conn = d BY DEF C
  <2> HIDE DEF h
  <2> QED BY <2>1, <2>3, <2>4, <2>5, <1>s, <1>r, ZenonT(30) DEF SealTaken
<1>18. CASE Accept(p) BY <1>18, AcceptObeys, Zenon
<1> QED
  BY <1>1, <1>2, <1>3, <1>4, <1>5, <1>6, <1>7, <1>8, <1>9, <1>10, <1>11, <1>12, <1>13, ZenonT(30),
           <1>14, <1>15, <1>16, <1>17, <1>18 DEF ServeStep

\* A successor that is starting up has no session; a fault ends one.
LEMMA StartingObeys ==
    ASSUME HandoffInv, SealedInv, NEW p \in Proc,
           SuccessorStep(p) \/ HeartbeatDuringInit(p) \/ Fault(p), ~FatalIo(p) \/ Fault(p)
    PROVE  Obeys(p) /\ Answers(p)
<1>t. pc \in [Proc -> ProcPC] BY Zenon DEF HandoffInv, TypeOK
<1>1. pc[p] # "dead"
  BY Zenon DEF SuccessorStep, HeartbeatDuringInit, Fault, ProcCrash, Alive, SendHello, RecvAck, RecvBegin,
     SupervisorGone, AcquireFlock, InitFails, AnnounceReady, BindAfterReady
<1>2. ASSUME Exit(p) PROVE Obeys(p) /\ Answers(p) BY <1>1, <1>2, ExitObeys, Zenon
<1>3. CASE Fault(p) BY <1>2, <1>3, Zenon DEF Fault, ProcCrash, FatalIo
<1>4. CASE (SuccessorStep(p) \/ HeartbeatDuringInit(p)) /\ ~Exit(p)
  <2>1. /\ pc[p] \in SuccessorPC /\ UNCHANGED <<conn, sess>>
        /\ \E w \in SuccessorPC \cup {"accept"} : pc' = [pc EXCEPT ![p] = w]
    <3>1. CASE HeartbeatDuringInit(p)
      BY <1>t, <3>1, Zenon DEF HeartbeatDuringInit, successorFrame, SuccessorPC
    <3>2. CASE SuccessorStep(p)
      BY <1>4, <3>2, Zenon DEF SuccessorStep, SendHello, RecvAck, RecvBegin, SupervisorGone, AcquireFlock,
         InitFails, AnnounceReady, BindAfterReady, FatalIo, Fails, Step, successorFrame, SuccessorPC
    <3> QED BY <1>4, <3>1, <3>2, Zenon
  <2> QED BY <2>1, QuietObeys, Zenon DEF SuccessorPC, SessionPC, InLoop
<1> QED BY <1>2, <1>3, <1>4, Zenon

\* Whatever the primitives do, SealedInv holds after it.
LEMMA PrimitiveSealed ==
    ASSUME HandoffInv, SealedInv, NEW p \in Proc, PrimitiveStep(p)
    PROVE  SealedInv'
<1>1. UNCHANGED <<spc, hid>> BY PrimitiveFrame, Zenon
<1>2. CASE AcceptFails(p) /\ ~FatalIo(p)
  BY <1>2, Zenon DEF AcceptFails, vars, SealedInv, SessionInv, HeldInv, Held, InHandoff, SealTaken,
     SealAnswered, SealRequestLast
<1>3. CASE ~AcceptFails(p) \/ FatalIo(p)
  <2>1. Obeys(p) /\ Answers(p)
    BY <1>3, FaultSplit, IncumbentObeys, StartingObeys, ZenonT(30) DEF HandoffInv
  <2> QED BY <1>1, <2>1, ObeysHeld, Zenon
<1> QED BY <1>2, <1>3, Zenon
-----------------------------------------------------------------------------
\* A step of S outside a handoff that neither moves an open incumbent's end nor starts one.
LEMMA SupervisorSession ==
    ASSUME HandoffInv, SealedInv, UNCHANGED <<pc, sess>>,
           \A c \in Conn : conn[c].oOpen /\ conn[c].o \in Proc =>
              conn'[c].o = conn[c].o /\ conn'[c].oOpen
    PROVE  SessionInv'
<1>1. \A p \in Proc : sess[p].conn # 0 => sess[p].conn \in Conn
  BY DEF HandoffInv, TypeOK, SessionState, Id, Conn
<1> QED BY <1>1, ZenonT(30) DEF SealedInv, SessionInv

\* S's new connection carries nothing, and belongs to no session.
LEMMA ConnectSealed ==
    ASSUME HandoffInv, SealedInv, UNCHANGED <<pc, sess>>, Connect, Connectable,
           ~InHandoff, spc' \in {"boot", "probe", "hello_o"}
    PROVE  SealedInv'
<1>t. /\ conn \in [Conn -> ConnState] /\ hid \in Id /\ sess \in [Proc -> SessionState]
      /\ path \in Proc /\ SealOnceInv /\ SessionInv
  BY DEF HandoffInv, TypeOK, SealedInv, Connectable
<1>1. /\ hid' \in Conn /\ hid' = hid + 1
      /\ conn'[hid'].o = path /\ conn'[hid'].sOpen /\ conn'[hid'].rsp = <<>>
      /\ \A c \in Conn : c # hid' => conn'[c] = conn[c]
  BY <1>t, SMTT(30), Z3T(30) DEF Connect, Id, Conn, NoConn
<1>2. \A p \in Proc : sess[p].conn # 0 => sess[p].conn \in Conn /\ sess[p].conn # hid'
  BY <1>t, <1>1, SMTT(30), Z3T(30) DEF SealOnceInv, SessionState, Id, Conn
<1>3. SessionInv' BY <1>t, <1>1, <1>2, Zenon DEF SessionInv
<1>4. ~SealAnswered(conn'[hid']) BY <1>1 DEF SealAnswered
<1>5. HeldInv' BY <1>t, <1>1, <1>4, Zenon DEF HeldInv, Driving
<1> QED BY <1>3, <1>5, Zenon DEF SealedInv

\* S's step leaves O's end of its connections where it is.
LEMMA SupervisorLeaves ==
    ASSUME HandoffInv, hid \in Conn, NEW m \in Message, NEW k,
           k \in {O, TakeReply(O), Request(O, m), Request(TakeReply(O), m), CloseS(O)}, ToO(k)
    PROVE  /\ \A c \in Conn : conn[c].oOpen => conn'[c].o = conn[c].o /\ conn'[c].oOpen
           /\ conn'[hid] = k
<1>1. conn \in [Conn -> ConnState] /\ O \in ConnState /\ O = conn[hid]
  BY DEF HandoffInv, TypeOK, O
<1>2. O.oOpen => k.o = O.o /\ k.oOpen
  BY <1>1, Zenon DEF ConnState, Request, TakeReply, CloseS
<1>3. conn' = [conn EXCEPT ![hid] = k] BY DEF ToO
<1> QED BY <1>1, <1>2, <1>3, Zenon

\* Within a handoff S's step keeps its end open, whatever it reads or writes.
LEMMA HandoffFrame ==
    ASSUME HandoffInv, SealedInv, InHandoff, UNCHANGED <<pc, sess, hid>>, NEW m \in Message,
           \/ UNCHANGED conn
           \/ \E k \in {O, TakeReply(O), Request(O, m), Request(TakeReply(O), m)} : ToO(k)
    PROVE  /\ SessionInv'
           /\ conn'[hid].o = conn[hid].o /\ conn'[hid].sOpen /\ conn[hid].o \in Proc
<1>1. conn \in [Conn -> ConnState] /\ hid \in Conn
  BY DEF HandoffInv, TypeOK, SupervisorInv, InHandoff, Id, Conn
<1>2. conn[hid].o \in Proc /\ conn[hid].sOpen BY Zenon DEF SealedInv, HeldInv
<1>3. CASE UNCHANGED conn BY <1>2, <1>3, SupervisorSession, Zenon
<1>4. ASSUME NEW k \in {O, TakeReply(O), Request(O, m), Request(TakeReply(O), m)}, ToO(k)
      PROVE  /\ SessionInv'
             /\ conn'[hid].o = conn[hid].o /\ conn'[hid].sOpen
  <2>1. O \in ConnState /\ O = conn[hid] BY <1>1 DEF O
  <2>2. k.o = O.o /\ k.sOpen = O.sOpen
    BY <2>1, ZenonT(30) DEF ConnState, Request, TakeReply
  <2>3. /\ \A c \in Conn : conn[c].oOpen => conn'[c].o = conn[c].o /\ conn'[c].oOpen
        /\ conn'[hid] = k
    BY <1>1, <1>4, SupervisorLeaves, Zenon
  <2>4. SessionInv' BY <2>3, SupervisorSession, Zenon
  <2> QED BY <1>2, <2>1, <2>2, <2>3, <2>4, Zenon
<1> QED BY <1>2, <1>3, <1>4, Zenon

\* A step of S on its connection within a handoff: it asks for no second seal, and counts
\* O as sealed only when O has answered so.
LEMMA HandoffSealed ==
    ASSUME HandoffInv, SealedInv, InHandoff, UNCHANGED <<pc, sess, hid>>, NEW m \in Message, NEW k,
           \/ k \in {O, Request(O, m)}
           \/ O.rsp # <<>> /\ k \in {TakeReply(O), Request(TakeReply(O), m)},
           ToO(k),
           spc' \in BeforeSealRequest => spc \in BeforeSealRequest,
           spc' = "seal" => \/ spc = "seal" /\ k.req = O.req
                            \/ spc = "seal_request" /\ k = Request(O, m),
           spc' \in Driving => k.req = O.req /\ (spc \in Driving \/ (spc = "seal" /\ SealAnswered(O)))
    PROVE  SealedInv'
<1>1. conn \in [Conn -> ConnState] /\ hid \in Conn /\ O \in ConnState /\ O = conn[hid]
  BY SMTT(30), Z3T(30) DEF HandoffInv, TypeOK, SupervisorInv, InHandoff, Id, Conn, O
<1>2. /\ SessionInv' /\ conn'[hid].o = conn[hid].o /\ conn'[hid].sOpen /\ conn[hid].o \in Proc
      /\ conn'[hid] = k
  <2>1. k \in {O, TakeReply(O), Request(O, m), Request(TakeReply(O), m)} BY Zenon
  <2>2. conn'[hid] = k BY <1>1, Zenon DEF ToO
  <2> QED BY <2>1, <2>2, HandoffFrame, Zenon
<1>3. SealAnswered(k) => SealAnswered(O)
  <2>1. /\ SealAnswered(Request(O, m)) => SealAnswered(O)
        /\ O.rsp # <<>> /\ SealAnswered(TakeReply(O)) => SealAnswered(O)
        /\ O.rsp # <<>> /\ SealAnswered(Request(TakeReply(O), m)) => SealAnswered(O)
    BY ONLY <1>1, AnswerKept, m \in Message, Zenon
  <2>2. CASE k = O BY <2>2, Zenon
  <2>3. CASE k = Request(O, m) BY <2>1, <2>3, Zenon
  <2>4. CASE O.rsp # <<>> /\ k = TakeReply(O) BY <2>1, <2>4, Zenon
  <2>5. CASE O.rsp # <<>> /\ k = Request(TakeReply(O), m) BY <2>1, <2>5, Zenon
  <2> QED BY <2>2, <2>3, <2>4, <2>5, Zenon
<1>i. SealOnceInv /\ HeldInv BY Zenon DEF HandoffInv, SealedInv
<1>4. ASSUME Held, k.req = O.req PROVE Held'
  BY <1>1, <1>2, <1>4, Zenon DEF Held
<1>5. ASSUME spc' \in BeforeSealRequest PROVE ~SealAnswered(conn'[hid])
  BY <1>1, <1>2, <1>3, <1>5, <1>i, Zenon DEF HeldInv
<1>6. ASSUME spc' = "seal"
      PROVE  /\ SealRequestLast(conn'[hid].req)
             /\ \A p \in Proc : sess[p].conn = hid /\ SealTaken(p) => conn'[hid].req = <<>>
             /\ SealAnswered(conn'[hid]) => Held'
  <2>1. CASE spc = "seal" /\ k.req = O.req
    BY <1>1, <1>2, <1>3, <1>4, <1>i, <2>1, ZenonT(30) DEF HeldInv
  <2>2. CASE spc = "seal_request" /\ k = Request(O, m)
    <3>1. spc \in BeforeSealRequest BY <2>2, Zenon DEF BeforeSealRequest
    <3>2. /\ NoSealRequest(O.req) /\ ~SealAnswered(O)
          /\ \A p \in Proc : sess[p].conn = hid => ~SealTaken(p)
      BY <1>1, <1>i, <3>1, Zenon DEF SealOnceInv, HeldInv
    <3>3. O.req \in Seq(Message) /\ k.req = Append(O.req, m)
      BY <1>1, <2>2, Zenon DEF Request, ConnState
    <3>4. SealRequestLast(k.req) BY <3>2, <3>3, SMTT(30), Z3T(30) DEF NoSealRequest, SealRequestLast
    <3> QED BY <1>2, <1>3, <3>2, <3>4, ZenonT(30)
  <2> QED BY <1>6, <2>1, <2>2, Zenon
<1>7. spc' \in Driving => Held'
  BY <1>1, <1>4, <1>i, Zenon DEF HeldInv
<1>8. \A p \in Proc : SealTaken(p)' <=> SealTaken(p) BY Zenon DEF SealTaken
<1>9. HeldInv' BY <1>2, <1>5, <1>6, <1>7, <1>8, Zenon DEF HeldInv
<1> QED BY <1>2, <1>9, Zenon DEF SealedInv

\* A step of S within a handoff that leaves its connection alone.
LEMMA QuietSealed ==
    ASSUME HandoffInv, SealedInv, InHandoff, UNCHANGED <<pc, sess, hid, conn>>,
           spc' \in BeforeSealRequest => spc \in BeforeSealRequest,
           spc' # "seal" \/ spc = "seal",
           spc' \in Driving => spc \in Driving
    PROVE  SealedInv'
<1>1. SessionInv' BY SupervisorSession, Zenon
<1>2. \A p \in Proc : SealTaken(p)' <=> SealTaken(p) BY Zenon DEF SealTaken
<1>3. /\ SealAnswered(conn[hid])' <=> SealAnswered(conn[hid])
      /\ SealRequestLast(conn[hid].req)' <=> SealRequestLast(conn[hid].req)
      /\ Held' <=> Held
  BY Zenon DEF SealAnswered, SealRequestLast, Held
<1>4. HeldInv' BY <1>2, <1>3, Zenon DEF SealedInv, HeldInv
<1> QED BY <1>1, <1>4, Zenon DEF SealedInv

\* A step of S that ends a handoff, or is in none, and closes at most its own ends.
LEMMA OutsideSealed ==
    ASSUME HandoffInv, SealedInv, UNCHANGED <<pc, sess>>,
           spc' \in {"down", "boot", "probe", "probe_clear", "idle"},
           \A c \in Conn : conn[c].oOpen => conn'[c].o = conn[c].o /\ conn'[c].oOpen
    PROVE  SealedInv'
<1>1. SessionInv' BY SupervisorSession, Zenon
<1> QED BY <1>1, Zenon DEF SealedInv, HeldInv, InHandoff, BeforeSealRequest, Driving

\* The steps of S outside perform_handoff, and the two that enter and leave it.
LEMMA BootSealed ==
    ASSUME HandoffInv, SealedInv, BootStep \/ PerformHandoff \/ SupervisorCrash \/ Restart \/ Return
    PROVE  SealedInv'
<1>t. conn \in [Conn -> ConnState] /\ hid \in Id /\ SupervisorInv BY DEF HandoffInv, TypeOK
<1>u. UNCHANGED <<pc, sess>>
  BY Zenon DEF BootStep, ResumeFromJournal, Probe, ProbeClear, PerformHandoff, SupervisorCrash, Restart,
     Return, primitivesUnchanged, primitiveVars
<1>1. CASE ResumeFromJournal \/ PerformHandoff
  <2>1. /\ ~InHandoff
        /\ \/ UNCHANGED conn /\ spc' \in {"idle", "probe_clear"}
           \/ Connect /\ Connectable /\ spc' \in {"probe", "hello_o"}
    BY <1>1, Zenon DEF ResumeFromJournal, PerformHandoff, Goto, InHandoff
  <2> QED BY <1>u, <2>1, ConnectSealed, OutsideSealed, Zenon
<1>2. CASE Restart \/ ProbeClear
  BY <1>2, <1>u, OutsideSealed, Zenon DEF Restart, ProbeClear, Goto
<1>3. CASE Probe \/ Return
  <2>1. spc \in {"probe", "return"} /\ spc' \in {"probe_clear", "idle"} /\ ToO(CloseS(O))
    BY <1>3, Zenon DEF Probe, Return, Goto
  <2>2. hid \in Conn BY <1>t, <2>1 DEF SupervisorInv, Id, Conn
  <2>3. Msg("Hello", 0) \in Message BY MsgType1 DEF MsgType, Id
  <2>4. \A c \in Conn : conn[c].oOpen => conn'[c].o = conn[c].o /\ conn'[c].oOpen
    BY <2>1, <2>2, <2>3, SupervisorLeaves, Zenon
  <2> QED BY <1>u, <2>1, <2>4, OutsideSealed, Zenon
<1>4. CASE SupervisorCrash
  <2>1. ASSUME NEW c \in Conn, conn[c].oOpen PROVE conn'[c].o = conn[c].o /\ conn'[c].oOpen
    <3>1. conn[c] \in ConnState /\ conn'[c] = CloseS(conn[c])
      BY <1>4, <1>t DEF SupervisorCrash
    <3> QED BY <2>1, <3>1, OpenKept, ZenonT(30)
  <2> QED BY <1>4, <1>u, <2>1, OutsideSealed, Zenon DEF SupervisorCrash
<1> QED BY <1>1, <1>2, <1>3, <1>4, Zenon DEF BootStep

\* The ChildGuard kills a process that has no session: O is untouched.
LEMMA KillSealed ==
    ASSUME HandoffInv, ChildInv, SealedInv, Kill
    PROVE  SealedInv'
<1>t. /\ conn \in [Conn -> ConnState] /\ hid \in Conn /\ child \in Proc
      /\ pc \in [Proc -> ProcPC] /\ sess \in [Proc -> SessionState]
      /\ SessionInv /\ HeldInv
  BY DEF HandoffInv, TypeOK, SupervisorInv, Kill, Id, Conn, SealedInv
<1>1. /\ spc \in {"kill_clear", "kill_resume", "kill_return"} /\ UNCHANGED <<hid, child>>
      /\ \/ spc' \in {"clear", "return"}
         \/ spc = "kill_resume" /\ spc' = "resume"
  BY Zenon DEF Kill, Goto
<1>2. InHandoff BY <1>1, Zenon DEF InHandoff
<1>3. CASE ~Alive(child)
  <2>1. UNCHANGED <<pc, sess, conn>> BY <1>3, Zenon DEF Kill, KillAndReap
  <2> QED BY <1>1, <1>2, <2>1, QuietSealed, Zenon DEF BeforeSealRequest, Driving
<1>4. CASE Alive(child)
  <2>1. Exit(child) BY <1>4, Zenon DEF Kill, KillAndReap
  <2>2. \A c \in Conn : conn[c].o # child BY <1>1, <1>t, Zenon DEF ChildInv, ReadyInv
  <2>3. /\ conn' = conn /\ pc'[child] = "dead" /\ sess'[child].conn = 0
        /\ \A q \in Proc : q # child => pc'[q] = pc[q] /\ sess'[q] = sess[q]
    BY <1>t, <2>1, <2>2, Zenon DEF Exit, NoSession
  <2>4. SessionInv' BY <1>t, <2>3, Zenon DEF SessionInv
  <2>5. spc' \in Driving => Held'
    <3>1. conn[hid].o \in Proc /\ conn[hid].o # child BY <1>2, <1>t, <2>2, Zenon DEF HeldInv
    <3>2. spc' \in Driving => Held BY <1>1, <1>t, Zenon DEF HeldInv, Driving
    <3> QED BY <1>1, <2>3, <3>1, <3>2, Zenon DEF Held
  <2>6. HeldInv' BY <1>1, <1>2, <1>t, <2>3, <2>5, Zenon DEF HeldInv, BeforeSealRequest
  <2> QED BY <2>4, <2>6, Zenon DEF SealedInv
<1> QED BY <1>3, <1>4, Zenon

\* S's steps keep SealedInv.
LEMMA SupervisorSealed ==
    ASSUME HandoffInv, ChildInv, SealedInv, SupervisorStep
    PROVE  SealedInv'
<1>t. /\ conn \in [Conn -> ConnState] /\ hid \in Id /\ SupervisorInv /\ pc \in [Proc -> ProcPC]
      /\ sess \in [Proc -> SessionState]
  BY Zenon DEF HandoffInv, TypeOK
<1>h. \A type \in MsgType : Msg(type, hid) \in Message BY <1>t, MsgType1, Zenon
<1>o. O \in ConnState => /\ TakeReply(O).req = O.req
  BY Zenon DEF TakeReply, ConnState
<1>c. InHandoff => O \in ConnState BY <1>t DEF O, SupervisorInv, InHandoff, Id, Conn
<1>1. CASE BootStep \/ PerformHandoff \/ SupervisorCrash \/ Restart \/ Return BY <1>1, BootSealed, Zenon
<1>2. CASE Kill BY <1>2, KillSealed, Zenon
<1>3. CASE SpawnSuccessor
  <2>1. /\ spc = "spawn" /\ UNCHANGED <<sess, conn, hid>> /\ InHandoff
        /\ spc' \in {"hello_n", "return", "kill_return"}
    BY <1>3, Zenon DEF SpawnSuccessor, Goto, FailWith, InHandoff
  <2>2. CASE UNCHANGED pc BY <2>1, <2>2, QuietSealed, Zenon DEF BeforeSealRequest, Driving
  <2>3. ASSUME NEW p \in Proc, pc[p] = "unborn", pc' = [pc EXCEPT ![p] = "spawned"]
        PROVE  SealedInv'
    <3>1. \A q \in Proc : q # p => pc'[q] = pc[q] BY <1>t, <2>3, Zenon
    <3>2. sess[p].conn = 0 BY <2>3, Zenon DEF SealedInv, SessionInv, SessionPC, InLoop
    <3>3. SessionInv' BY <1>t, <2>1, <2>3, <3>1, <3>2, ZenonT(30) DEF SealedInv, SessionInv
    <3>4. HeldInv' BY <2>1, Zenon DEF SealedInv, HeldInv, BeforeSealRequest, Driving, InHandoff
    <3> QED BY <3>3, <3>4, Zenon DEF SealedInv
  <2> QED BY <1>3, <2>2, <2>3, Zenon DEF SpawnSuccessor
<1> USE DEF Goto, primitivesUnchanged, primitiveVars
<1>f. ASSUME NEW r, FailWith(r)
      PROVE  spc' \notin BeforeSealRequest /\ spc' # "seal" /\ spc' \notin Driving
  BY <1>f, Zenon DEF FailWith, BeforeSealRequest, Driving
<1>4. CASE HelloO
  <2>1. spc = "hello_o" /\ UNCHANGED <<pc, sess, hid>> /\ InHandoff /\ spc \in BeforeSealRequest
    BY <1>4, Zenon DEF HelloO, InHandoff, BeforeSealRequest
  <2>2. CASE FailWith("error") /\ UNCHANGED conn BY <1>f, <2>1, <2>2, QuietSealed, ZenonT(30)
  <2>3. CASE ~(FailWith("error") /\ UNCHANGED conn)
    <3> DEFINE m == Msg("HelloAck", hid)
               k == Request(TakeReply(O), m)
    <3>1. O.rsp # <<>> /\ ToO(k) /\ spc' = "spawn" BY <1>4, <2>3, Zenon DEF HelloO
    <3>2. m \in Message BY <1>h, Zenon DEF MsgType
    <3>3. k \in {TakeReply(O), Request(TakeReply(O), m)} BY Zenon
    <3> HIDE DEF m, k
    <3> QED BY <2>1, <3>1, <3>2, <3>3, HandoffSealed, Zenon DEF Driving
  <2> QED BY <2>2, <2>3, Zenon
<1>5. CASE HelloN
  <2>1. spc = "hello_n" /\ UNCHANGED <<pc, sess, hid, conn>> /\ InHandoff
        /\ spc' \in {"negotiating", "return", "kill_return"}
    BY <1>5, Zenon DEF HelloN, InHandoff, FailWith
  <2> QED BY <2>1, QuietSealed, Zenon DEF BeforeSealRequest, Driving
<1>6. CASE \/ JournalNegotiating \/ JournalDraining \/ JournalSealing \/ JournalAwaitingReady
           \/ JournalResuming
  <2>1. /\ UNCHANGED <<pc, sess, hid, conn>>
        /\ \/ spc = "negotiating" /\ spc' = "prepare"
           \/ spc = "draining" /\ spc' = "seal_request"
           \/ spc = "sealing" /\ spc' = "begin"
           \/ spc = "awaiting_ready" /\ spc' = "ready"
           \/ spc = "resuming" /\ spc' = "clear"
           \/ /\ spc \in {"negotiating", "draining", "sealing", "awaiting_ready", "resuming"}
              /\ FailWith("error")
    BY <1>6, Zenon DEF JournalNegotiating, JournalDraining, JournalSealing, JournalAwaitingReady,
       JournalResuming, JournalSet
  <2>2. InHandoff BY <2>1, Zenon DEF InHandoff
  <2> QED BY <1>f, <2>1, <2>2, QuietSealed, Zenon DEF BeforeSealRequest, Driving
<1>7. CASE PrepareHandoff \/ SealRequest \/ ResumeAfterAbort
  <2>1. PICK type \in {"PrepareHandoff", "SealRequest", "ResumeAfterAbort"} :
          /\ UNCHANGED <<pc, sess, hid>>
          /\ \/ /\ ToO(Request(O, Msg(type, hid)))
                /\ \/ spc = "prepare" /\ spc' = "drained"
                   \/ spc = "seal_request" /\ spc' = "seal"
                   \/ spc = "resume" /\ spc' = "resuming"
             \/ /\ UNCHANGED conn /\ FailWith("error")
                /\ spc \in {"prepare", "seal_request", "resume"}
    BY <1>7, Zenon DEF PrepareHandoff, SealRequest, ResumeAfterAbort, SendToO
  <2>2. InHandoff BY <2>1, Zenon DEF InHandoff
  <2>3. CASE UNCHANGED conn /\ FailWith("error")
    BY <1>f, <2>1, <2>2, <2>3, QuietSealed, ZenonT(30)
  <2>4. CASE ToO(Request(O, Msg(type, hid))) /\ ~(UNCHANGED conn /\ FailWith("error"))
    <3> DEFINE m == Msg(type, hid)
               k == Request(O, m)
    <3>1. m \in Message BY <1>h, Zenon DEF MsgType
    <3>2. k \in {O, Request(O, m)} /\ k = Request(O, m) /\ ToO(k) BY <2>4, Zenon
    <3>3. /\ spc' \in BeforeSealRequest => spc \in BeforeSealRequest
          /\ spc' = "seal" => spc = "seal_request"
          /\ spc' \notin Driving
      BY <2>1, <2>4, Zenon DEF BeforeSealRequest, Driving
    <3> HIDE DEF m, k
    <3> QED BY <2>1, <2>2, <3>1, <3>2, <3>3, HandoffSealed, ZenonT(30)
  <2> QED BY <2>1, <2>3, <2>4, Zenon
<1>8. CASE AwaitDrained \/ DrainedDeadline
  <2>1. /\ UNCHANGED <<pc, sess, hid>> /\ spc = "drained"
        /\ (O.rsp # <<>> /\ ToO(TakeReply(O))) \/ UNCHANGED conn
        /\ spc' \in {"drained", "draining"} \/ FailWith("error")
    BY <1>8, Zenon DEF AwaitDrained, DrainedDeadline
  <2>2. InHandoff /\ spc \in BeforeSealRequest BY <2>1, Zenon DEF InHandoff, BeforeSealRequest
  <2>3. spc' # "seal" /\ spc' \notin Driving BY <1>f, <2>1, Zenon DEF Driving
  <2>4. CASE UNCHANGED conn BY <2>1, <2>2, <2>3, <2>4, QuietSealed, Zenon
  <2>5. CASE O.rsp # <<>> /\ ToO(TakeReply(O))
    <3> DEFINE m == Msg("Hello", hid)
               k == TakeReply(O)
    <3>1. m \in Message /\ k \in {TakeReply(O), Request(TakeReply(O), m)} /\ ToO(k)
      BY <1>h, <2>5, Zenon DEF MsgType
    <3> HIDE DEF m, k
    <3> QED BY <2>1, <2>2, <2>3, <2>5, <3>1, HandoffSealed, ZenonT(30)
  <2> QED BY <2>1, <2>4, <2>5, Zenon
<1>9. CASE RecvSealReply \/ SealDeadline
  <2> DEFINE m == Msg("Hello", hid)
             k == TakeReply(O)
  <2>1. /\ UNCHANGED <<pc, sess, hid>> /\ spc = "seal" /\ O.rsp # <<>> /\ ToO(k)
        /\ \/ spc' = "seal" \/ spc' = "kill_clear" \/ FailWith("error")
           \/ spc' = "sealing" /\ Head(O.rsp) = Msg("SealComplete", hid)
    BY <1>9, Zenon DEF RecvSealReply, SealDeadline, AbortSealPhase
  <2>2. InHandoff BY <2>1, Zenon DEF InHandoff
  <2>3. m \in Message /\ k \in {TakeReply(O), Request(TakeReply(O), m)} /\ k.req = O.req
    BY <1>h, <1>o, <1>c, <2>2, Zenon DEF MsgType
  <2>4. Head(O.rsp) = Msg("SealComplete", hid) => SealAnswered(O)
    <3>1. O.rsp \in Seq(Message) BY <1>c, <2>2, Zenon DEF ConnState
    <3>2. 1 \in DOMAIN O.rsp /\ Head(O.rsp) = O.rsp[1] BY <2>1, <3>1
    <3> QED BY <3>2 DEF SealAnswered, Msg
  <2>5. /\ spc' \notin BeforeSealRequest
        /\ spc' \in Driving => SealAnswered(O)
    BY <1>f, <2>1, <2>4, Zenon DEF BeforeSealRequest, Driving
  <2> HIDE DEF m, k
  <2> QED BY <2>1, <2>2, <2>3, <2>5, HandoffSealed, Zenon
<1>10. CASE SealTimeout \/ SealReadError
  <2>1. /\ UNCHANGED <<pc, sess, hid, conn>> /\ spc = "seal"
        /\ spc' = "kill_clear" \/ FailWith("error")
    BY <1>10, Zenon DEF SealTimeout, SealReadError, AbortSealPhase
  <2>2. InHandoff BY <2>1, Zenon DEF InHandoff
  <2> QED BY <1>f, <2>1, <2>2, QuietSealed, Zenon DEF BeforeSealRequest, Driving
<1>11. CASE Begin \/ AwaitReady \/ ReadyDeadline
  <2>1. /\ UNCHANGED <<pc, sess, hid, conn>> /\ spc \in {"begin", "ready"}
        /\ spc' \in {"awaiting_ready", "kill_resume", "commit", "ready"}
    BY <1>11, Zenon DEF Begin, AwaitReady, ReadyDeadline, AbortReadyPhase
  <2>2. InHandoff BY <2>1, Zenon DEF InHandoff
  <2> QED BY <2>1, <2>2, QuietSealed, Zenon DEF BeforeSealRequest, Driving
<1>12. CASE JournalCommitted \/ JournalClear
  <2>1. /\ UNCHANGED <<pc, sess, hid, conn>> /\ spc \in {"committed", "clear"}
        /\ spc' \in {"clear", "return"}
    BY <1>12, Zenon DEF JournalCommitted, JournalClear
  <2>2. InHandoff BY <2>1, Zenon DEF InHandoff
  <2> QED BY <2>1, <2>2, QuietSealed, Zenon DEF BeforeSealRequest, Driving
<1>13. CASE Commit
  <2> DEFINE m == Msg("Commit", hid)
             k == IF O.oOpen THEN Request(O, m) ELSE O
  <2>1. UNCHANGED <<pc, sess, hid>> /\ spc = "commit" /\ spc' = "committed" /\ ToO(k)
    BY <1>13, Zenon DEF Commit
  <2>2. InHandoff /\ m \in Message /\ k \in {O, Request(O, m)}
    BY <1>h, <2>1, Zenon DEF InHandoff, MsgType
  <2> HIDE DEF m, k
  <2> QED BY <2>1, <2>2, HandoffSealed, Zenon DEF BeforeSealRequest, Driving
<1> QED
  BY <1>1, <1>2, <1>3, <1>4, <1>5, <1>6, <1>7, <1>8, <1>9, <1>10, <1>11, <1>12, <1>13, ZenonT(30)
       DEF SupervisorStep, HandoffStep

\* SealedInv, with HandoffInv and ChildInv, is inductive.
LEMMA SealedStep ==
    ASSUME HandoffInv, ChildInv, SealedInv, [Next]_vars
    PROVE  SealedInv'
<1>1. CASE UNCHANGED vars
  BY <1>1, Zenon DEF vars, SealedInv, SessionInv, HeldInv, Held, InHandoff, SealTaken, SealAnswered,
     SealRequestLast
<1> QED BY <1>1, SupervisorSealed, PrimitiveSealed, Zenon DEF Next
-----------------------------------------------------------------------------
\* Nothing is left of a queue of one.
LEMMA TailOfOne ==
    ASSUME NEW S, NEW q \in Seq(S), Len(q) = 1
    PROVE  Tail(q) = <<>>
<1> DEFINE t == Tail(q)
<1>1. q # <<>> OBVIOUS
<1>2. t \in Seq(S) BY <1>1
<1>3. Len(t) = Len(q) - 1 BY <1>1
<1> HIDE DEF t
<1>4. t = <<>> BY <1>2, <1>3
<1> QED BY <1>4 DEF t

\* What is read of a queue, or closed, was there.
LEMMA HasKept ==
    ASSUME NEW q \in Seq(Message), NEW m \in Message, NEW type
    PROVE  /\ ~Has(<<>>, type)
           /\ q # <<>> /\ Has(Tail(q), type) => Has(q, type)
           /\ m.type # type /\ Has(Append(q, m), type) => Has(q, type)
           /\ Len(q) = 1 => Tail(q) = <<>>
<1>1. ~Has(<<>>, type) BY DEF Has
<1>2. ASSUME q # <<>>, Has(Tail(q), type) PROVE Has(q, type)
  <2>1. PICK i \in DOMAIN Tail(q) : Tail(q)[i].type = type BY <1>2 DEF Has
  <2>2. i + 1 \in DOMAIN q /\ Tail(q)[i] = q[i + 1] BY <1>2, <2>1
  <2> QED BY <2>1, <2>2 DEF Has
<1>3. ASSUME m.type # type, Has(Append(q, m), type) PROVE Has(q, type)
  <2>1. PICK i \in DOMAIN Append(q, m) : Append(q, m)[i].type = type BY <1>3 DEF Has
  <2>2. i \in DOMAIN q /\ Append(q, m)[i] = q[i] BY <1>3, <2>1
  <2> QED BY <2>1, <2>2 DEF Has
<1>4. Len(q) = 1 => Tail(q) = <<>> BY TailOfOne
<1> QED BY <1>1, <1>2, <1>3, <1>4, Zenon

\* The four invariants together.
Sound == HandoffInv /\ ChildInv /\ SealedInv /\ CommitInv /\ StageInv

\* An incumbent that waits for the outcome has not been told to exit.
LEMMA WaitingLasts ==
    ASSUME Sound, InHandoff, Waiting
    PROVE  /\ conn[hid].o \in Proc /\ pc[conn[hid].o] = "loop"
           /\ Lasting(conn[hid].o)
<1> DEFINE o == conn[hid].o
<1>1. o \in Proc BY Zenon DEF Sound, SealedInv, HeldInv
<1>2. /\ pc[o] = "loop" /\ sess[o].conn = hid /\ conn[hid].req = <<>>
  BY DEF Waiting, Held
<1>3. ~Retired(o)
  <2>1. SUFFICES ASSUME NEW c \in Conn, conn[c].o = o, Has(conn[c].req, "Commit") PROVE FALSE
    BY DEF Retired
  <2>2. sess[o].conn = c BY <2>1 DEF Sound, CommitInv
  <2>3. Has(<<>>, "Commit") BY <1>2, <2>1, <2>2, Zenon
  <2> QED BY <2>3 DEF Has
<1> QED BY <1>1, <1>2, <1>3, Zenon DEF Lasting, Serving, ServePC

\* A lock that stays held in a recovery is held by, or for, another incumbent.
LEMMA GivenUp ==
    ASSUME Sound, NEW p \in Proc, pc[p] = "recover", flock # None
    PROVE  \E q \in Proc \ {p} : Lasting(q)
<1> DEFINE h == flock
<1>1. h \in Proc /\ Writing(h) /\ OwnershipInv(h) /\ pc[h] \in ProcPC
  BY DEF Sound, HandoffInv, TypeOK, OwnerIsWriter
<1>2. pc[h] \in Owning \cup InLoop
  BY <1>1 DEF OwnershipInv, Writing, BeforeFlock, Owning, InLoop, ProcPC, SuccessorPC, ServePC
<1>3. h # p BY <1>2 DEF Owning, InLoop
<1>4. CASE pc[h] # "locked"
  <2>1. ~Retired(h)
    <3>1. SUFFICES ASSUME NEW c \in Conn, conn[c].o = h, Has(conn[c].req, "Commit") PROVE FALSE
      BY DEF Retired
    <3>2. pc[h] = "loop" /\ sess[h].sealed BY <3>1 DEF Sound, CommitInv
    <3> QED BY <1>1, <3>2, Zenon DEF OwnershipInv, InLoop, Writing
  <2> QED BY <1>1, <1>2, <1>3, <1>4, <2>1, Zenon DEF Lasting, Serving, ServePC, Owning, InLoop
<1>5. CASE pc[h] = "locked"
  <2>1. h = child /\ InHandoff BY <1>1, <1>5, Zenon DEF Sound, StageInv, Unannounced
  <2>2. result # "committed"
    BY <1>1, <1>5, <2>1, Zenon DEF Sound, ChildInv, ReadyInv, InHandoff, Announced
  <2>3. Waiting BY <1>1, <1>5, <2>1, <2>2, Zenon DEF Sound, StageInv, Begun
  <2> QED BY <2>1, <2>3, WaitingLasts, Zenon
<1> QED BY <1>4, <1>5, Zenon
-----------------------------------------------------------------------------
\* A Commit that waits alone is all its session can read, and reading it closes the
\* connection.
LEMMA CommitRead ==
    ASSUME HandoffInv, SealedInv, NEW p \in Proc, PrimitiveStep(p), pc[p] = "loop",
           Len(conn[C(p)].req) = 1, Has(conn[C(p)].req, "Commit")
    PROVE  conn'[C(p)].req = <<>>
<1> DEFINE d == C(p)
<1>1. d \in Conn /\ conn[d] \in ConnState BY SessionConn, Zenon DEF InLoop
<1>2. conn[d].req \in Seq(Message) /\ conn[d].req # <<>> /\ Head(conn[d].req).type = "Commit"
  <2>1. conn[d].req \in Seq(Message) BY <1>1, Zenon DEF ConnState
  <2> QED BY <2>1 DEF Has
<1>3. conn \in [Conn -> ConnState] /\ conn[d].o = p
  BY <1>1, SMTT(30) DEF HandoffInv, TypeOK, SealedInv, SessionInv, C, Conn
<1>4. CloseO(conn[d]).req = <<>> BY <1>1, OpenKept, Zenon
<1>x. Exit(p) => conn'[d].req = <<>> BY <1>1, <1>3, <1>4, Zenon DEF Exit
<1>5. CASE ProcCrash(p) BY <1>5, <1>x, Zenon DEF ProcCrash
<1>6. CASE RecvCommit(p)
  <2>1. Exit(p) \/ SessionError(p) BY <1>6, Zenon DEF RecvCommit
  <2>2. ASSUME SessionError(p) PROVE conn'[d].req = <<>>
    <3>1. conn' = [conn EXCEPT ![d] = CloseO(conn[d])]
      BY <2>2, Zenon DEF SessionError, EndSession, LeaveSession
    <3> QED BY <1>1, <1>3, <1>4, <3>1, Zenon
  <2> QED BY <1>x, <2>1, <2>2, Zenon
<1>7. ~(ColdStart(p) \/ BindColdStart(p) \/ HeartbeatDuringHook(p) \/ HeartbeatDuringInit(p))
  BY Zenon DEF ColdStart, BindColdStart, HeartbeatDuringHook, HeartbeatDuringInit
<1>8. ~SuccessorStep(p)
  BY DEF SuccessorStep, SendHello, RecvAck, RecvBegin, SupervisorGone, AcquireFlock,
     InitFails, AnnounceReady, BindAfterReady
<1>9. ~(Accept(p) \/ RecvHelloAck(p) \/ NoHelloAck(p) \/ Disconnected(p) \/ DrainOk(p) \/ DrainErr(p))
  BY <1>2, Zenon DEF Accept, RecvHelloAck, NoHelloAck, Disconnected, DrainOk, DrainErr
<1>10. ~(SealOk(p) \/ SendSealComplete(p) \/ SealErr(p) \/ RecoverLock(p) \/ GiveUp(p) \/ AcceptFails(p))
  BY DEF SealOk, SendSealComplete, SealErr, RecoverLock, GiveUp, AcceptFails
<1>11. ~(RecvPrepareHandoff(p) \/ RecvSealRequest(p) \/ RecvResume(p) \/ RecvHeartbeat(p) \/ RecvUnexpected(p))
  BY <1>2, ZenonT(30) DEF RecvPrepareHandoff, RecvSealRequest, RecvResume, RecvHeartbeat, RecvUnexpected, Receives
<1> QED BY <1>5, <1>6, <1>7, <1>8, <1>9, <1>10, <1>11, ZenonT(30) DEF PrimitiveStep, ServeStep

\* Only a step that leaves a process in accept names a listener.
LEMMA Binds ==
    ASSUME HandoffInv, NEW p \in Proc, PrimitiveStep(p)
    PROVE  \/ path' = path
           \/ pc[p] \in {"cold_bind", "announced"} /\ pc'[p] = "accept"
<1>t. pc \in [Proc -> ProcPC] BY DEF HandoffInv, TypeOK
<1>1. CASE BindColdStart(p) \/ BindAfterReady(p)
  BY <1>1, <1>t, ZenonT(30) DEF BindColdStart, BindAfterReady, FatalIo, At, Step
<1>2. CASE ~BindColdStart(p) /\ ~BindAfterReady(p)
  BY <1>2, Zenon DEF PrimitiveStep, ColdStart, ServeStep, HeartbeatDuringHook, Accept,
     RecvHelloAck, NoHelloAck, Disconnected, RecvPrepareHandoff, DrainOk, DrainErr,
     RecvSealRequest, SealOk, SendSealComplete, SealErr, RecvCommit, RecvResume, RecvHeartbeat,
     RecvUnexpected, RecoverLock, GiveUp, AcceptFails, vars, SuccessorStep,
     HeartbeatDuringInit, ProcCrash, FatalIo, SendHello, RecvAck, RecvBegin, SupervisorGone, AcquireFlock,
     InitFails, AnnounceReady, Fails, successorFrame, othersUnchanged
<1> QED BY <1>1, <1>2, Zenon

\* A successor begins only when told to, and fails only before it announces.
LEMMA SuccessorStage ==
    ASSUME HandoffInv, NEW p \in Proc, SuccessorStep(p) \/ HeartbeatDuringInit(p), ~FatalIo(p)
    PROVE  /\ Begun(p)' => Begun(p)
           /\ pc'[p] \in Unannounced => pc[p] \in Unannounced
           /\ pc'[p] = "dead" => pc[p] \in Unannounced /\ (NoReady(pipe[p]) => NoReady(pipe'[p]))
<1>t. pc \in [Proc -> ProcPC] /\ pipe \in [Proc -> PipeState] /\ pipe[p].toN \in Seq(Message)
  BY Zenon DEF HandoffInv, TypeOK, PipeState
<1> USE <1>t DEF Step, Unannounced
<1>m. Msg("Hello", 0) \in Message BY MsgType1 DEF MsgType, Id
<1>x. ASSUME Fails(p), pc[p] \in Unannounced
      PROVE  pc'[p] = "dead" /\ (NoReady(pipe[p]) => NoReady(pipe'[p]))
  <2>1. pc'[p] = "dead" /\ pipe'[p] = CloseN(pipe[p]) BY <1>x DEF Fails, Exit
  <2>2. pipe'[p].toS \in {pipe[p].toS, <<>>} BY <2>1 DEF CloseN, NoPipe, PipeState
  <2> QED BY <2>1, <2>2 DEF NoReady
<1>y. ASSUME Fails(p), pc[p] \in Unannounced PROVE ~Begun(p)'
  BY <1>x, <1>y, Zenon DEF Begun
<1>1. CASE SendHello(p)
  <2>1. CASE Fails(p) BY <1>1, <2>1, <1>x, <1>y, Zenon DEF SendHello
  <2>2. CASE ~Fails(p)
    <3>1. pc[p] = "spawned" /\ pc'[p] = "handshake" /\ pipe'[p].toN = pipe[p].toN
      BY <1>1, <2>2, ZenonT(30) DEF SendHello, SendToS, PipeState
    <3> QED BY <3>1, Zenon DEF Begun
  <2> QED BY <2>1, <2>2, Zenon
<1>2. CASE RecvAck(p)
  <2>1. CASE Fails(p) BY <1>2, <2>1, <1>x, <1>y, Zenon DEF RecvAck
  <2>2. CASE ~Fails(p)
    <3>0. /\ pc[p] = "handshake" /\ pc' = [pc EXCEPT ![p] = "wait_for_begin"]
          /\ pipe[p].toN # <<>> /\ pipe' = [pipe EXCEPT ![p] = Handshook(pipe[p])]
      BY <1>2, <2>2, Zenon DEF RecvAck, ToN
    <3>1. /\ pc[p] = "handshake" /\ pc'[p] = "wait_for_begin"
          /\ pipe[p].toN # <<>> /\ pipe'[p].toN = Tail(pipe[p].toN)
      BY <3>0, Zenon DEF Handshook, PipeState
    <3>2. Has(pipe'[p].toN, "Begin") => Has(pipe[p].toN, "Begin") BY <3>1, <1>m, HasKept, Zenon
    <3> QED BY <3>1, <3>2, Zenon DEF Begun
  <2> QED BY <2>1, <2>2
<1>3. CASE RecvBegin(p)
  <2>1. CASE Fails(p) BY <1>3, <2>1, <1>x, <1>y, ZenonT(30) DEF RecvBegin
  <2>2. CASE ~Fails(p)
    <3> DEFINE next == IF Head(pipe[p].toN).type = "Begin" THEN "begun" ELSE "wait_for_begin"
    <3>0. /\ pc[p] = "wait_for_begin" /\ pc' = [pc EXCEPT ![p] = next]
          /\ pipe[p].toN # <<>> /\ pipe' = [pipe EXCEPT ![p] = TakeFromS(pipe[p])]
      BY <1>3, <2>2, Zenon DEF RecvBegin, ToN
    <3>1. /\ pc[p] = "wait_for_begin" /\ pc'[p] = next
          /\ pipe[p].toN # <<>> /\ pipe'[p].toN = Tail(pipe[p].toN)
      BY <3>0, Zenon DEF TakeFromS, PipeState
    <3>2. Has(pipe'[p].toN, "Begin") => Has(pipe[p].toN, "Begin") BY <3>1, <1>m, HasKept, Zenon
    <3>3. Head(pipe[p].toN).type = "Begin" => Has(pipe[p].toN, "Begin") BY <3>1 DEF Has
    <3> QED BY <3>1, <3>2, <3>3, ZenonT(30) DEF Begun
  <2> QED BY <2>1, <2>2
<1>4. CASE SupervisorGone(p) BY <1>4, <1>x, <1>y, Zenon DEF SupervisorGone
<1>5. CASE AcquireFlock(p) \/ AnnounceReady(p)
  BY <1>5, <1>x, <1>y, Zenon DEF AcquireFlock, AnnounceReady, Begun
<1>6. CASE BindAfterReady(p) BY <1>6, Zenon DEF BindAfterReady, Begun
<1>7. CASE HeartbeatDuringInit(p) BY <1>7, Zenon DEF HeartbeatDuringInit, Begun
<1>8. CASE InitFails(p) BY <1>8, <1>x, <1>y, Zenon DEF InitFails
<1> QED BY <1>1, <1>2, <1>3, <1>4, <1>5, <1>6, <1>7, <1>8, ZenonT(30) DEF SuccessorStep
-----------------------------------------------------------------------------
Survivor == path # None => \E q \in Proc : Lasting(q)

\* What a step of a primitive other than a fault leaves to the rest of this section.
Moves(p) ==
    /\ UNCHANGED <<spc, hid, child, result>>
    /\ Obeys(p) /\ Answers(p) /\ SameEnds
    /\ \A q \in Proc : q # p => pipe'[q] = pipe[q]

\* Every step of a primitive does so, or changes nothing.
LEMMA PrimitiveMoves ==
    ASSUME HandoffInv, SealedInv, NEW p \in Proc, PrimitiveStep(p)
    PROVE  Moves(p) \/ UNCHANGED vars
<1> DEFINE incumbent == /\ ~FatalIo(p)
                        /\ ColdStart(p) \/ BindColdStart(p) \/ ServeStep(p) \/ HeartbeatDuringHook(p)
           starting == /\ ~FatalIo(p) \/ Fault(p)
                       /\ SuccessorStep(p) \/ HeartbeatDuringInit(p) \/ Fault(p)
<1>u. UNCHANGED <<spc, hid, child, result>> BY PrimitiveFrame, Zenon
<1>1. CASE incumbent
  <2>1. (Obeys(p) /\ Answers(p)) \/ AcceptFails(p) BY <1>1, IncumbentObeys, Zenon
  <2>2. SameEnds /\ \A q \in Proc : q # p => pipe'[q] = pipe[q]
    BY <1>1, IncumbentEnds, IncumbentMoves, Zenon
  <2> QED BY <1>u, <1>1, <2>1, <2>2, ZenonT(30) DEF Moves, AcceptFails
<1>2. CASE starting
  <2>1. Obeys(p) /\ Answers(p) BY <1>2, StartingObeys, Zenon
  <2>2. SameEnds /\ \A q \in Proc : q # p => pipe'[q] = pipe[q]
    BY <1>2, SuccessorMoves, Zenon
  <2> QED BY <1>u, <2>1, <2>2, Zenon DEF Moves
<1> QED BY <1>1, <1>2, FaultSplit, Zenon DEF HandoffInv

\* A Commit in a queue was there, whole, and its reader has not moved.
LEMMA PrimitiveCommit ==
    ASSUME Sound, NEW p \in Proc, PrimitiveStep(p), Moves(p)
    PROVE  /\ CommitInv'
           /\ \A q \in Proc : Retired(q)' => Retired(q)
<1>t. conn \in [Conn -> ConnState] /\ \A c \in Conn : conn[c].req \in Seq(Message)
  BY Zenon DEF Sound, HandoffInv, TypeOK, ConnState
<1>m. Msg("Hello", 0) \in Message BY MsgType1 DEF MsgType, Id
<1>1. ASSUME NEW c \in Conn, Has(conn'[c].req, "Commit")
      PROVE  Has(conn[c].req, "Commit")
  <2>1. \/ conn'[c].req \in {conn[c].req, <<>>}
        \/ conn[c].req # <<>> /\ conn'[c].req = Tail(conn[c].req)
    BY Zenon DEF Moves, Answers
  <2> QED BY <1>t, <1>m, <1>1, <2>1, HasKept, ZenonT(30)
<1>2. ASSUME NEW c \in Conn, Has(conn'[c].req, "Commit")
      PROVE  /\ conn[c].o # p /\ conn'[c] = conn[c] /\ conn[c].o \in Proc
             /\ Len(conn[c].req) = 1 /\ pc[conn[c].o] = "loop"
             /\ sess[conn[c].o].conn = c /\ sess[conn[c].o].sealed
             /\ pc'[conn[c].o] = pc[conn[c].o] /\ sess'[conn[c].o] = sess[conn[c].o]
  <2>1. /\ conn[c].o \in Proc /\ Len(conn[c].req) = 1 /\ pc[conn[c].o] = "loop"
        /\ sess[conn[c].o].conn = c /\ sess[conn[c].o].sealed
    BY <1>1, <1>2, Zenon DEF Sound, CommitInv
  <2>2. conn[c].o # p
    <3>1. SUFFICES ASSUME conn[c].o = p PROVE FALSE BY Zenon
    <3>2. C(p) = c BY <2>1, <3>1, Zenon DEF C
    <3>3. conn'[c].req = <<>> BY <1>1, <1>2, <2>1, <3>1, <3>2, CommitRead, ZenonT(30) DEF Sound
    <3> QED BY <1>2, <1>t, <1>m, <3>3, HasKept, ZenonT(30)
  <2> QED BY <2>1, <2>2, ZenonT(30) DEF Moves, Obeys
<1>3. \A c \in Conn :
         Has(conn'[c].req, "Commit") =>
            /\ conn'[c].o \in Proc /\ Len(conn'[c].req) = 1
            /\ pc'[conn'[c].o] = "loop" /\ sess'[conn'[c].o].conn = c
            /\ sess'[conn'[c].o].sealed
  BY <1>2, SMTT(30)
<1>4. (InHandoff /\ result # "committed")' => ~Has(conn'[hid'].req, "Commit")
  <2>1. InHandoff => hid \in Conn
    BY SMTT(30) DEF Sound, HandoffInv, TypeOK, SupervisorInv, InHandoff, Id, Conn
  <2> QED BY <1>1, <2>1, Zenon DEF Moves, Sound, CommitInv, InHandoff
<1>5. CommitInv' BY <1>3, <1>4, Zenon DEF CommitInv, Has
<1>6. ASSUME NEW q \in Proc, Retired(q)' PROVE Retired(q)
  <2>1. PICK c \in Conn : conn'[c].o = q /\ Has(conn'[c].req, "Commit") BY <1>6, Zenon DEF Retired, Has
  <2> QED BY <1>1, <1>2, <2>1, Zenon DEF Retired
<1> QED BY <1>5, <1>6, ZenonT(30)

\* Nothing but a fault or a Commit makes the incumbent that waits leave.
LEMMA WaitingKept ==
    ASSUME Sound, NEW p \in Proc, PrimitiveStep(p), ~Fault(p), Moves(p), InHandoff, Waiting
    PROVE  Waiting'
<1> DEFINE o == conn[hid].o
<1>1. /\ o \in Proc /\ conn[hid].sOpen /\ hid \in Conn /\ UNCHANGED hid
  BY DEF Sound, SealedInv, HeldInv, HandoffInv, TypeOK, SupervisorInv, InHandoff, Id, Conn, Moves
<1>2. pc[o] = "loop" /\ sess[o].conn = hid /\ sess[o].sealed /\ conn[hid].req = <<>>
  BY Zenon DEF Waiting, Held
<1>3. CASE o = p
  <2>1. pc'[p] = "dead" BY <1>1, <1>2, <1>3, Zenon DEF Moves, Obeys, C
  <2>2. pc'[p] \in Serving \/ GiveUp(p) \/ ToldToExit(p)
    BY <1>2, <1>3, Departs, ZenonT(30) DEF Sound, HandoffInv, Unannounced
  <2> QED BY <1>2, <1>3, <2>1, <2>2, Zenon DEF Serving, ServePC, GiveUp, ToldToExit, C
<1>4. CASE o # p
  BY <1>1, <1>2, <1>4 DEF Moves, Obeys, Waiting, Held
<1> QED BY <1>3, <1>4, ZenonT(30)

\* The successor of the handoff under way is not in serve's loop: only its own startup
\* moves it.
LEMMA ChildMoves ==
    ASSUME Sound, NEW p \in Proc, PrimitiveStep(p), ~Fault(p), Moves(p),
           child # None, spc # "idle"
    PROVE  /\ child \in Proc
           /\ Begun(child)' => Begun(child)
           /\ pc'[child] = "dead" =>
                 \/ pc[child] = "dead" /\ pipe'[child] = pipe[child]
                 \/ pc[child] \in Unannounced /\ NoReady(pipe'[child])
<1>1. /\ child \in Proc /\ UNCHANGED child
      /\ \A c \in Conn : conn[c].o # child
      /\ pc[child] \in Starting /\ (pc[child] \in Announced \/ NoReady(pipe[child]))
  BY Zenon DEF Sound, HandoffInv, TypeOK, ChildInv, ReadyInv, Moves
<1>2. CASE child # p
  <2>1. pc'[child] = pc[child] /\ pipe'[child] = pipe[child] BY <1>1, <1>2, Zenon DEF Moves, Obeys
  <2> QED BY <1>1, <2>1, ZenonT(30) DEF Begun, Has
<1>3. CASE child = p
  <2>0. /\ ~FatalIo(p)
        /\ \/ ColdStart(p) \/ BindColdStart(p) \/ ServeStep(p) \/ HeartbeatDuringHook(p)
           \/ SuccessorStep(p) \/ HeartbeatDuringInit(p)
    BY FaultSplit, Zenon DEF Sound, HandoffInv
  <2>1. ~Accept(p) /\ ~AcceptFails(p) BY <1>1, <1>3, <2>0, ZenonT(30) DEF Accept, AcceptFails, Backlog
  <2>2. SuccessorStep(p) \/ HeartbeatDuringInit(p)
    BY <1>1, <1>3, <2>0, <2>1, IncumbentMoves, ZenonT(30) DEF Sound
  <2>3. /\ Begun(p)' => Begun(p)
        /\ pc'[p] = "dead" => pc[p] \in Unannounced /\ (NoReady(pipe[p]) => NoReady(pipe'[p]))
    BY <2>0, <2>2, SuccessorStage, ZenonT(30) DEF Sound
  <2> QED BY <1>1, <1>3, <2>3, Zenon DEF Begun, Has, Unannounced, Announced
<1> QED BY <1>2, <1>3, Zenon

\* Only a spawn makes a successor.
LEMMA UnannouncedKept ==
    ASSUME Sound, NEW p \in Proc, PrimitiveStep(p), ~Fault(p), Moves(p), NEW q \in Proc,
           pc'[q] \in Unannounced
    PROVE  pc[q] \in Unannounced
<1>1. CASE q # p BY <1>1, Zenon DEF Moves, Obeys
<1>2. CASE q = p BY <1>2, Departs, ZenonT(30) DEF Sound, HandoffInv, Serving, ServePC, Unannounced
<1> QED BY <1>1, <1>2, ZenonT(30)

\* A step of a primitive other than a fault keeps what S knows of N, and O waiting.
LEMMA PrimitiveStage ==
    ASSUME Sound, NEW p \in Proc, PrimitiveStep(p), ~Fault(p), Moves(p)
    PROVE  StageInv'
<1>u. UNCHANGED <<spc, hid, child, result>> /\ (InHandoff' <=> InHandoff) BY DEF Moves, InHandoff
<1>i. StageInv /\ SealedInv BY ZenonT(30) DEF Sound
<1>h. InHandoff => hid \in Conn /\ conn[hid].o \in Proc /\ conn'[hid].o = conn[hid].o
  BY <1>i DEF Sound, HandoffInv, TypeOK, SupervisorInv, SealedInv, HeldInv, InHandoff, Id, Conn, Moves,
     Obeys
<1>w. InHandoff /\ Waiting => Waiting' BY WaitingKept, Zenon
<1>c. ASSUME child # None, spc # "idle"
      PROVE  /\ Begun(child)' => Begun(child)
             /\ pc'[child] = "dead" =>
                   \/ pc[child] = "dead" /\ pipe'[child] = pipe[child]
                   \/ pc[child] \in Unannounced /\ NoReady(pipe'[child])
  BY <1>c, ChildMoves, Zenon
<1>1. \A q \in Proc : pc'[q] \in Unannounced => q = child' /\ InHandoff'
  BY <1>u, <1>i, UnannouncedKept, Zenon DEF StageInv
<1>2. /\ spc' \in {"hello_o", "spawn"} => child' = None
      /\ spc' \in Unwinding => result' # "none"
  BY <1>u, <1>i, Zenon DEF StageInv
<1>3. ASSUME child # None
      PROVE  /\ spc \in BeforeBegin => ~Begun(child)'
             /\ spc \in BeforeBegin \cup {"awaiting_ready", "ready"} =>
                   pc'[child] # "dead" \/ NoReady(pipe'[child])
             /\ InHandoff /\ result # "committed" /\ Begun(child)' => Waiting'
  <2>1. CASE spc = "idle" BY <2>1, Zenon DEF BeforeBegin, BeforeSealRequest, InHandoff
  <2>2. CASE spc # "idle" BY <1>i, <1>w, <1>c, <1>3, <2>2, ZenonT(30) DEF StageInv
  <2> QED BY <2>1, <2>2, Zenon
<1>4. spc \in Driving => Waiting'
  BY <1>i, <1>w, Zenon DEF StageInv, Driving, InHandoff
<1>5. ASSUME spc = "seal", SealAnswered(conn'[hid]) PROVE Waiting'
  <2>1. InHandoff BY <1>5, Zenon DEF InHandoff
  <2>2. CASE SealAnswered(conn[hid]) BY <1>5, <1>i, <1>w, <2>1, <2>2, ZenonT(30) DEF StageInv
  <2>3. CASE ~SealAnswered(conn[hid])
    <3>1. hid = C(p) /\ pc[p] = "seal_complete" /\ pc'[p] = "loop"
      BY <1>5, <1>h, <2>1, <2>3, ZenonT(30) DEF Moves, Answers
    <3>2. conn[hid].o = p BY <1>h, <1>i, <2>1, <3>1 DEF SealedInv, SessionInv, C, Conn
    <3>3. SealedInv' BY PrimitiveSealed, Zenon DEF Sound
    <3>4. Held' BY <1>5, <1>u, <3>3, Zenon DEF SealedInv, HeldInv
    <3> QED BY <1>u, <1>h, <2>1, <3>1, <3>2, <3>4, ZenonT(30) DEF Waiting
  <2> QED BY <2>2, <2>3, Zenon
<1>6. spc = "commit" \/ (result = "committed" /\ spc # "idle") => pc'[child] # "dead"
  <2>1. SUFFICES ASSUME spc = "commit" \/ (result = "committed" /\ spc # "idle")
                 PROVE  pc'[child] # "dead"
    BY Zenon
  <2>2. child # None /\ pc[child] \in Announced /\ pc[child] # "dead" /\ spc # "idle"
    BY <1>i, <2>1, ZenonT(30) DEF Sound, ChildInv, ReadyInv, StageInv
  <2> QED BY <1>c, <2>2, Zenon DEF Announced, Unannounced
<1>7. \A q \in Proc : Begun(q)' <=>
         \/ pc'[q] \in {"begun", "locked", "announced", "accept"}
         \/ pc'[q] \in {"spawned", "handshake", "wait_for_begin"} /\ Has(pipe'[q].toN, "Begin")
  BY Zenon DEF Begun, Has
<1>8. (NoReady(pipe[child]))' <=> NoReady(pipe'[child'])
  BY Zenon DEF NoReady
<1>9. SealAnswered(conn[hid])' <=> SealAnswered(conn'[hid'])
  BY Zenon DEF SealAnswered
<1>10. child' # None =>
          /\ spc' \in BeforeBegin => ~(Begun(child)')
          /\ spc' \in BeforeBegin \cup {"awaiting_ready", "ready"} =>
                pc'[child'] # "dead" \/ NoReady(pipe[child])'
          /\ InHandoff' /\ result' # "committed" /\ Begun(child)' => Waiting'
  BY <1>u, <1>3, <1>8, Zenon
<1> QED BY <1>u, <1>1, <1>2, <1>4, <1>5, <1>6, <1>9, <1>10, ZenonT(30) DEF StageInv

\* And keeps a lasting incumbent.
LEMMA PrimitiveSurvivor ==
    ASSUME Sound, Survivor, NEW p \in Proc, PrimitiveStep(p), ~Fault(p), Moves(p)
    PROVE  Survivor'
<1>r. ASSUME NEW q \in Proc, pc'[q] \in Serving, ~Retired(q) PROVE Lasting(q)'
  BY <1>r, PrimitiveCommit, Zenon DEF Lasting
<1>o. ASSUME NEW q \in Proc, q # p, Lasting(q) PROVE Lasting(q)'
  BY <1>o, <1>r, Zenon DEF Moves, Obeys, Lasting
<1>1. CASE path = None /\ path' # None
  <2>1. pc[p] \in {"cold_bind", "announced"} /\ pc'[p] = "accept" BY <1>1, Binds, Zenon DEF Sound
  <2>2. ~Retired(p) BY <2>1, Zenon DEF Retired, Sound, CommitInv
  <2>3. Lasting(p)' BY <1>r, <2>1, <2>2, Zenon DEF Serving, ServePC
  <2> QED BY <2>3, Zenon DEF Survivor
<1>2. CASE path # None
  <2>1. PICK q \in Proc : Lasting(q) BY <1>2, Zenon DEF Survivor
  <2>2. CASE q # p BY <1>o, <2>1, <2>2, Zenon DEF Survivor
  <2>3. CASE q = p /\ pc'[p] \in Serving BY <1>r, <2>1, <2>3, Zenon DEF Lasting, Survivor
  <2>4. CASE q = p /\ pc'[p] \notin Serving
    <3>1. GiveUp(p) \/ ToldToExit(p)
      BY <2>1, <2>4, Departs, ZenonT(30) DEF Sound, HandoffInv, Lasting, Serving, ServePC, Unannounced
    <3>2. ~ToldToExit(p)
      <4>1. SUFFICES ASSUME ToldToExit(p) PROVE FALSE BY Zenon
      <4>2. C(p) \in Conn /\ conn[C(p)] \in ConnState
        BY <4>1, SessionConn, Zenon DEF ToldToExit, InLoop, Sound
      <4>3. conn[C(p)].o = p BY <4>2 DEF Sound, SealedInv, SessionInv, C, Conn
      <4>4. conn[C(p)].req \in Seq(Message) BY <4>2, Zenon DEF ConnState
      <4>5. Has(conn[C(p)].req, "Commit") BY <4>1, <4>4 DEF ToldToExit, Has, Msg
      <4> QED BY <2>1, <2>4, <4>2, <4>3, <4>5, ZenonT(30) DEF Lasting, Retired
    <3>3. PICK r \in Proc \ {p} : Lasting(r) BY <3>1, <3>2, GivenUp, Zenon DEF GiveUp, LockHeld
    <3>4. Lasting(r)' BY <1>o, <3>3, Zenon
    <3> QED BY <3>4, Zenon DEF Survivor
  <2> QED BY <2>2, <2>3, <2>4, ZenonT(30)
<1> QED BY <1>1, <1>2, Zenon DEF Survivor
-----------------------------------------------------------------------------
Survives == CommitInv' /\ StageInv' /\ Survivor'

\* A step of S that moves nobody and adds no Commit retires nobody.
LEMMA CommitFrame ==
    ASSUME Sound, Survivor, UNCHANGED <<pc, sess, path>>,
           \A c \in Conn : Has(conn'[c].req, "Commit") =>
              conn'[c].req = conn[c].req /\ conn'[c].o = conn[c].o,
           (InHandoff' /\ result' # "committed") => ~Has(conn'[hid'].req, "Commit")
    PROVE  CommitInv' /\ Survivor'
<1>1. \A c \in Conn : Has(conn'[c].req, "Commit") =>
         /\ conn'[c].o \in Proc /\ Len(conn'[c].req) = 1
         /\ pc'[conn'[c].o] = "loop" /\ sess'[conn'[c].o].conn = c /\ sess'[conn'[c].o].sealed
  BY DEF Sound, CommitInv
<1>2. CommitInv' BY <1>1, Zenon DEF CommitInv, Has
<1>3. ASSUME NEW q \in Proc, Lasting(q) PROVE Lasting(q)'
  BY <1>3, Zenon DEF Lasting, Retired, Has
<1>4. Survivor' BY <1>3, Zenon DEF Survivor
<1> QED BY <1>2, <1>4, Zenon

\* What S writes to, and reads from, its connection in a handoff.
LEMMA TalkToO ==
    ASSUME Sound, InHandoff, NEW m \in Message, m.type # "Commit", NEW k,
           \/ k \in {O, TakeReply(O)}
           \/ k \in {Request(O, m), Request(TakeReply(O), m)} /\ result # "committed",
           ToO(k)
    PROVE  /\ \A c \in Conn : Has(conn'[c].req, "Commit") =>
                 conn'[c].req = conn[c].req /\ conn'[c].o = conn[c].o
           /\ result # "committed" => ~Has(conn'[hid].req, "Commit")
           /\ conn'[hid].o = conn[hid].o /\ conn'[hid] = k
           /\ k \in {O, TakeReply(O)} => conn'[hid].req = conn[hid].req
<1>1. hid \in Conn /\ conn \in [Conn -> ConnState]
  BY DEF Sound, HandoffInv, TypeOK, SupervisorInv, InHandoff, Id, Conn
<1>2. O = conn[hid] /\ O \in ConnState /\ O.req \in Seq(Message) BY <1>1, Zenon DEF O, ConnState
<1>3. conn'[hid] = k /\ \A c \in Conn : c # hid => conn'[c] = conn[c] BY <1>1, Zenon DEF ToO
<1>4. /\ k.o = O.o
      /\ k \in {O, TakeReply(O)} => k.req = O.req
      /\ k \in {Request(O, m), Request(TakeReply(O), m)} => k.req = Append(O.req, m)
  BY <1>2, Zenon DEF ConnState, TakeReply, Request
<1>5. ASSUME result # "committed" PROVE ~Has(k.req, "Commit")
  <2>1. ~Has(O.req, "Commit") BY <1>2, <1>5, Zenon DEF Sound, CommitInv
  <2>2. ~Has(Append(O.req, m), "Commit") BY <1>2, <2>1, HasKept, Zenon
  <2> QED BY <1>4, <2>1, <2>2, ZenonT(30)
<1> HIDE DEF O
<1> QED BY <1>2, <1>3, <1>4, <1>5, Zenon

\* Where S is after a step of a handoff that kills nobody, and what it then knows.
LEMMA StageFrame ==
    ASSUME Sound, SealedInv', InHandoff, InHandoff', UNCHANGED <<pc, sess, child, hid>>,
           conn'[hid].o = conn[hid].o,
           conn'[hid].req = conn[hid].req \/ (child # None => ~Begun(child)),
           child # None =>
              /\ Begun(child)' => Begun(child) \/ spc' = "awaiting_ready"
              /\ NoReady(pipe[child]) => NoReady(pipe'[child]),
           spc' \in BeforeBegin => spc \in BeforeBegin,
           spc' \in {"awaiting_ready", "ready"} => spc \in {"begin", "awaiting_ready", "ready"},
           spc' \in {"hello_o", "spawn"} => spc \in {"hello_o", "spawn"},
           spc' \in Unwinding => result' # "none",
           result' # "committed" => result # "committed",
           spc' \in Driving => spc \in Driving \/ (spc = "seal" /\ SealAnswered(conn[hid])),
           spc' = "seal" /\ SealAnswered(conn'[hid]) => spc = "seal" /\ SealAnswered(conn[hid]),
           spc' = "commit" \/ result' = "committed" => pc[child] # "dead"
    PROVE  StageInv'
<1>i. StageInv /\ SealedInv' BY Zenon DEF Sound
<1>1. \A q \in Proc : pc'[q] \in Unannounced => q = child' /\ InHandoff'
  BY <1>i, Zenon DEF StageInv
<1>2. spc' \in {"hello_o", "spawn"} => child' = None BY <1>i, Zenon DEF StageInv
<1>3. Waiting /\ conn'[hid].req = conn[hid].req => Waiting'
  BY Zenon DEF Waiting, Held
<1>4. ASSUME spc' \in Driving \/ (spc' = "seal" /\ SealAnswered(conn'[hid])) PROVE Waiting'
  <2>1. pc[conn[hid].o] # "dead" BY <1>4, <1>i, Zenon DEF StageInv, Waiting
  <2>2. SealAnswered(conn'[hid]) => SealAnswered(conn[hid])' BY Zenon DEF SealAnswered
  <2>3. Held' BY <1>4, <1>i, <2>2, ZenonT(30) DEF SealedInv, HeldInv
  <2> QED BY <2>1, <2>3, Zenon DEF Waiting
<1>5. ASSUME child # None
      PROVE  /\ spc' \in BeforeBegin => ~(Begun(child)')
             /\ spc' \in BeforeBegin \cup {"awaiting_ready", "ready"} =>
                   pc'[child] # "dead" \/ NoReady(pipe'[child])
             /\ result' # "committed" /\ Begun(child)' => Waiting'
  <2>1. spc' \in BeforeBegin => ~(Begun(child)')
    BY <1>5, <1>i, Zenon DEF StageInv, BeforeBegin, BeforeSealRequest
  <2>2. spc' \in BeforeBegin \cup {"awaiting_ready", "ready"} =>
           pc'[child] # "dead" \/ NoReady(pipe'[child])
    BY <1>5, <1>i, Zenon DEF StageInv, BeforeBegin
  <2>3. ASSUME result' # "committed", Begun(child)' PROVE Waiting'
    <3>1. CASE spc' = "awaiting_ready" BY <1>4, <3>1, Zenon DEF Driving
    <3>2. CASE Begun(child) BY <1>5, <1>i, <1>3, <2>3, <3>2, ZenonT(30) DEF StageInv
    <3> QED BY <1>5, <2>3, <3>1, <3>2, ZenonT(30)
  <2> QED BY <2>1, <2>2, <2>3, Zenon
<1>6. NoReady(pipe'[child']) => NoReady(pipe[child])' BY Zenon DEF NoReady
<1>7. SealAnswered(conn[hid])' => SealAnswered(conn'[hid']) BY Zenon DEF SealAnswered
<1>8. child' # None =>
         /\ spc' \in BeforeBegin => ~(Begun(child)')
         /\ spc' \in BeforeBegin \cup {"awaiting_ready", "ready"} =>
               pc'[child'] # "dead" \/ NoReady(pipe[child])'
         /\ InHandoff' /\ result' # "committed" /\ Begun(child)' => Waiting'
  BY <1>5, <1>6, Zenon
<1> QED BY <1>1, <1>2, <1>4, <1>7, <1>8, ZenonT(30) DEF StageInv

\* Nor a Begin, unless S sends it.
LEMMA BeginPipe ==
    ASSUME HandoffInv, child # None, UNCHANGED <<pc, child>>, NEW m \in Message, m.type # "Begin",
           \/ UNCHANGED pipe \/ ToPipe(N) \/ ToPipe(SendToN(N, m))
           \/ ToPipe(TakeFromN(N)) \/ ToPipe(SendToN(TakeFromN(N), m))
    PROVE  Begun(child)' => Begun(child)
<1>1. child \in Proc /\ pipe \in [Proc -> PipeState] /\ N = pipe[child] /\ N \in PipeState
      /\ N.toN \in Seq(Message)
  BY Zenon DEF HandoffInv, TypeOK, N, PipeState
<1>2. ASSUME NEW w, ToPipe(w) PROVE pipe'[child] = w
  BY <1>1, <1>2, Zenon DEF ToPipe
<1>3. /\ SendToN(N, m).toN = Append(N.toN, m) /\ TakeFromN(N).toN = N.toN
      /\ SendToN(TakeFromN(N), m).toN = Append(N.toN, m)
  BY <1>1, Zenon DEF SendToN, TakeFromN, PipeState
<1>4. pipe'[child].toN \in {pipe[child].toN, Append(pipe[child].toN, m)}
  <2>1. pipe'[child] \in {pipe[child], N, SendToN(N, m), TakeFromN(N), SendToN(TakeFromN(N), m)}
    BY <1>2, Zenon
  <2> QED BY <1>1, <1>3, <2>1, ZenonT(30)
<1>5. Has(pipe'[child].toN, "Begin") => Has(pipe[child].toN, "Begin")
  <2>1. Has(Append(pipe[child].toN, m), "Begin") => Has(pipe[child].toN, "Begin")
    BY <1>1, HasKept, Zenon
  <2> QED BY <1>4, <2>1, Zenon
<1>6. Has(pipe[child].toN, "Begin")' => Has(pipe'[child'].toN, "Begin") BY Zenon DEF Has
<1> QED BY <1>5, <1>6, ZenonT(30) DEF Begun

\* What S knows where its step takes it, it knew before or has just learnt.
Stages ==
    /\ spc' \in BeforeBegin => spc \in BeforeBegin
    /\ spc' \in {"awaiting_ready", "ready"} => spc \in {"begin", "awaiting_ready", "ready"}
    /\ spc' \in {"hello_o", "spawn"} => spc \in {"hello_o", "spawn"}
    /\ spc' \in Unwinding => result' # "none"
    /\ result' # "committed" => result # "committed"
    /\ spc' \in Driving => spc \in Driving \/ (spc = "seal" /\ SealAnswered(conn[hid]))
    /\ spc' = "seal" /\ SealAnswered(conn'[hid]) => spc = "seal" /\ SealAnswered(conn[hid])
    /\ spc' = "commit" \/ result' = "committed" => pc[child] # "dead"

\* A step of a handoff that kills nobody, commits nothing and, when it writes to O,
\* does so before N was told to begin or after it was killed.
LEMMA HandoffSurvival ==
    ASSUME Sound, Survivor, SupervisorStep, InHandoff, InHandoff',
           UNCHANGED <<pc, sess, path, child, hid>>, NEW m \in Message, m.type # "Commit",
           \/ UNCHANGED conn
           \/ ToO(TakeReply(O))
           \/ /\ ToO(Request(O, m)) \/ ToO(Request(TakeReply(O), m))
              /\ result # "committed" /\ (child # None => ~Begun(child)),
           child # None =>
              /\ Begun(child)' => Begun(child) \/ spc' = "awaiting_ready"
              /\ NoReady(pipe[child]) => NoReady(pipe'[child]),
           Stages
    PROVE  Survives
<1>1. SealedInv' BY SupervisorSealed, ZenonT(30) DEF Sound
<1>2. hid \in Conn /\ conn \in [Conn -> ConnState]
  BY SMTT(30) DEF Sound, HandoffInv, TypeOK, SupervisorInv, InHandoff, Id, Conn
<1>3. UNCHANGED conn => ToO(O) BY <1>2, Zenon DEF ToO, O
<1>4. PICK k : /\ ToO(k)
               /\ \/ k \in {O, TakeReply(O)}
                  \/ /\ k \in {Request(O, m), Request(TakeReply(O), m)}
                     /\ result # "committed" /\ (child # None => ~Begun(child))
  BY <1>3, Zenon
<1>5. /\ \A c \in Conn : Has(conn'[c].req, "Commit") =>
            conn'[c].req = conn[c].req /\ conn'[c].o = conn[c].o
      /\ result # "committed" => ~Has(conn'[hid].req, "Commit")
      /\ conn'[hid].o = conn[hid].o
      /\ k \in {O, TakeReply(O)} => conn'[hid].req = conn[hid].req
  BY <1>4, TalkToO, Zenon
<1>6. CommitInv' /\ Survivor'
  <2>1. result' # "committed" => result # "committed" BY Zenon DEF Stages
  <2> QED BY <1>5, <2>1, CommitFrame, ZenonT(30)
<1>7. conn'[hid].req = conn[hid].req \/ (child # None => ~Begun(child)) BY <1>4, <1>5, Zenon
<1>8. StageInv' BY <1>1, <1>5, <1>7, StageFrame, ZenonT(30) DEF Stages
<1> QED BY <1>6, <1>8, Zenon DEF Survives

\* Commit retires O, which waits, in favour of N, which has announced Ready.
LEMMA CommitSurvives ==
    ASSUME Sound, Survivor, Commit
    PROVE  Survives
<1>1. /\ spc = "commit" /\ spc' = "committed" /\ result' = "committed" /\ InHandoff
      /\ UNCHANGED <<pc, sess, path, pipe, hid, child>>
      /\ ToO(IF O.oOpen THEN Request(O, Msg("Commit", hid)) ELSE O)
  BY Zenon DEF Commit, Goto, InHandoff, primitivesUnchanged, primitiveVars
<1>2. /\ hid \in Conn /\ conn \in [Conn -> ConnState] /\ hid \in Id /\ O = conn[hid]
      /\ O \in ConnState
  BY <1>1, SMTT(30) DEF Sound, HandoffInv, TypeOK, SupervisorInv, Id, Conn, O
<1>3. Waiting BY <1>1, ZenonT(30) DEF Sound, StageInv, Driving
<1> DEFINE o == conn[hid].o
           m == Msg("Commit", hid)
<1>4. /\ o \in Proc /\ pc[o] = "loop" /\ sess[o].conn = hid /\ sess[o].sealed
      /\ conn[hid].req = <<>> /\ conn[hid].oOpen
  <2>1. o \in Proc BY <1>1, Zenon DEF Sound, SealedInv, HeldInv
  <2>2. pc[o] = "loop" /\ sess[o].conn = hid /\ sess[o].sealed /\ conn[hid].req = <<>>
    BY <1>3, Zenon DEF Waiting, Held
  <2>3. hid # 0 BY <1>2 DEF Conn
  <2>4. conn[hid].oOpen BY <2>1, <2>2, <2>3, ZenonT(30) DEF Sound, SealedInv, SessionInv
  <2> QED BY <2>1, <2>2, <2>4, Zenon
<1>5. /\ conn'[hid].o = o /\ conn'[hid].req = <<m>>
      /\ \A c \in Conn : c # hid => conn'[c] = conn[c]
  <2>1. conn' = [conn EXCEPT ![hid] = Request(conn[hid], m)] BY <1>1, <1>2, <1>4, ZenonT(30) DEF ToO
  <2>2. Request(conn[hid], m).o = o /\ Request(conn[hid], m).req = <<m>>
    BY <1>2, <1>4, SMTT(30), Z3T(30) DEF Request, ConnState
  <2> QED BY <1>2, <2>1, <2>2, Zenon
<1>6. CommitInv'
  <2>1. \A c \in Conn : Has(conn'[c].req, "Commit") =>
           /\ conn'[c].o \in Proc /\ Len(conn'[c].req) = 1
           /\ pc'[conn'[c].o] = "loop" /\ sess'[conn'[c].o].conn = c /\ sess'[conn'[c].o].sealed
    <3>1. TAKE c \in Conn
    <3>2. CASE c = hid BY <1>1, <1>4, <1>5, <3>2, Zenon
    <3>3. CASE c # hid
      <4>1. conn'[c] = conn[c] BY <1>5, <3>3, Zenon
      <4> QED BY <1>1, <4>1, ZenonT(30) DEF Sound, CommitInv
    <3> QED BY <3>2, <3>3, Zenon
  <2> QED BY <1>1, <2>1, Zenon DEF CommitInv, Has
<1>7. /\ child \in Proc /\ pc[child] \in {"announced", "accept"}
      /\ \A c \in Conn : conn[c].o # child
  BY <1>1, Zenon DEF Sound, HandoffInv, TypeOK, ChildInv, ReadyInv, StageInv, Announced
<1>8. Survivor'
  <2>1. ~Retired(child)'
    <3>1. SUFFICES ASSUME NEW c \in Conn, conn'[c].o = child PROVE FALSE BY <1>1, Zenon DEF Retired
    <3> QED BY <1>2, <1>5, <1>7, <3>1, ZenonT(30)
  <2>2. Lasting(child)' BY <1>1, <1>7, <2>1, Zenon DEF Lasting, Serving, ServePC
  <2> QED BY <1>1, <1>7, <2>2, Zenon DEF Survivor
<1>9. StageInv'
  BY <1>1, <1>7, ZenonT(30) DEF Sound, StageInv, BeforeBegin, BeforeSealRequest, Unwinding, Driving, InHandoff
<1> QED BY <1>6, <1>8, <1>9, ZenonT(30) DEF Survives

\* The kill of N leaves O, which waits if N had begun.
LEMMA KillSurvives ==
    ASSUME Sound, Survivor, Kill
    PROVE  Survives
<1>1. /\ spc \in {"kill_clear", "kill_resume", "kill_return"} /\ InHandoff /\ InHandoff'
      /\ UNCHANGED <<path, hid, child, result>>
      /\ spc' \in {"clear", "resume", "return"} /\ (spc' = "resume" => spc = "kill_resume")
  BY Zenon DEF Kill, Goto, InHandoff
<1>2. /\ child \in Proc /\ result # "committed" /\ child # None
      /\ hid \in Conn /\ conn \in [Conn -> ConnState] /\ pc \in [Proc -> ProcPC]
      /\ sess \in [Proc -> SessionState]
      /\ \A c \in Conn : conn[c].o # child
  BY <1>1 DEF Sound, HandoffInv, TypeOK, SupervisorInv, ChildInv, GuardInv, ReadyInv, Id, Conn
<1>3. /\ pc'[child] = "dead" /\ conn' = conn
      /\ \A q \in Proc : q # child => pc'[q] = pc[q] /\ sess'[q] = sess[q]
  <2>1. CASE Alive(child) /\ Exit(child) BY <2>1, <1>2, Zenon DEF Exit
  <2>2. CASE ~Alive(child) /\ UNCHANGED <<pc, conn, sess>>
    BY <2>2, <1>2, Zenon DEF Alive, Sound, ChildInv, GuardInv
  <2> QED BY <2>1, <2>2, Zenon DEF Kill, KillAndReap
<1>4. CommitInv'
  <2>1. \A c \in Conn : Has(conn'[c].req, "Commit") =>
           /\ conn'[c].o \in Proc /\ Len(conn'[c].req) = 1
           /\ pc'[conn'[c].o] = "loop" /\ sess'[conn'[c].o].conn = c /\ sess'[conn'[c].o].sealed
    BY <1>2, <1>3, SMTT(30), Z3T(30) DEF Sound, CommitInv
  <2>2. ~Has(conn'[hid'].req, "Commit") BY <1>1, <1>2, <1>3, Zenon DEF Sound, CommitInv
  <2> QED BY <2>1, <2>2, Zenon DEF CommitInv, Has
<1>5. Waiting => Waiting'
  BY <1>1, <1>2, <1>3, Zenon DEF Waiting, Held, Sound, SealedInv, HeldInv
<1>6. ~Begun(child)' BY <1>1, <1>3, Zenon DEF Begun
<1>7. StageInv'
  <2>1. spc' \in Driving => Waiting'
    BY <1>1, <1>5, ZenonT(30) DEF Sound, StageInv, Driving
  <2>2. spc' \in Unwinding => result' # "none" BY <1>1, Zenon DEF Sound, StageInv, Unwinding
  <2>3. \A q \in Proc : pc'[q] \in Unannounced => q = child' /\ InHandoff'
    BY <1>1, <1>3, Zenon DEF Sound, StageInv
  <2> QED BY <1>1, <1>2, <1>6, <2>1, <2>2, <2>3, ZenonT(30) DEF StageInv, BeforeBegin, BeforeSealRequest
<1>8. Survivor'
  <2>1. ASSUME NEW q \in Proc, q # child, Lasting(q) PROVE Lasting(q)'
    BY <1>3, <2>1, ZenonT(30) DEF Lasting, Retired
  <2>2. SUFFICES ASSUME path # None PROVE \E q \in Proc : Lasting(q)'
    BY <1>1, Zenon DEF Survivor
  <2>3. PICK q \in Proc : Lasting(q) BY <2>2, Zenon DEF Survivor
  <2>4. CASE q # child BY <2>1, <2>3, <2>4, Zenon
  <2>5. CASE q = child
    <3>1. pc[child] \in {"announced", "accept"}
      BY <1>1, <1>2, <2>3, <2>5, ZenonT(30)
      DEF Sound, ChildInv, ReadyInv, Lasting, Serving, ServePC, Starting, SuccessorPC
    <3>2. Waiting BY <1>1, <1>2, <3>1, ZenonT(30) DEF Sound, StageInv, Begun
    <3>3. conn[hid].o \in Proc /\ Lasting(conn[hid].o) BY <1>1, <3>2, WaitingLasts, Zenon
    <3>4. conn[hid].o # child BY <1>2, Zenon
    <3> QED BY <2>1, <3>3, <3>4, ZenonT(30)
  <2> QED BY <2>4, <2>5, Zenon
<1> QED BY <1>4, <1>7, <1>8, Zenon DEF Survives

\* The process N is new: it has not begun, nor said anything.
LEMMA SpawnSurvives ==
    ASSUME Sound, Survivor, SpawnSuccessor
    PROVE  Survives
<1>1. /\ spc = "spawn" /\ InHandoff /\ InHandoff' /\ child = None
      /\ UNCHANGED <<path, sess, conn, hid>>
      /\ result # "committed" /\ spc' \in {"hello_n", "return"} /\ result' # "committed"
  BY Zenon DEF SpawnSuccessor, FailWith, Goto, InHandoff, Sound, StageInv, ChildInv, GuardInv
<1>2. /\ pc \in [Proc -> ProcPC] /\ pipe \in [Proc -> PipeState]
      /\ \A q \in Proc : pc[q] \notin Unannounced
  BY <1>1, NoneAssumption, ZenonT(30) DEF Sound, HandoffInv, TypeOK, StageInv
<1>3. \A q \in Proc : pc'[q] = pc[q] \/ (pc[q] = "unborn" /\ pc'[q] = "spawned" /\ q = child')
  BY <1>2, ZenonT(30) DEF SpawnSuccessor
<1>4. CommitInv'
  <2>1. \A c \in Conn : Has(conn'[c].req, "Commit") =>
           /\ conn'[c].o \in Proc /\ Len(conn'[c].req) = 1
           /\ pc'[conn'[c].o] = "loop" /\ sess'[conn'[c].o].conn = c /\ sess'[conn'[c].o].sealed
    BY <1>1, <1>3, SMTT(30), Z3T(30) DEF Sound, CommitInv
  <2>2. ~Has(conn'[hid'].req, "Commit") BY <1>1, Zenon DEF Sound, CommitInv
  <2> QED BY <2>1, <2>2 DEF CommitInv, Has
<1>5. Survivor'
  <2>1. ASSUME NEW q \in Proc, Lasting(q) PROVE Lasting(q)'
    BY <1>1, <1>3, <2>1, Zenon DEF Lasting, Retired, Serving, ServePC
  <2> QED BY <1>1, <2>1, Zenon DEF Survivor
<1>6. CASE child' # None /\ spc' = "hello_n"
  <2>1. PICK p \in Proc : /\ pc' = [pc EXCEPT ![p] = "spawned"] /\ child' = p
                          /\ pipe' = [pipe EXCEPT ![p] = [NoPipe EXCEPT !.sOpen = TRUE, !.nOpen = TRUE]]
    BY <1>1, <1>6, Zenon DEF SpawnSuccessor
  <2>2. pc'[p] = "spawned" /\ pipe'[p].toN = <<>> /\ pipe'[p].toS = <<>>
    BY <1>2, <2>1, Zenon DEF NoPipe
  <2>3. ~(Begun(child)') /\ NoReady(pipe[child])'
    BY <2>1, <2>2 DEF Begun, Has, NoReady
  <2>4. \A q \in Proc : pc'[q] \in Unannounced => q = child' /\ InHandoff'
    BY <1>1, <1>2, <2>1, ZenonT(30)
  <2> QED BY <1>1, <1>4, <1>5, <1>6, <2>3, <2>4, Zenon DEF Survives, StageInv, Unwinding, Driving
<1>7. CASE spc' = "return" /\ result' = "error" /\ child' = None /\ UNCHANGED pc
  <2>1. StageInv' BY <1>1, <1>2, <1>7, Zenon DEF StageInv, Driving
  <2> QED BY <1>4, <1>5, <2>1 DEF Survives
<1> QED BY <1>1, <1>6, <1>7, NoneAssumption, ZenonT(30) DEF SpawnSuccessor, FailWith, Goto

\* When perform_handoff returns, its successor has announced Ready or is gone.
LEMMA ReturnSurvives ==
    ASSUME Sound, Survivor, Return
    PROVE  Survives
<1>1. /\ spc = "return" /\ spc' = "idle" /\ InHandoff /\ ~InHandoff'
      /\ UNCHANGED <<pc, sess, path, hid, child, result>>
      /\ ToO(CloseS(O))
  BY Zenon DEF Return, Goto, InHandoff, primitivesUnchanged, primitiveVars
<1>2. hid \in Conn /\ conn \in [Conn -> ConnState]
  BY <1>1 DEF Sound, HandoffInv, TypeOK, SupervisorInv, Id, Conn
<1>3. \/ CloseS(conn[hid]).o = conn[hid].o /\ CloseS(conn[hid]).req = conn[hid].req
      \/ CloseS(conn[hid]).req = <<>>
  BY <1>2, Zenon DEF CloseS, NoConn, ConnState
<1>4. \A c \in Conn : Has(conn'[c].req, "Commit") =>
         conn'[c].req = conn[c].req /\ conn'[c].o = conn[c].o
  BY <1>1, <1>2, <1>3, SMTT(30), Z3T(30) DEF ToO, O, Has
<1>5. CommitInv' /\ Survivor' BY <1>1, <1>4, CommitFrame, Zenon
<1>6. \A q \in Proc : pc[q] \notin Unannounced
  <2>1. SUFFICES ASSUME NEW q \in Proc, pc[q] \in Unannounced PROVE FALSE BY Zenon
  <2>2. q = child /\ child # None BY <2>1, NoneAssumption, Zenon DEF Sound, StageInv
  <2>3. CASE result = "committed"
    BY <1>1, <2>1, <2>2, <2>3, ZenonT(30) DEF Sound, ChildInv, ReadyInv, Announced, Unannounced
  <2>4. CASE result # "committed"
    <3>1. result \in {"aborted", "error"}
      BY <1>1, <2>4, ZenonT(30) DEF Sound, HandoffInv, TypeOK, StageInv, Unwinding
    <3> QED
      BY <1>1, <2>1, <2>2, <3>1, ZenonT(30) DEF Sound, ChildInv, GuardInv, NoStraySuccessor, Unannounced
  <2> QED BY <2>3, <2>4, Zenon
<1>7. StageInv'
  BY <1>1, <1>6, Zenon DEF StageInv, BeforeBegin, BeforeSealRequest, Driving, Unwinding
<1> QED BY <1>5, <1>7, Zenon DEF Survives

\* What S does outside a handoff: a new connection carries no Commit.
LEMMA OutsideSurvives ==
    ASSUME Sound, Survivor, BootStep \/ PerformHandoff \/ Restart
    PROVE  Survives
<1>1. /\ ~InHandoff /\ UNCHANGED <<pc, sess, path>>
      /\ spc' \in {"boot", "probe", "probe_clear", "idle", "hello_o"}
      /\ spc' = "hello_o" => child' = None /\ result' = "none" /\ Connect
      /\ spc' \in {"boot", "probe", "probe_clear"} => spc # "idle" /\ result' = result
      /\ \/ UNCHANGED conn \/ Connect \/ (spc = "probe" /\ ToO(CloseS(O)))
  BY Zenon DEF BootStep, ResumeFromJournal, Probe, ProbeClear, PerformHandoff, Restart, Goto, InHandoff,
     primitivesUnchanged, primitiveVars
<1>2. conn \in [Conn -> ConnState] /\ hid \in Id /\ (spc = "probe" => hid \in Conn)
  BY DEF Sound, HandoffInv, TypeOK, SupervisorInv, Id, Conn
<1>3. /\ \A c \in Conn : Has(conn'[c].req, "Commit") =>
            conn'[c].req = conn[c].req /\ conn'[c].o = conn[c].o
      /\ Connect => ~Has(conn'[hid'].req, "Commit")
  <2>1. CASE UNCHANGED conn /\ ~Connect BY <2>1, Zenon
  <2>2. CASE Connect
    <3>1. /\ hid' = hid + 1 /\ hid' \in Conn /\ conn'[hid'].req = <<>>
          /\ \A c \in Conn : c # hid' => conn'[c] = conn[c]
      BY <1>2, <2>2 DEF Connect, NoConn, Id, Conn
    <3>2. ~Has(conn'[hid'].req, "Commit") BY <3>1 DEF Has
    <3> QED BY <3>1, <3>2, Zenon
  <2>3. CASE spc = "probe" /\ ToO(CloseS(O)) /\ ~Connect
    <3>1. \/ CloseS(conn[hid]).o = conn[hid].o /\ CloseS(conn[hid]).req = conn[hid].req
          \/ CloseS(conn[hid]).req = <<>>
      BY <1>2, <2>3, Zenon DEF CloseS, NoConn, ConnState
    <3> QED BY <1>2, <2>3, <3>1 DEF ToO, O, Has
  <2> QED BY <1>1, <2>1, <2>2, <2>3, Zenon
<1>4. CommitInv' /\ Survivor'
  <2>1. InHandoff' => Connect BY <1>1, Zenon DEF InHandoff
  <2> QED BY <1>1, <1>3, <2>1, CommitFrame, ZenonT(30)
<1>5. \A q \in Proc : pc'[q] \notin Unannounced BY <1>1, Zenon DEF Sound, StageInv
<1>6. result' = "committed" => spc' = "idle"
  BY <1>1, Zenon DEF Sound, ChildInv, GuardInv, InHandoff
<1>7. StageInv'
  BY <1>1, <1>5, <1>6, Zenon
  DEF StageInv, BeforeBegin, BeforeSealRequest, Driving, Unwinding, InHandoff
<1> QED BY <1>4, <1>7, Zenon DEF Survives

\* What S does to N's socketpair adds neither a Begin, unless S sends it, nor a Ready.
LEMMA PipeKept ==
    ASSUME HandoffInv, UNCHANGED <<pc, child>>, NEW m \in Message,
           \/ UNCHANGED pipe \/ ToPipe(N) \/ ToPipe(SendToN(N, m))
           \/ N.toS # <<>> /\ (ToPipe(TakeFromN(N)) \/ ToPipe(SendToN(TakeFromN(N), m)))
    PROVE  child # None =>
              /\ Begun(child)' => Begun(child) \/ m.type = "Begin"
              /\ NoReady(pipe[child]) => NoReady(pipe'[child])
<1>1. child # None => (NoReady(pipe[child]) => NoReady(pipe'[child])) BY SupervisorPipe, Zenon
<1>2. child # None /\ m.type # "Begin" => (Begun(child)' => Begun(child)) BY BeginPipe, Zenon
<1> QED BY <1>1, <1>2, Zenon

\* The other steps of a handoff: S talks to O and to N and writes its journal.
LEMMA TalkSurvives ==
    ASSUME Sound, Survivor, HandoffStep,
           ~Commit, ~Kill, ~SpawnSuccessor, ~Return
    PROVE  Survives
<1>t. /\ conn \in [Conn -> ConnState] /\ HandoffInv /\ ChildInv /\ SealedInv /\ StageInv
      /\ hid \in Id /\ result \in {"none", "committed", "aborted", "error"}
  BY Zenon DEF Sound, HandoffInv, TypeOK
<1>s. SupervisorStep BY Zenon DEF SupervisorStep
<1>h. \A type \in MsgType : Msg(type, hid) \in Message /\ Msg(type, hid).type = type
  BY <1>t, MsgType1, Zenon DEF Msg
<1>c. InHandoff => hid \in Conn /\ O \in ConnState /\ O = conn[hid]
  BY <1>t DEF O, HandoffInv, SupervisorInv, InHandoff, Id, Conn
<1>g. spc \notin {"committed", "clear", "return", "idle"} => result # "committed"
  BY <1>t, Zenon DEF ChildInv, GuardInv
<1>a. ASSUME InHandoff, NEW m \in Message
      PROVE  /\ ToO(Request(O, m)) /\ SealAnswered(conn'[hid]) => SealAnswered(conn[hid])
             /\ O.rsp # <<>> /\ ToO(TakeReply(O)) /\ SealAnswered(conn'[hid]) => SealAnswered(conn[hid])
  <2>1. /\ SealAnswered(Request(O, m)) => SealAnswered(O)
        /\ O.rsp # <<>> /\ SealAnswered(TakeReply(O)) => SealAnswered(O)
    BY ONLY <1>a, <1>c, AnswerKept, Zenon
  <2>2. ASSUME NEW k, ToO(k) PROVE conn'[hid] = k BY <1>a, <1>c, <1>t, <2>2, Zenon DEF ToO
  <2> QED BY <1>a, <1>c, <2>1, <2>2, Zenon
<1> USE DEF Goto, primitivesUnchanged, primitiveVars
<1>f. ASSUME FailWith("error")
      PROVE  spc' \in {"return", "kill_return"} /\ result' = "error"
  BY <1>f, Zenon DEF FailWith
<1>st. ASSUME \/ spc' \in {"return", "kill_return", "kill_clear"}
              \/ spc' = "kill_resume" /\ spc \in Driving,
              result' \in {"error", "aborted"}, result # "committed"
       PROVE  Stages /\ InHandoff'
  <2>1. /\ InHandoff' /\ spc' \notin BeforeBegin /\ (spc' \in Driving => spc \in Driving)
        /\ spc' # "seal" /\ spc' # "commit" /\ spc' \notin {"hello_o", "spawn", "awaiting_ready", "ready"}
    BY <1>st, Zenon DEF BeforeBegin, BeforeSealRequest, Driving, InHandoff
  <2>2. result' # "none" /\ result' # "committed" BY <1>st, Zenon
  <2> QED BY <1>st, <2>1, <2>2, ZenonT(30) DEF Stages
<1>1. CASE HelloO
  <2> DEFINE m == Msg("HelloAck", hid)
  <2>1. /\ spc = "hello_o" /\ InHandoff /\ UNCHANGED <<pc, sess, path, pipe, hid, child>>
        /\ child = None /\ result # "committed"
        /\ \/ ToO(Request(TakeReply(O), m)) /\ spc' = "spawn" /\ result' = result
           \/ UNCHANGED conn /\ FailWith("error")
    BY <1>1, <1>t, <1>g, Zenon DEF HelloO, InHandoff, StageInv
  <2>2. m \in Message /\ m.type # "Commit" BY <1>h, Zenon DEF MsgType
  <2>3. Stages /\ InHandoff'
    <3>1. CASE FailWith("error") BY <1>f, <1>st, <2>1, <3>1, ZenonT(30)
    <3>2. CASE spc' = "spawn" /\ result' = result
      BY <2>1, <3>2, Zenon DEF Stages, BeforeBegin, BeforeSealRequest, Driving, Unwinding, InHandoff
    <3> QED BY <2>1, <3>1, <3>2, ZenonT(30)
  <2> HIDE DEF m
  <2> QED BY <1>s, <2>1, <2>2, <2>3, HandoffSurvival, ZenonT(30)
<1>2. CASE HelloN
  <2> DEFINE m == Msg("HelloAck", hid)
  <2>1. /\ spc = "hello_n" /\ InHandoff /\ UNCHANGED <<pc, sess, path, conn, hid, child>>
        /\ result # "committed"
        /\ \/ /\ N.toS # <<>> /\ ToPipe(SendToN(TakeFromN(N), m))
              /\ spc' = "negotiating" /\ result' = result
           \/ UNCHANGED pipe /\ FailWith("error")
    BY <1>2, <1>g, Zenon DEF HelloN, InHandoff
  <2>2. m \in Message /\ m.type # "Commit" /\ m.type # "Begin" BY <1>h, Zenon DEF MsgType
  <2>3. Stages /\ InHandoff'
    <3>1. CASE FailWith("error") BY <1>f, <1>st, <2>1, <3>1, ZenonT(30)
    <3>2. CASE spc' = "negotiating" /\ result' = result
      BY <2>1, <3>2, Zenon DEF Stages, BeforeBegin, BeforeSealRequest, Driving, Unwinding, InHandoff
    <3> QED BY <2>1, <3>1, <3>2, Zenon
  <2> HIDE DEF m
  <2>4. child # None =>
           /\ Begun(child)' => Begun(child)
           /\ NoReady(pipe[child]) => NoReady(pipe'[child])
    BY <1>t, <2>1, <2>2, PipeKept, ZenonT(30)
  <2> QED BY <1>s, <2>1, <2>2, <2>3, <2>4, HandoffSurvival, ZenonT(30)
<1>m. /\ Msg("Hello", hid) \in Message /\ Msg("Hello", hid).type # "Commit"
      /\ Msg("Hello", hid).type # "Begin"
  BY <1>h, Zenon DEF MsgType
<1>q. ASSUME InHandoff, Stages, InHandoff', UNCHANGED <<pc, sess, path, pipe, hid, child>>,
             UNCHANGED conn \/ ToO(TakeReply(O))
      PROVE  Survives
  <2>1. child # None =>
           /\ Begun(child)' => Begun(child)
           /\ NoReady(pipe[child]) => NoReady(pipe'[child])
    BY <1>t, <1>q, <1>m, PipeKept, ZenonT(30)
  <2> QED BY <1>m, <1>q, <1>s, <2>1, HandoffSurvival, ZenonT(30)
<1>3. CASE \/ JournalNegotiating \/ JournalDraining \/ JournalSealing \/ JournalAwaitingReady
           \/ JournalResuming
  <2>1. /\ UNCHANGED <<pc, sess, path, conn, pipe, hid, child>>
        /\ \/ /\ \/ spc = "negotiating" /\ spc' = "prepare"
                 \/ spc = "draining" /\ spc' = "seal_request"
                 \/ spc = "sealing" /\ spc' = "begin"
                 \/ spc = "awaiting_ready" /\ spc' = "ready"
                 \/ spc = "resuming" /\ spc' = "clear"
              /\ result' = result
           \/ /\ spc \in {"negotiating", "draining", "sealing", "awaiting_ready", "resuming"}
              /\ FailWith("error")
    BY <1>3, Zenon DEF JournalNegotiating, JournalDraining, JournalSealing, JournalAwaitingReady,
       JournalResuming, JournalSet
  <2>2. InHandoff /\ result # "committed" BY <1>g, <2>1, Zenon DEF InHandoff
  <2>3. Stages /\ InHandoff'
    <3>1. CASE FailWith("error") BY <1>f, <1>st, <2>2, <3>1, ZenonT(30)
    <3>2. CASE result' = result /\ ~FailWith("error")
      <4>1. spc = "resuming" => result # "none" BY <1>t, Zenon DEF StageInv, Unwinding
      <4> QED BY <2>1, <2>2, <3>2, <4>1, ZenonT(30)
          DEF Stages, BeforeBegin, BeforeSealRequest, Driving, Unwinding, InHandoff
    <3> QED BY <2>1, <3>1, <3>2, Zenon
  <2> QED BY <1>q, <2>1, <2>2, <2>3, ZenonT(30)
<1>4. CASE PrepareHandoff \/ SealRequest \/ ResumeAfterAbort
  <2>1. PICK type \in {"PrepareHandoff", "SealRequest", "ResumeAfterAbort"} :
          /\ UNCHANGED <<pc, sess, path, pipe, hid, child>>
          /\ \/ /\ ToO(Request(O, Msg(type, hid))) /\ result' = result
                /\ \/ spc = "prepare" /\ spc' = "drained"
                   \/ spc = "seal_request" /\ spc' = "seal"
                   \/ spc = "resume" /\ spc' = "resuming"
             \/ /\ UNCHANGED conn /\ FailWith("error")
                /\ spc \in {"prepare", "seal_request", "resume"}
    BY <1>4, Zenon DEF PrepareHandoff, SealRequest, ResumeAfterAbort, SendToO
  <2>2. InHandoff /\ result # "committed" BY <1>g, <2>1, Zenon DEF InHandoff
  <2>3. CASE UNCHANGED conn /\ FailWith("error")
    BY <1>f, <1>st, <1>q, <2>1, <2>2, <2>3, ZenonT(30)
  <2>4. CASE ToO(Request(O, Msg(type, hid))) /\ ~(UNCHANGED conn /\ FailWith("error"))
    <3> DEFINE m == Msg(type, hid)
    <3>1. m \in Message /\ m.type # "Commit" BY <1>h, Zenon DEF MsgType
    <3>2. child # None => ~Begun(child)
      <4>1. CASE spc \in {"prepare", "seal_request"}
        BY <1>t, <4>1, ZenonT(30) DEF StageInv, BeforeBegin, BeforeSealRequest
      <4>2. CASE spc = "resume"
        <5>1. result \in {"aborted", "error"} BY <1>t, <2>2, <4>2, ZenonT(30) DEF StageInv, Unwinding
        <5>2. child # None => pc[child] = "dead"
          BY <1>t, <4>2, <5>1, ZenonT(30) DEF ChildInv, GuardInv, NoStraySuccessor
        <5> QED BY <5>2, Zenon DEF Begun
      <4> QED BY <2>1, <2>4, <4>1, <4>2, ZenonT(30)
    <3>3. ToO(Request(O, m)) BY <2>4, Zenon
    <3>4. spc' = "seal" => ~SealAnswered(conn'[hid])
      <4>1. spc' = "seal" => spc = "seal_request" BY <2>1, <2>4, ZenonT(30)
      <4>2. spc = "seal_request" => ~SealAnswered(conn[hid])
        BY <1>t, Zenon DEF SealedInv, HeldInv, BeforeSealRequest
      <4> HIDE DEF m
      <4> QED BY <1>a, <2>2, <3>1, <3>3, <4>1, <4>2, ZenonT(30)
    <3>5. spc = "resume" => result # "none" BY <1>t, Zenon DEF StageInv, Unwinding
    <3>6. Stages /\ InHandoff'
      BY <2>1, <2>2, <2>4, <3>4, <3>5, ZenonT(30)
      DEF Stages, BeforeBegin, BeforeSealRequest, Driving, Unwinding, InHandoff
    <3>7. child # None =>
             /\ Begun(child)' => Begun(child)
             /\ NoReady(pipe[child]) => NoReady(pipe'[child])
      BY <1>t, <1>m, <2>1, PipeKept, ZenonT(30)
    <3> HIDE DEF m
    <3> QED BY <1>s, <2>1, <2>2, <3>1, <3>2, <3>3, <3>6, <3>7, HandoffSurvival, ZenonT(30)
  <2> QED BY <2>1, <2>3, <2>4, ZenonT(30)
<1>5. CASE AwaitDrained \/ DrainedDeadline
  <2>1. /\ UNCHANGED <<pc, sess, path, pipe, hid, child>> /\ spc = "drained"
        /\ ToO(TakeReply(O)) \/ UNCHANGED conn
        /\ (spc' \in {"drained", "draining"} /\ result' = result) \/ FailWith("error")
    BY <1>5, Zenon DEF AwaitDrained, DrainedDeadline
  <2>2. InHandoff /\ result # "committed" BY <1>g, <2>1, Zenon DEF InHandoff
  <2>3. Stages /\ InHandoff'
    <3>1. CASE FailWith("error") BY <1>f, <1>st, <2>2, <3>1
    <3>2. CASE spc' \in {"drained", "draining"} /\ result' = result
      BY <2>1, <2>2, <3>2, Zenon
      DEF Stages, BeforeBegin, BeforeSealRequest, Driving, Unwinding, InHandoff
    <3> QED BY <2>1, <3>1, <3>2, ZenonT(30)
  <2> QED BY <1>q, <2>1, <2>2, <2>3, ZenonT(30)
<1>p. ASSUME AbortN, UNCHANGED <<pc, child>>
      PROVE  child # None =>
                /\ Begun(child)' => Begun(child)
                /\ NoReady(pipe[child]) => NoReady(pipe'[child])
  <2> DEFINE m == Msg("Abort", hid)
  <2>1. ToPipe(N) \/ ToPipe(SendToN(N, m)) BY <1>p, Zenon DEF AbortN
  <2>2. m \in Message /\ m.type # "Begin" BY <1>h, Zenon DEF MsgType
  <2> HIDE DEF m
  <2> QED BY <1>t, <1>p, <2>1, <2>2, PipeKept, ZenonT(30)
<1>r. ASSUME UNCHANGED <<pc, sess, path, hid, child>>, AbortN, UNCHANGED conn \/ ToO(TakeReply(O)),
             \/ spc = "seal" /\ spc' = "kill_clear"
             \/ spc \in {"begin", "ready"} /\ spc' = "kill_resume",
             result' \in {"error", "aborted"}
      PROVE  Survives
  <2>1. InHandoff /\ result # "committed" BY <1>g, <1>r, Zenon DEF InHandoff
  <2>2. spc' = "kill_resume" => spc \in Driving BY <1>r, Zenon DEF Driving
  <2>3. Stages /\ InHandoff' BY <1>r, <1>st, <2>1, <2>2, ZenonT(30)
  <2> QED BY <1>m, <1>p, <1>r, <1>s, <2>1, <2>3, HandoffSurvival, ZenonT(30)
<1>6. CASE RecvSealReply \/ SealDeadline \/ SealTimeout \/ SealReadError
  <2>1. /\ UNCHANGED <<pc, sess, path, hid, child>> /\ spc = "seal"
        /\ (O.rsp # <<>> /\ ToO(TakeReply(O))) \/ UNCHANGED conn
        /\ \/ AbortSealPhase("error") \/ AbortSealPhase("aborted")
           \/ UNCHANGED pipe /\ FailWith("error")
           \/ UNCHANGED <<pipe, spc, result>>
           \/ /\ UNCHANGED <<pipe, result>> /\ spc' = "sealing"
              /\ O.rsp # <<>> /\ Head(O.rsp) = Msg("SealComplete", hid)
    BY <1>6, ZenonT(30) DEF RecvSealReply, SealDeadline, SealTimeout, SealReadError
  <2>2. InHandoff /\ result # "committed" BY <1>g, <2>1, Zenon DEF InHandoff
  <2>3. CASE AbortSealPhase("error") \/ AbortSealPhase("aborted")
    BY <1>r, <2>1, <2>3, ZenonT(30) DEF AbortSealPhase
  <2>4. CASE UNCHANGED pipe /\ FailWith("error")
    BY <1>f, <1>st, <1>q, <2>1, <2>2, <2>4, ZenonT(30)
  <2>5. CASE UNCHANGED <<pipe, spc, result>>
    <3>1. SealAnswered(conn'[hid]) => SealAnswered(conn[hid])
      BY <1>a, <1>m, <2>1, <2>2, ZenonT(30)
    <3>2. Stages /\ InHandoff'
      BY <2>1, <2>2, <2>5, <3>1, ZenonT(30)
      DEF Stages, BeforeBegin, BeforeSealRequest, Driving, Unwinding, InHandoff
    <3> QED BY <1>q, <2>1, <2>2, <2>5, <3>2, ZenonT(30)
  <2>6. CASE /\ UNCHANGED <<pipe, result>> /\ spc' = "sealing"
             /\ O.rsp # <<>> /\ Head(O.rsp) = Msg("SealComplete", hid)
    <3>1. O.rsp \in Seq(Message) /\ O = conn[hid] BY <1>c, <2>2, ZenonT(30) DEF ConnState
    <3>2. 1 \in DOMAIN O.rsp /\ Head(O.rsp) = O.rsp[1] BY <2>6, <3>1, SMTT(30), Z3T(30)
    <3>3. SealAnswered(conn[hid]) BY <2>6, <3>1, <3>2, SMTT(30), Z3T(30) DEF SealAnswered, Msg
    <3>4. Stages /\ InHandoff'
      BY <2>1, <2>2, <2>6, <3>3, Zenon
      DEF Stages, BeforeBegin, BeforeSealRequest, Driving, Unwinding, InHandoff
    <3> QED BY <1>q, <2>1, <2>2, <2>6, <3>4, ZenonT(30)
  <2> QED BY <2>1, <2>3, <2>4, <2>5, <2>6, ZenonT(30)
<1>7. CASE Begin \/ AwaitReady \/ ReadyDeadline
  <2>1. /\ UNCHANGED <<pc, sess, path, conn, hid, child>> /\ spc \in {"begin", "ready"}
        /\ \/ AbortReadyPhase
           \/ /\ ToPipe(SendToN(N, Msg("Begin", hid))) /\ UNCHANGED result
              /\ spc = "begin" /\ spc' = "awaiting_ready"
           \/ /\ N.toS # <<>> /\ ToPipe(TakeFromN(N)) /\ UNCHANGED result
              /\ spc = "ready"
              /\ \/ spc' = "commit" /\ Head(N.toS).type = "Ready"
                 \/ spc' = "ready"
    BY <1>7, ZenonT(30) DEF Begin, AwaitReady, ReadyDeadline
  <2>2. InHandoff /\ result # "committed" /\ child # None /\ child \in Proc
    BY <1>g, <1>t, <2>1, ZenonT(30) DEF InHandoff, HandoffInv, SupervisorInv, TypeOK
  <2>3. CASE AbortReadyPhase BY <1>r, <2>1, <2>3, ZenonT(30) DEF AbortReadyPhase
  <2>4. CASE spc' = "awaiting_ready" /\ ToPipe(SendToN(N, Msg("Begin", hid))) /\ UNCHANGED result
             /\ spc = "begin"
    <3> DEFINE m == Msg("Begin", hid)
    <3>1. m \in Message BY <1>h, ZenonT(30) DEF MsgType
    <3>2. ToPipe(SendToN(N, m)) BY <2>4, Zenon
    <3> HIDE DEF m
    <3>3. NoReady(pipe[child]) => NoReady(pipe'[child])
      BY <1>t, <2>1, <2>2, <3>1, <3>2, PipeKept, ZenonT(30)
    <3>4. Stages /\ InHandoff'
      BY <2>1, <2>2, <2>4, ZenonT(30)
      DEF Stages, BeforeBegin, BeforeSealRequest, Driving, Unwinding, InHandoff
    <3> QED BY <1>m, <1>s, <2>1, <2>2, <2>4, <3>3, <3>4, HandoffSurvival, ZenonT(30)
  <2>5. CASE /\ N.toS # <<>> /\ ToPipe(TakeFromN(N)) /\ UNCHANGED result /\ spc = "ready"
             /\ \/ spc' = "commit" /\ Head(N.toS).type = "Ready"
                \/ spc' = "ready"
    <3>1. child # None =>
             /\ Begun(child)' => Begun(child)
             /\ NoReady(pipe[child]) => NoReady(pipe'[child])
      BY <1>t, <1>m, <2>1, <2>5, PipeKept, ZenonT(30)
    <3>2. spc' = "commit" => pc[child] # "dead"
      <4>1. N = pipe[child] /\ N.toS \in Seq(Message)
        BY <1>t, <2>2, ZenonT(30) DEF HandoffInv, TypeOK, PipeState, N
      <4>n. N.toS # <<>> BY <2>5, ZenonT(30)
      <4>2. 1 \in DOMAIN N.toS /\ Head(N.toS) = N.toS[1] BY <4>1, <4>n, SMTT(30), Z3T(30)
      <4>3. spc' = "commit" => ~NoReady(pipe[child]) BY <2>5, <4>1, <4>2, ZenonT(30) DEF NoReady
      <4> QED BY <1>t, <2>2, <2>5, <4>3, ZenonT(30) DEF StageInv
    <3>3. Stages /\ InHandoff'
      BY <2>1, <2>2, <2>5, <3>2, ZenonT(30)
      DEF Stages, BeforeBegin, BeforeSealRequest, Driving, Unwinding, InHandoff
    <3> QED BY <1>m, <1>s, <2>1, <2>2, <3>1, <3>3, HandoffSurvival, ZenonT(30)
  <2> QED BY <2>1, <2>3, <2>4, <2>5, Zenon
<1>8. CASE JournalCommitted \/ JournalClear
  <2>1. /\ UNCHANGED <<pc, sess, path, conn, pipe, hid, child, result>>
        /\ \/ spc = "committed" /\ spc' = "clear"
           \/ spc = "clear" /\ spc' = "return"
    BY <1>8, Zenon DEF JournalCommitted, JournalClear
  <2>2. InHandoff BY <2>1, Zenon DEF InHandoff
  <2>3. /\ result = "committed" => pc[child] # "dead"
        /\ result # "none"
    BY <1>t, <2>1, ZenonT(30) DEF StageInv, Unwinding, ChildInv, GuardInv
  <2>4. Stages /\ InHandoff'
    BY <2>1, <2>3, ZenonT(30) DEF Stages, BeforeBegin, BeforeSealRequest, Driving, Unwinding, InHandoff
  <2> QED BY <1>q, <2>1, <2>2, <2>4, ZenonT(30)
<1> QED BY <1>1, <1>2, <1>3, <1>4, <1>5, <1>6, <1>7, <1>8, ZenonT(30) DEF HandoffStep

\* Every step that counts a fault is one.
LEMMA FaultCounted ==
    ASSUME HandoffInv
    PROVE  /\ \A p \in Proc : PrimitiveStep(p) => Fault(p) \/ UNCHANGED faults
           /\ SupervisorStep => SupervisorCrash \/ UNCHANGED faults
<1>1. ASSUME NEW p \in Proc, PrimitiveStep(p) PROVE Fault(p) \/ UNCHANGED faults
  <2>1. SUFFICES ASSUME ~FatalIo(p),
                        \/ ColdStart(p) \/ BindColdStart(p) \/ ServeStep(p) \/ HeartbeatDuringHook(p)
                        \/ SuccessorStep(p) \/ HeartbeatDuringInit(p)
                 PROVE  UNCHANGED faults
    BY <1>1, FaultSplit, Zenon DEF HandoffInv
  <2> QED BY <2>1, ZenonT(30)
    DEF ColdStart, BindColdStart, ServeStep, HeartbeatDuringHook, Accept,
       RecvHelloAck, NoHelloAck, Disconnected, RecvPrepareHandoff, DrainOk, DrainErr,
       RecvSealRequest, SealOk, SendSealComplete, SealErr, RecvCommit, RecvResume, RecvHeartbeat,
       RecvUnexpected, RecoverLock, GiveUp, AcceptFails, vars, SuccessorStep, HeartbeatDuringInit,
       SendHello, RecvAck, RecvBegin, SupervisorGone, AcquireFlock, InitFails, AnnounceReady,
       BindAfterReady, Fails, successorFrame, othersUnchanged, supervisorVars
<1>2. ASSUME SupervisorStep PROVE SupervisorCrash \/ UNCHANGED faults
  BY <1>2, Zenon
  DEF SupervisorStep, HandoffStep, BootStep, ResumeFromJournal, Probe, ProbeClear, PerformHandoff,
     Restart, HelloO, SpawnSuccessor, HelloN, JournalNegotiating, PrepareHandoff, AwaitDrained,
     DrainedDeadline, JournalDraining, SealRequest, RecvSealReply, SealDeadline, SealTimeout,
     SealReadError, JournalSealing, Begin, JournalAwaitingReady, AwaitReady, ReadyDeadline, Commit,
     JournalCommitted, ResumeAfterAbort, JournalResuming, JournalClear, Kill, Return, JournalSet,
     SendToO, primitivesUnchanged
<1> QED BY <1>1, <1>2, ZenonT(30)

\* SurvivalInv, with the three invariants before it, is inductive: a fault ends its reach.
LEMMA SurvivalStep ==
    ASSUME HandoffInv, ChildInv, SealedInv, SurvivalInv, [Next]_vars
    PROVE  SurvivalInv'
<1>1. CASE UNCHANGED vars
  <2>1. CommitInv => CommitInv' BY <1>1, Zenon DEF vars, CommitInv, Has, InHandoff
  <2>2. Waiting => Waiting' BY <1>1, Zenon DEF vars, Waiting, Held
  <2>3. /\ Begun(child)' => Begun(child)
        /\ NoReady(pipe[child]) => NoReady(pipe[child])'
        /\ SealAnswered(conn[hid])' => SealAnswered(conn[hid])
    BY <1>1, Zenon DEF vars, Begun, Has, NoReady, SealAnswered
  <2>4. StageInv => StageInv' BY <1>1, <2>2, <2>3, Zenon DEF vars, StageInv, InHandoff
  <2>5. ASSUME NEW q \in Proc, Lasting(q) PROVE Lasting(q)'
    BY <1>1, <2>5, Zenon DEF vars, Lasting, Retired, Has
  <2> QED BY <1>1, <2>1, <2>4, <2>5, ZenonT(30) DEF vars, SurvivalInv, NoFault
<1>2. CASE Next /\ ~(UNCHANGED vars)
  <2>1. SUFFICES ASSUME NoFault' PROVE Survives BY Zenon DEF SurvivalInv, Survives, Survivor
  <2>2. faults \in [s: 0..MaxSupCrash, p: 0..MaxProcCrash, io: 0..MaxIoError] BY Zenon DEF HandoffInv, TypeOK
  <2>3. ASSUME NEW p \in Proc, PrimitiveStep(p) PROVE Survives
    <3>1. Fault(p) \/ UNCHANGED faults BY <2>3, FaultCounted, Zenon
    <3>2. NoFault /\ ~Fault(p)
      BY <2>1, <2>2, <3>1, BoundAssumption, SMTT(30) DEF NoFault, Fault, ProcCrash, FatalIo
    <3>3. Sound /\ Survivor BY <3>2, Zenon DEF Sound, Survivor, SurvivalInv
    <3>4. Moves(p) BY <1>2, <2>3, PrimitiveMoves, Zenon
    <3> QED BY <2>3, <3>2, <3>3, <3>4, PrimitiveCommit, PrimitiveStage, PrimitiveSurvivor, ZenonT(30) DEF Survives
  <2>4. CASE SupervisorStep
    <3>1. SupervisorCrash \/ UNCHANGED faults BY <2>4, FaultCounted, Zenon
    <3>2. NoFault /\ ~SupervisorCrash
      BY <2>1, <2>2, <3>1, BoundAssumption DEF NoFault, SupervisorCrash
    <3>3. Sound /\ Survivor BY <3>2 DEF Sound, Survivor, SurvivalInv
    <3> QED BY <2>4, <3>2, <3>3, CommitSurvives, KillSurvives, SpawnSurvives, ReturnSurvives,
               OutsideSurvives, TalkSurvives, Zenon
        DEF SupervisorStep
  <2> QED BY <1>2, <2>3, <2>4, Zenon DEF Next
<1> QED BY <1>1, <1>2, Zenon
=============================================================================
