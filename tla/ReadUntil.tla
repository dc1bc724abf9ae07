----------------------------- MODULE ReadUntil ------------------------------
(***************************************************************************)
(* The supervisor's three long waits, for Drained, SealComplete and Ready: *)
(* read_until and the seal loop, on top of FrameReader, with a clock.  The *)
(* clock moves only while the supervisor is blocked in read(2): it wakes   *)
(* when its receive timeout expires and the work between two reads takes   *)
(* no time.  The peers send whatever they like whenever they like.         *)
(***************************************************************************)
EXTENDS FrameReader

CONSTANTS
    Heartbeat,      \* Heartbeat and SealProgress
    Reply,          \* the messages the wait is for
    Liveness,       \* LIVENESS_TIMEOUT
    MinRead,        \* MIN_READ_TIMEOUT
    Slack,          \* WIRE_SLACK
    Grace,          \* SpawnSpec.drain_grace
    Total,          \* SpawnSpec.deadline
    MaxHello        \* bound: time the hello exchanges and the spawn have taken

ASSUME TimeAssumption ==
    /\ Heartbeat \in Message /\ Reply \in Message
    /\ {Liveness, MinRead, Slack, Grace, Total, MaxHello} \subseteq Nat
    /\ 0 < MinRead /\ MinRead <= Liveness

VARIABLES
    now,        \* Instant::now(), since started_instant
    phase,      \* the message awaited
    deadline,   \* of this wait
    rpc,        \* at the top of the loop, in read(2), or the wait's end
    recv,       \* the receive timeout armed on the socket
    since,      \* when the current read(2) began
    heard,      \* auxiliary: when bytes of the peer last came in
    straddled   \* auxiliary: a read(2) begun inside a frame has waited

waitVars == <<phase, deadline, rpc, recv>>
timeVars == <<now, since, heard, straddled>>
vars == <<frameVars, waitVars, timeVars>>

Lesser(a, b) == IF a < b THEN a ELSE b
Greater(a, b) == IF a < b THEN b ELSE a

TypeOK ==
    /\ phase \in {"Drained", "SealComplete", "Ready"}
    /\ rpc \in {"arm", "read", "done", "timeout", "unexpected", "error"}
    /\ {now, deadline, recv, since, heard} \subseteq Nat
    /\ straddled \in BOOLEAN

\* Seeded fault: the deadline of Ready counts from now.
ReadyDeadline_FullBudget == now + Total + Slack

\* remaining_until(total_deadline_at) + WIRE_SLACK, from now.
ReadyDeadline ==
    now + (IF Total > now THEN Greater(Total - now, MinRead) ELSE MinRead) + Slack

DrainDeadline(t) == t + Greater(Grace + Slack, MinRead)

Init ==
    /\ FreshStream
    /\ now \in 0..MaxHello
    /\ phase = "Drained" /\ deadline = DrainDeadline(now)
    /\ rpc = "arm" /\ recv = 0 /\ since = now
    /\ heard = now /\ straddled = FALSE
-----------------------------------------------------------------------------
Waiting == rpc \in {"arm", "read"}

\* The peer, as long as it is waited for.
PeerSends == Waiting /\ (\E x \in Item : Send(x)) /\ UNCHANGED <<waitVars, timeVars>>
PeerCloses == Waiting /\ PeerClose /\ UNCHANGED <<waitVars, timeVars>>
BytesArrive ==
    /\ Waiting
    /\ Arrive
    /\ heard' = now
    /\ UNCHANGED <<waitVars, now, since, straddled>>

\* The clock, while read(2) has nothing to return.
Tick ==
    /\ rpc = "read"
    /\ open /\ arrived = taken
    /\ now < since + recv
    /\ now' = now + 1
    /\ straddled' = (straddled \/ buf # <<>>)
    /\ UNCHANGED <<frameVars, waitVars, since, heard>>

\* The top of the loop: the budget is spent.
Expire ==
    /\ rpc = "arm"
    /\ now >= deadline
    /\ rpc' = "timeout"
    /\ UNCHANGED <<frameVars, phase, deadline, recv, timeVars>>

\* Seeded fault: the receive timeout is not capped by what is left of the budget.
RecvTimeout_NotCapped == Greater(Liveness, MinRead)

RecvTimeout == Greater(Lesser(Liveness, deadline - now), MinRead)

\* arm_recv_timeout, and into poll_read.
Arm ==
    /\ rpc = "arm"
    /\ now < deadline
    /\ rpc' = "read" /\ recv' = RecvTimeout /\ since' = now
    /\ UNCHANGED <<frameVars, phase, deadline, now, heard, straddled>>

\* read(2) returns bytes, the frame is not complete, and the next read(2) has the
\* whole receive timeout again.
ReadsOn ==
    /\ rpc = "read"
    /\ ReadPart \/ ReadLength
    /\ IF failed' THEN rpc' = "error" ELSE UNCHANGED rpc
    /\ since' = now
    /\ UNCHANGED <<phase, deadline, recv, now, heard, straddled>>

Last(s) == s[Len(s)]

\* A message the loop passes over, one nobody awaits, or one that does not decode.
ReadsOther ==
    /\ rpc = "read"
    /\ ReadFrame
    /\ rpc' = IF failed' THEN "error"
              ELSE IF Last(got') = Heartbeat THEN "arm" ELSE "unexpected"
    /\ ~failed' => Last(got') # Reply
    /\ UNCHANGED <<phase, deadline, recv, timeVars>>

\* Drained: the seal is requested, and awaited on the same stream.
ReadsDrained ==
    /\ rpc = "read" /\ phase = "Drained"
    /\ ReadFrame
    /\ ~failed' /\ Last(got') = Reply
    /\ phase' = "SealComplete" /\ deadline' = Total + Slack
    /\ rpc' = "arm"
    /\ UNCHANGED <<recv, timeVars>>

\* SealComplete: Begin is sent, and Ready awaited on the successor's stream.
ReadsSealComplete ==
    /\ rpc = "read" /\ phase = "SealComplete"
    /\ CanRead /\ Len(Filled) = want /\ want # LenPrefix /\ Decoded(Filled) = {Reply}
    /\ Reconnect
    /\ phase' = "Ready" /\ deadline' = ReadyDeadline
    /\ rpc' = "arm"
    /\ heard' = now
    /\ UNCHANGED <<recv, now, since, straddled>>

\* Ready, or SealFailed: the wait is over.
ReadsLast ==
    /\ rpc = "read" /\ phase # "Drained"
    /\ ReadFrame
    /\ ~failed' /\ Last(got') = Reply
    /\ rpc' = "done"
    /\ UNCHANGED <<phase, deadline, recv, timeVars>>

\* Seeded fault: silence is not told from a slow frame.
TimesOut_DropsPartial ==
    /\ rpc = "read"
    /\ now >= since + recv
    /\ ReadTimedOut
    /\ rpc' = "timeout"
    /\ UNCHANGED <<phase, deadline, recv, timeVars>>

\* poll_read returns None: the peer is dead, unless it is in the middle of a frame.
TimesOut ==
    /\ rpc = "read"
    /\ now >= since + recv
    /\ ReadTimedOut
    /\ rpc' = IF buf # <<>> THEN "arm" ELSE "timeout"
    /\ UNCHANGED <<phase, deadline, recv, timeVars>>

Fails ==
    /\ rpc = "read"
    /\ ReadEof
    /\ rpc' = "error"
    /\ UNCHANGED <<phase, deadline, recv, timeVars>>

\* perform_handoff has returned; its caller starts the next handoff.
NextHandoff ==
    /\ ~Waiting
    /\ Reconnect
    /\ now' \in 0..MaxHello
    /\ phase' = "Drained" /\ deadline' = DrainDeadline(now')
    /\ rpc' = "arm" /\ recv' = 0 /\ since' = now'
    /\ heard' = now' /\ straddled' = FALSE

Next ==
    \/ PeerSends \/ PeerCloses \/ BytesArrive \/ Tick
    \/ Expire \/ Arm \/ ReadsOn \/ ReadsOther \/ ReadsDrained \/ ReadsSealComplete
    \/ ReadsLast \/ TimesOut \/ Fails \/ NextHandoff

Spec == Init /\ [][Next]_vars
-----------------------------------------------------------------------------
Cap == Greater(DrainDeadline(MaxHello), Total + 2 * (Slack + MinRead))

\* read_until and the seal loop give up before their deadline only on a peer that
\* has been silent for LIVENESS_TIMEOUT, between two frames and with nothing left
\* unread: a peer that is slow, or in the middle of a frame, is not declared dead.
OnlySilenceIsDeath ==
    rpc = "timeout" /\ now < deadline =>
        now - heard >= Liveness /\ buf = <<>> /\ arrived = taken

\* Whatever the peer sends, a wait goes on past its deadline by less than one
\* minimal read, and by one receive timeout more for each byte of the frame it is
\* in the middle of: poll_read does not look at the deadline between two read(2).
WaitEndsAtDeadline ==
    rpc = "read" => now < deadline + MinRead + Len(buf) * Liveness

\* Heartbeats cannot stretch a handoff: as long as no read(2) waits in the middle
\* of a frame, the three waits together end within the drain's own budget or, past
\* the total deadline, the slacks and minimal reads of both the seal and Ready.
HandoffWithinBudget ==
    rpc = "read" /\ ~straddled =>
        now < Cap + MinRead

\* The deadline of each wait, and what a wait in progress knows: when its read(2)
\* began, why it will end, and what has come in since.
Deadlines ==
    /\ phase = "Drained" => deadline <= DrainDeadline(MaxHello)
    /\ phase = "SealComplete" => deadline = Total + Slack
    /\ phase = "Ready" /\ ~straddled => deadline <= Total + 2 * (Slack + MinRead)
Reading ==
    rpc = "read" =>
        /\ since <= now /\ now <= since + recv
        /\ MinRead <= recv /\ recv <= Liveness
        /\ since + recv < deadline + MinRead + Len(buf) * Liveness
        /\ buf = <<>> => recv = Liveness \/ since + recv >= deadline
        /\ arrived = taken => heard <= since
        /\ buf # <<>> /\ ~straddled => since = now /\ now < deadline + MinRead
Arming == rpc = "arm" /\ ~straddled => buf = <<>>

\* The waits of the supervisor keep the time facts above from one read(2), one
\* frame and one phase to the next, and stay in step with the frames.
WaitInv ==
    /\ FrameInv /\ TypeOK
    /\ heard <= now
    /\ Waiting => ~failed
    /\ Deadlines /\ Reading /\ Arming
    /\ OnlySilenceIsDeath
=============================================================================
