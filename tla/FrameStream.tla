---------------------------- MODULE FrameStream -----------------------------
(***************************************************************************)
(* What a reader of control frames is promised, whatever the socket does   *)
(* to the bytes: the messages of a connection come out once each, whole    *)
(* and in the order they were written.                                     *)
(***************************************************************************)
EXTENDS Naturals, Sequences

CONSTANTS Message, Bad      \* what a peer writes: messages, or junk

VARIABLES
    sent,       \* what the peer has written on this connection
    got         \* the messages poll_read has returned

Init == sent = <<>> /\ got = <<>>

\* write_frame.
Send ==
    /\ \E x \in Message \cup Bad : sent' = Append(sent, x)
    /\ UNCHANGED got

\* poll_read returns the next message; nothing passes over junk.
Receive ==
    /\ Len(got) < Len(sent)
    /\ sent[Len(got) + 1] \in Message
    /\ got' = Append(got, sent[Len(got) + 1])
    /\ UNCHANGED sent

\* The next connection.
Reconnect == sent' = <<>> /\ got' = <<>>

Next == Send \/ Receive \/ Reconnect

Spec == Init /\ [][Next]_<<sent, got>>
=============================================================================
