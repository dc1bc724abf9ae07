---------------------------- MODULE FrameReader -----------------------------
(***************************************************************************)
(* FrameAccumulator::poll_read on a control socket with a receive timeout. *)
(* The bytes of a frame arrive in pieces of any size and a timeout may     *)
(* fall between any two of them.  Lengths are encoded as in the code, to a *)
(* smaller base and width.                                                 *)
(***************************************************************************)
EXTENDS Naturals, Sequences

CONSTANTS
    Message,        \* messages postcard can encode
    Bad,            \* junk a broken peer may write in the place of a frame
    Payload,        \* the postcard encoding of each message
    BadBytes,       \* the bytes of each piece of junk
    Version,        \* the bytes of proto_version
    Base,           \* values of a byte
    LenPrefix,      \* LEN_PREFIX
    MaxFrameBytes,  \* MAX_FRAME_BYTES
    MaxFrames       \* bound: frames written on a connection

VARIABLES
    sent,       \* what the peer wrote on this connection, frame by frame
    starts,     \* auxiliary: where in the stream each of them starts
    stream,     \* the same as bytes
    arrived,    \* how many bytes are in, or have passed, the receive buffer
    taken,      \* how many read(2) has returned
    open,       \* the peer has not closed its end
    buf, want,  \* FrameAccumulator
    got,        \* the messages poll_read has returned
    failed      \* it has returned Err, and the session is over

peerVars == <<sent, starts, stream, open>>
accVars == <<taken, buf, want, got, failed>>
frameVars == <<sent, starts, stream, arrived, taken, open, buf, want, got, failed>>

ASSUME BaseAssumption == Base \in Nat \ {0}

Item == Message \cup Bad

\* What is left of n above its i lowest bytes, for i up to w.
Shifted(n, w) ==
    LET rest[i \in 0..w] == IF i = 0 THEN n ELSE rest[i - 1] \div Base
    IN  rest

LittleEndian(n, w) == [i \in 1..w |-> Shifted(n, w)[i - 1] % Base]

\* From the highest byte, the last, to the lowest.
FromLittleEndian(b) ==
    LET value[i \in 0..Len(b)] ==
            IF i = 0 THEN 0 ELSE value[i - 1] * Base + b[Len(b) + 1 - i]
    IN  value[Len(b)]

Encode(m) == LittleEndian(Len(Version) + Len(Payload[m]), LenPrefix) \o Version \o Payload[m]

Bytes(x) == IF x \in Message THEN Encode(x) ELSE BadBytes[x]

FrameLen(b) == FromLittleEndian(SubSeq(b, 1, LenPrefix))

ValidLen(n) == n >= Len(Version) /\ n <= MaxFrameBytes

\* The messages a complete frame decodes to: one, or none.
Decoded(b) == {m \in Message : Payload[m] = SubSeq(b, LenPrefix + Len(Version) + 1, Len(b))}

\* The prefix has room for the limit (MAX_FRAME_BYTES is a u32); postcard tells messages
\* apart, and encode refuses those over the limit; junk has a bad length or a bad payload.
ASSUME CodecAssumption ==
    /\ LenPrefix \in Nat \ {0}
    /\ MaxFrameBytes \in Nat /\ Shifted(MaxFrameBytes, LenPrefix)[LenPrefix] = 0
    /\ Version \in Seq(Nat) /\ Version # <<>>
    /\ Message \cap Bad = {}
    /\ Payload \in [Message -> Seq(Nat)]
    /\ \A m \in Message :
          /\ Len(Version) + Len(Payload[m]) <= MaxFrameBytes
          /\ \A k \in Message : Payload[k] = Payload[m] => k = m
    /\ BadBytes \in [Bad -> Seq(Nat)]
    /\ \A x \in Bad :
          /\ Len(BadBytes[x]) >= LenPrefix
          /\ ValidLen(FrameLen(BadBytes[x])) =>
                /\ Len(BadBytes[x]) = LenPrefix + FrameLen(BadBytes[x])
                /\ Decoded(BadBytes[x]) = {}

FreshStream ==
    /\ sent = <<>> /\ starts = <<>> /\ stream = <<>>
    /\ arrived = 0 /\ taken = 0 /\ open = TRUE
    /\ buf = <<>> /\ want = LenPrefix
    /\ got = <<>> /\ failed = FALSE
-----------------------------------------------------------------------------
\* write_frame at the other end, once its last send_all has returned.
Send(x) ==
    /\ open
    /\ arrived = Len(stream)
    /\ Len(sent) < MaxFrames
    /\ sent' = Append(sent, x)
    /\ starts' = Append(starts, Len(stream))
    /\ stream' = stream \o Bytes(x)
    /\ UNCHANGED <<arrived, open, accVars>>

\* send_all puts some of it in the receive buffer.
Arrive ==
    /\ open
    /\ \E n \in 1..(Len(stream) - arrived) : arrived' = arrived + n
    /\ UNCHANGED <<peerVars, accVars>>

PeerClose ==
    /\ open
    /\ open' = FALSE
    /\ UNCHANGED <<sent, starts, stream, arrived, accVars>>

\* What read(2) into buf[start..] returns: what is there, up to what is wanted.
Filled ==
    LET room == want - Len(buf)
        n == IF arrived - taken < room THEN arrived - taken ELSE room
    IN  buf \o SubSeq(stream, taken + 1, taken + n)

Reset == buf' = <<>> /\ want' = LenPrefix

CanRead == ~failed /\ arrived > taken

Take == taken' = taken + Len(Filled) - Len(buf)

\* read returns some bytes, and more are wanted.
ReadPart ==
    /\ CanRead
    /\ Len(Filled) < want
    /\ Take
    /\ buf' = Filled
    /\ UNCHANGED <<peerVars, arrived, want, got, failed>>

\* Seeded fault: the length is taken to count its own prefix.
ReadLength_CountsPrefix ==
    /\ CanRead
    /\ Len(Filled) = want
    /\ want = LenPrefix
    /\ Take
    /\ IF ValidLen(FrameLen(Filled))
       THEN buf' = Filled /\ want' = LenPrefix + FrameLen(Filled) - 1 /\ UNCHANGED failed
       ELSE Reset /\ failed' = TRUE
    /\ UNCHANGED <<peerVars, arrived, got>>

\* The length prefix is complete.
ReadLength ==
    /\ CanRead
    /\ Len(Filled) = want
    /\ want = LenPrefix
    /\ Take
    /\ IF ValidLen(FrameLen(Filled))
       THEN buf' = Filled /\ want' = LenPrefix + FrameLen(Filled) /\ UNCHANGED failed
       ELSE Reset /\ failed' = TRUE
    /\ UNCHANGED <<peerVars, arrived, got>>

\* The frame is complete: poll_read returns its message, or the decoder's error.
ReadFrame ==
    /\ CanRead
    /\ Len(Filled) = want
    /\ want # LenPrefix
    /\ Take
    /\ Reset
    /\ IF Decoded(Filled) # {}
       THEN \E m \in Decoded(Filled) : got' = Append(got, m) /\ UNCHANGED failed
       ELSE failed' = TRUE /\ UNCHANGED got
    /\ UNCHANGED <<peerVars, arrived>>

\* Seeded fault: read_exact, which forgets what it has consumed.
ReadTimedOut_ReadExact ==
    /\ ~failed
    /\ arrived = taken
    /\ Reset
    /\ UNCHANGED <<peerVars, arrived, taken, got, failed>>

\* WouldBlock or TimedOut: poll_read returns None and keeps the partial frame.
ReadTimedOut ==
    /\ ~failed
    /\ arrived = taken
    /\ UNCHANGED frameVars

\* UnexpectedEof.
ReadEof ==
    /\ ~failed
    /\ ~open
    /\ arrived = taken
    /\ failed' = TRUE
    /\ UNCHANGED <<peerVars, arrived, taken, buf, want, got>>

\* The next handoff, or the other peer: a new socket with its own accumulator.
Reconnect ==
    /\ sent' = <<>> /\ starts' = <<>> /\ stream' = <<>>
    /\ arrived' = 0 /\ taken' = 0 /\ open' = TRUE
    /\ Reset
    /\ got' = <<>> /\ failed' = FALSE

FrameNext ==
    \/ \E x \in Item : Send(x)
    \/ Arrive \/ PeerClose \/ Reconnect
    \/ ReadPart \/ ReadLength \/ ReadFrame \/ ReadTimedOut \/ ReadEof

FrameSpec == FreshStream /\ [][FrameNext]_frameVars
-----------------------------------------------------------------------------
FS == INSTANCE FrameStream

\* However the bytes are cut and wherever a receive timeout falls, poll_read
\* returns the messages of the peer whole, in order and without loss: no byte of
\* a payload is ever taken for a length prefix.
ImplementsFrameStream == FS!Spec

FrameTypeOK ==
    /\ sent \in Seq(Item) /\ starts \in Seq(Nat) /\ stream \in Seq(Nat)
    /\ arrived \in Nat /\ taken \in Nat /\ open \in BOOLEAN
    /\ buf \in Seq(Nat) /\ want \in Nat /\ got \in Seq(Message) /\ failed \in BOOLEAN

\* The stream is the frames of sent, one after the other.
Layout ==
    /\ Len(starts) = Len(sent)
    /\ taken <= arrived /\ arrived <= Len(stream)
    /\ \A k \in 1..Len(sent) :
          /\ starts[k] + Len(Bytes(sent[k])) =
                IF k < Len(sent) THEN starts[k + 1] ELSE Len(stream)
          /\ starts[k] + Len(Bytes(sent[k])) <= Len(stream)
          /\ \A i \in 1..Len(Bytes(sent[k])) : stream[starts[k] + i] = Bytes(sent[k])[i]

Index == Len(got) + 1           \* the frame being read

\* The accumulator has consumed the frames it returned and the part of the next
\* that it holds, and wants the length prefix of that one or its announced end.
InStep ==
    /\ Index <= Len(sent) + 1
    /\ taken = Len(buf) + IF Index <= Len(sent) THEN starts[Index] ELSE Len(stream)
    /\ Len(buf) < want
    /\ \A i \in 1..Len(buf) : buf[i] = stream[taken - Len(buf) + i]
    /\ IF Len(buf) < LenPrefix
       THEN want = LenPrefix
       ELSE /\ Index <= Len(sent)
            /\ want = Len(Bytes(sent[Index]))
            /\ ValidLen(FrameLen(Bytes(sent[Index])))

\* As long as poll_read has not failed it is in step with the frames of the peer,
\* across every partial read and every timeout.
FrameInv == FrameTypeOK /\ Layout /\ (~failed => InStep)
=============================================================================
