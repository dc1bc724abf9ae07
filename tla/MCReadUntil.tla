---------------------------- MODULE MCReadUntil -----------------------------
(***************************************************************************)
(* ReadUntil with frames of up to four bytes: two of length, to base 3,    *)
(* one of version and one of payload.  The version and payload bytes are   *)
(* such that a reader out of step takes them for a length.                 *)
(***************************************************************************)
EXTENDS ReadUntil, TLC

MCMessage == {"Heartbeat", "Reply", "Other"}
MCPayload == "Heartbeat" :> <<>> @@ "Reply" :> <<0>> @@ "Other" :> <<1>>
MCVersion == <<1>>

\* A length above the limit, and a payload that does not decode.
MCBad == {"too_large", "unknown"}
MCBadBytes == "too_large" :> <<0, 1>> @@ "unknown" :> <<2, 0, 1, 2>>
=============================================================================
