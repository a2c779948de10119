------------------------------- MODULE Signature -------------------------------
(***************************************************************************)
(* The signature header of a webhook and its verification.  A header is    *)
(* the sequence of its comma-separated parts; a signature is what it was   *)
(* computed from, since nobody finds two inputs with the same HMAC.  Times *)
(* are Unix seconds.                                                       *)
(***************************************************************************)
EXTENDS Integers, Sequences

\* Parts: t=<seconds>, v1=<signature>, any other key, and a part that has no
\* "=" or a t that is no number.
Timestamp(t) == [key |-> "t", value |-> t]
SignedBy(signature) == [key |-> "v1", value |-> signature]
OtherPart == [key |-> "v0", value |-> 0]
Garbled == [key |-> "garbled", value |-> 0]

ComputeSignature(secret, timestamp, rawBody) ==
    [secret |-> secret, timestamp |-> timestamp, rawBody |-> rawBody]

BuildSignatureHeader(secret, rawBody, timestamp) ==
    <<Timestamp(timestamp), SignedBy(ComputeSignature(secret, timestamp, rawBody))>>

ValuesOf(header, key) ==
    {header[k].value : k \in {j \in DOMAIN header : header[j].key = key}}

\* parseSignatureHeader returns null.
IsMalformed(header) ==
    \/ \E k \in DOMAIN header : header[k].key = "garbled"
    \/ ValuesOf(header, "t") = {}
    \/ ValuesOf(header, "v1") = {}

\* The last t counts.
ParsedTimestamp(header) ==
    LET last == CHOOSE k \in DOMAIN header :
                    /\ header[k].key = "t"
                    /\ \A j \in DOMAIN header : header[j].key = "t" => j <= k
    IN  header[last].value

Distance(a, b) == IF a < b THEN b - a ELSE a - b

\* Faulty variant: only a timestamp that is too old is refused.
TooOld(now, timestamp, tolerance) == now - timestamp > tolerance

OutOfTolerance(now, timestamp, tolerance) == Distance(now, timestamp) > tolerance

\* verifySignatureHeader: "valid" or the reason of the refusal.
VerifySignatureHeader(header, rawBody, secret, tolerance, now) ==
    IF IsMalformed(header) THEN "malformed_header"
    ELSE IF OutOfTolerance(now, ParsedTimestamp(header), tolerance) THEN "timestamp_out_of_tolerance"
    ELSE IF ComputeSignature(secret, ParsedTimestamp(header), rawBody) \in ValuesOf(header, "v1")
         THEN "valid"
         ELSE "signature_mismatch"
=============================================================================
