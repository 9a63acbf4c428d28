----------------------------- MODULE StatusCodec -----------------------------
(***************************************************************************)
(* The payload of an FC_VIDEO STATUS_REPORT: ControllerVideoStatus.encode  *)
(* at the Controller and decode at the ground station                      *)
(* (arc/fc_video_status.py).  Bytes are numbers up to MaxByte, which also  *)
(* limits every length; the magic, and the ten bytes of a sender's status  *)
(* (messages.StatusReport, external), count as one byte each.  A text that *)
(* holds the byte MaxByte is not UTF-8.                                    *)
(***************************************************************************)
EXTENDS Naturals, Sequences, SequencesExt

CONSTANTS
  MaxByte,     \* 0xFF
  MaxFlags,    \* FC_VIDEO_STATUS_FLAGS_MASK, the largest value within it
  MaxPayload,  \* protocol.MAX_PAYLOAD_SIZE
  Reports      \* the ControllerVideoStatus values encoded

\* Texts are UTF-8, and the ten bytes of a sender's status, if it has one, count
\* as a byte.
StatusCodecAssumption ==
  /\ {MaxByte, MaxFlags, MaxPayload} \subseteq Nat
  /\ MaxByte >= 1 /\ MaxFlags <= MaxByte
  /\ LET Utf8 == Seq(0 .. MaxByte - 1)
     IN  Reports \subseteq
           [layout : Utf8, desired : Seq(Nat), active : Seq(Nat),
            senders : Seq([addr : Nat, flags : Nat, name : Utf8,
                           status : {<<>>} \cup {<<b>> : b \in 0 .. MaxByte}])]

VARIABLES
  report,   \* what the Controller reports
  sent,     \* its encoding, <<>> when encode raises
  arrived   \* what the decoder is given

codecVars == <<report, sent, arrived>>

Byte == 0 .. MaxByte
Magic == 1
FixedLen == 4   \* SENDER_FIXED_LEN: addr, flags, has_status, status
IsText(s) == MaxByte \notin Range(s)

-----------------------------------------------------------------------------
(* encode.                                                                 *)

Block(s) == <<Len(s)>> \o s

SenderBytes(s) ==
  <<s.addr, s.flags>>
    \o (IF s.status = <<>> THEN <<0, 0>> ELSE <<1>> \o s.status) \o Block(s.name)

Encodable(r) ==
  /\ {Len(r.layout), Len(r.desired), Len(r.active), Len(r.senders)} \subseteq Byte
  /\ Range(r.desired) \cup Range(r.active) \subseteq Byte
  /\ \A s \in Range(r.senders) : s.addr \in Byte /\ s.flags <= MaxFlags /\ Len(s.name) \in Byte

EncodeUnbounded(r) ==
  LET out == <<Magic>> \o Block(r.layout) \o Block(r.desired) \o Block(r.active)
               \o <<Len(r.senders)>>
               \o FlattenSeq([i \in DOMAIN r.senders |-> SenderBytes(r.senders[i])])
  IN  IF Len(out) <= MaxPayload THEN out ELSE <<>>
Encode(r) ==
  LET out == <<Magic>> \o Block(r.layout) \o Block(r.desired) \o Block(r.active)
               \o <<Len(r.senders)>>
               \o FlattenSeq([i \in DOMAIN r.senders |-> SenderBytes(r.senders[i])])
  IN  IF Encodable(r) /\ Len(out) <= MaxPayload THEN out ELSE <<>>

-----------------------------------------------------------------------------
(* decode: ok, the bytes from pos on, and what has been taken.             *)

Failed == [ok |-> FALSE]

\* _take_u8 with the bytes that it counts: _take_sources, layout and names.
TakeBlock(s, isText) ==
  IF ~s.ok \/ s.rest = <<>> \/ Len(s.rest) <= Head(s.rest) THEN Failed
  ELSE LET end == 1 + Head(s.rest)
           block == SubSeq(s.rest, 2, end)
       IN  IF isText /\ ~IsText(block) THEN Failed
           ELSE [ok |-> TRUE, rest |-> SubSeq(s.rest, end + 1, Len(s.rest)),
                 got |-> Append(s.got, block)]

TakeSender(s) ==
  IF ~s.ok \/ Len(s.rest) < FixedLen THEN Failed
  ELSE LET name == TakeBlock([ok |-> TRUE, got |-> <<>>,
                              rest |-> SubSeq(s.rest, FixedLen + 1, Len(s.rest))], TRUE)
       IN  IF ~name.ok \/ s.rest[2] > MaxFlags \/ s.rest[3] \notin {0, 1} THEN Failed
           ELSE [ok |-> TRUE, rest |-> name.rest,
                 got |-> Append(s.got,
                           [addr |-> s.rest[1], flags |-> s.rest[2],
                            status |-> IF s.rest[3] = 1 THEN <<s.rest[4]>> ELSE <<>>,
                            name |-> name.got[1]])]

TakeSenders(s, count) ==
  LET take[n \in 0 .. count] == IF n = 0 THEN s ELSE TakeSender(take[n - 1])
  IN  take[count]

\* The three lists, a count and so many senders.
DecodeFront(p) ==
  IF p = <<>> \/ Head(p) # Magic THEN Failed
  ELSE LET start == [ok |-> TRUE, rest |-> Tail(p), got |-> <<>>]
           lists == TakeBlock(TakeBlock(TakeBlock(start, TRUE), FALSE), FALSE)
       IN  IF ~lists.ok \/ lists.rest = <<>> THEN Failed
           ELSE LET all == TakeSenders([ok |-> TRUE, rest |-> Tail(lists.rest), got |-> <<>>],
                                       Head(lists.rest))
                IN  IF ~all.ok THEN Failed
                    ELSE [ok |-> TRUE, rest |-> all.rest,
                          report |-> [layout |-> lists.got[1], desired |-> lists.got[2],
                                      active |-> lists.got[3], senders |-> all.got]]

DecodeLax(p) == DecodeFront(p)
Decode(p) ==
  LET d == DecodeFront(p) IN IF d.ok /\ d.rest # <<>> THEN Failed ELSE d

-----------------------------------------------------------------------------

Init == report \in Reports /\ sent = <<>> /\ arrived = <<>>

Report ==
  /\ sent = <<>> /\ sent' = Encode(report)
  /\ sent' # <<>>
  /\ arrived' = sent'
  /\ UNCHANGED report

\* What a decoder may be given instead: a payload cut short, one with more
\* behind it, or one of whatever else a peer sends.
Cut ==
  /\ arrived # <<>> /\ arrived = sent
  /\ \E n \in 1 .. Len(sent) - 1 : arrived' = SubSeq(sent, 1, n)
  /\ UNCHANGED <<report, sent>>
Extend ==
  /\ arrived # <<>> /\ arrived = sent
  /\ \E b \in Byte : arrived' = Append(sent, b)
  /\ UNCHANGED <<report, sent>>
Alter ==
  /\ arrived # <<>> /\ arrived = sent
  /\ \E i \in DOMAIN sent, b \in Byte : arrived' = [sent EXCEPT ![i] = b]
  /\ UNCHANGED <<report, sent>>

Next == Report \/ Cut \/ Extend \/ Alter

CodecSpec == Init /\ [][Next]_codecVars

-----------------------------------------------------------------------------
(* Properties.                                                             *)

\* A report that is encoded at all is decoded to itself.
RoundTrip ==
  arrived # <<>> /\ arrived = sent => Decode(arrived).ok /\ Decode(arrived).report = report

\* No payload is taken for another: what is cut short or has more behind it is
\* refused, and what is decoded is, but for the status of a sender that has
\* none, the encoding of what was read from it.
Unambiguous ==
  arrived # sent /\ Decode(arrived).ok =>
    LET again == Encode(Decode(arrived).report)
    IN  /\ Len(arrived) = Len(sent) /\ Len(again) = Len(arrived)
        /\ \A i \in DOMAIN again :
             again[i] # arrived[i] => again[i] = 0 /\ again[i - 1] = 0

\* The ground station reads what the Controller wrote or nothing.
CodecExact == RoundTrip /\ Unambiguous

\* Every report the Controller can make is sent.  It does not hold: ten senders
\* with the names of eleven bytes that they are given by default do not fit.
EveryReportFits == Encodable(report) => Encode(report) # <<>>

=============================================================================
