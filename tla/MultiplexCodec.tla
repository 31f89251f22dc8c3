--------------------------- MODULE MultiplexCodec ---------------------------
(***************************************************************************)
(* The byte stream below module Transport: frames are length-delimited,    *)
(* and the manager's decoder has to find them in what the serial port      *)
(* delivers, in chunks of any size, between firmware output, "^@" pairs    *)
(* and the rest of a frame cut off by a reboot.                            *)
(*                                                                         *)
(* The sizes, the signature and the encoding are those of the code; bytes  *)
(* are numbers in 0..255.  One Decode is a whole call of decode_inner.     *)
(* The reset of the flag inside that call is the subject of Transport.     *)
(***************************************************************************)
EXTENDS Integers, Sequences, FiniteSetsExt

CONSTANTS
  Plans,          \* sequences of boots of the guest, each with the payloads
                  \* it sends, what the firmware may write before the runner
                  \* starts, and a bound on the frames after the handshake
  ResetMidFrame   \* TRUE: the reset may find a frame half received

VARIABLES
  wire,       \* bytes on their way to the manager
  sent,       \* history: frames sent, over all boots
  plan,       \* the boots still to come
  guest,      \* "up", about to shut down ("doomed") or "off"
  buf,        \* read buffer of the framed stream
  state,      \* DecodeState of the length-delimited codec
  connected,  \* has_connected
  readable,   \* the framed stream has not seen the decoder ask for more
  got,        \* frames decoded since the last reset
  failed      \* the decoder has returned an error: forward_messages ends

vars == <<wire, sent, plan, guest, buf, state, connected, readable, got, failed>>

FRAME_TYPE_SIZE == 1
MULTIPLEX_LEN_DELIMITED_HEADER_SIZE == 4
MULLVAD_SIGNATURE == <<77, 85, 76, 76, 86, 52, 68, 59>>
MaxFrameLength == 8 * 1024 * 1024
Caret == 94
ControlPair == <<Caret, 64>>

Handshake == [type |-> 0, data |-> <<>>]
TestRunner(d) == [type |-> 1, data |-> d]
DaemonRpc(d) == [type |-> 2, data |-> d]
FrameOf(boot) == {Handshake} \cup {TestRunner(d) : d \in boot.payloads}
                             \cup {DaemonRpc(d) : d \in boot.payloads}

Head4 == -1   \* DecodeState::Head; n >= 0 stands for DecodeState::Data(n)

----------------------------------------------------------------------------
(* encode and encode_frame: length of type and payload, type, payload. *)
EncodeFrame(f) ==
  LET data == IF f = Handshake THEN MULLVAD_SIGNATURE ELSE f.data
      n == FRAME_TYPE_SIZE + Len(data)
  IN  <<0, n \div 65536, (n \div 256) % 256, n % 256, f.type>> \o data

(* What a guest writes: each frame, possibly after a control pair. *)
Writes(fs, pairs) ==
  LET W[i \in 0..Len(fs)] ==
        IF i = 0 THEN <<>>
        ELSE W[i - 1] \o (IF i \in pairs THEN ControlPair ELSE <<>>) \o EncodeFrame(fs[i])
  IN  W[Len(fs)]

(* The first loop of skip_noise: two bytes go while a caret comes first. *)
CaretFirst(b) == Len(b) >= 2 /\ b[1] = Caret
Rest(b, n) == SubSeq(b, n + 1, Len(b))

SkipAnyCaret(b) == SelectSeq(b, LAMBDA x : x # Caret)
SkipControl(b) ==
  LET n == Min({k \in 0..Len(b) \div 2 : ~CaretFirst(Rest(b, 2 * k))})
  IN  Rest(b, 2 * n)

(* Offsets of the signature, and the bytes skipped to the first of them. *)
Windows(b) ==
  {i \in 0..Len(b) - Len(MULLVAD_SIGNATURE) :
     SubSeq(b, i + 1, i + Len(MULLVAD_SIGNATURE)) = MULLVAD_SIGNATURE}

SaturatingSub(a, n) == IF a < n THEN 0 ELSE a - n
SkipLength(b) ==
  SaturatingSub(SaturatingSub(Min(Windows(b)), FRAME_TYPE_SIZE),
                MULTIPLEX_LEN_DELIMITED_HEADER_SIZE)

(* skip_noise: the remaining buffer and the flag. *)
SkipNoise(b, c) ==
  LET b1 == SkipControl(b)
  IN  IF ~c /\ Len(b1) >= 2 /\ Windows(b1) # {}
        THEN [buf |-> Rest(b1, SkipLength(b1)), connected |-> TRUE]
        ELSE [buf |-> b1, connected |-> c]

(* LengthDelimitedCodec::decode, external: the header is consumed as soon   *)
(* as it is there, the frame when it is complete.                           *)
TooLong(b) == b[1] > 0 \/ b[2] * 65536 + b[3] * 256 + b[4] > MaxFrameLength
FrameLength(b) == b[2] * 65536 + b[3] * 256 + b[4]

LengthDelimited(b, st) ==
  LET n  == IF st = Head4 THEN FrameLength(b) ELSE st
      b1 == IF st = Head4 THEN Rest(b, MULTIPLEX_LEN_DELIMITED_HEADER_SIZE) ELSE b
  IN  CASE st = Head4 /\ Len(b) < MULTIPLEX_LEN_DELIMITED_HEADER_SIZE ->
             [res |-> "none", buf |-> b, state |-> st, frame |-> <<>>]
        [] st = Head4 /\ Len(b) >= MULTIPLEX_LEN_DELIMITED_HEADER_SIZE /\ TooLong(b) ->
             [res |-> "error", buf |-> b, state |-> st, frame |-> <<>>]
        [] OTHER ->
             IF Len(b1) < n
               THEN [res |-> "none", buf |-> b1, state |-> n, frame |-> <<>>]
               ELSE [res |-> "frame", buf |-> Rest(b1, n), state |-> Head4,
                     frame |-> SubSeq(b1, 1, n)]

(* decode_frame, for a frame that has a valid type. *)
ValidFrame(d) == Len(d) >= FRAME_TYPE_SIZE /\ d[1] \in {0, 1, 2}
DecodeKeepType(d) == [type |-> d[1], data |-> d]
DecodeFrame(d) ==
  IF d[1] = 0 THEN Handshake ELSE [type |-> d[1], data |-> Rest(d, FRAME_TYPE_SIZE)]

----------------------------------------------------------------------------
Init ==
  /\ wire = <<>> /\ sent = <<>> /\ plan \in Plans /\ guest = "off"
  /\ buf = <<>> /\ state = Head4 /\ connected = FALSE /\ readable = FALSE
  /\ got = <<>> /\ failed = FALSE

(* The firmware writes, the runner sends its handshake and then frames.     *)
(* How much of it has been written when the manager reads is left to Read.  *)
Boot(g, fs, pairs) ==
  /\ guest = "off"
  /\ plan' = Tail(plan)
  /\ guest' = "up"
  /\ sent' = sent \o <<Handshake>> \o fs
  /\ wire' = wire \o g \o Writes(<<Handshake>> \o fs, pairs)
  /\ UNCHANGED <<buf, state, connected, readable, got, failed>>

(* The guest goes down: its last k bytes are never transmitted.  A control  *)
(* pair, whose origin is unknown, is taken to be written in one piece.      *)
SplitsPair(k) ==
  LET stream == buf \o wire
      kept == Len(stream) - k
  IN  kept > 0 /\ k > 0 /\ SubSeq(stream, kept, kept + 1) = ControlPair

PowerOff(k) ==
  /\ guest = "doomed"
  /\ ~SplitsPair(k)
  /\ ~connected
  /\ guest' = "off"
  /\ wire' = SubSeq(wire, 1, Len(wire) - k)
  /\ UNCHANGED <<sent, plan, buf, state, connected, readable, got, failed>>

(* reset_connected_state, once the answer to a reboot request was decoded.  *)
(* No handshake is under way then (TransportProofs, FreshLink).             *)
Forget == connected' = FALSE

Reset ==
  /\ guest = "up"
  /\ plan # <<>>
  /\ got # <<>>
  /\ Windows(buf \o wire) = {}
  /\ ResetMidFrame \/ state = Head4
  /\ Forget
  /\ got' = <<>>
  /\ guest' = "doomed"
  /\ UNCHANGED <<wire, sent, plan, buf, state, readable, failed>>

(* External: the framed stream reads when the decoder has asked for more... *)
Read(n) ==
  /\ ~readable /\ ~failed
  /\ buf' = buf \o SubSeq(wire, 1, n)
  /\ wire' = Rest(wire, n)
  /\ readable' = TRUE
  /\ UNCHANGED <<sent, plan, guest, state, connected, got, failed>>

(* ...and calls decode until it does: decode_inner. *)
Decode ==
  /\ readable /\ ~failed
  /\ LET s == SkipNoise(buf, connected)
         d == LengthDelimited(s.buf, state)
         ok == d.res = "frame" /\ ValidFrame(d.frame)
     IN  IF ~s.connected
           THEN /\ buf' = s.buf
                /\ readable' = FALSE
                /\ UNCHANGED <<state, connected, got, failed>>
           ELSE /\ connected' = TRUE
                /\ buf' = d.buf
                /\ state' = d.state
                /\ readable' = (d.res = "frame")
                /\ got' = IF ok THEN Append(got, DecodeFrame(d.frame)) ELSE got
                /\ failed' = (d.res # "none" /\ ~ok)
  /\ UNCHANGED <<wire, sent, plan, guest>>

BootNext ==
  /\ plan # <<>>
  /\ \E g \in Head(plan).garbage, k \in 0..Head(plan).frames :
       \E fs \in [1..k -> FrameOf(Head(plan))], pairs \in SUBSET (1..k + 1) :
         Boot(g, fs, pairs)

Next ==
  \/ BootNext
  \/ \E k \in 0..Len(wire) : PowerOff(k)
  \/ Reset
  \/ \E n \in 1..Len(wire) : Read(n)
  \/ Decode

Spec == Init /\ [][Next]_vars

----------------------------------------------------------------------------
(* A run of the frames that were sent. *)
From(k) == SubSeq(sent, k, Len(sent))
IsPrefixOf(s, t) == Len(s) <= Len(t) /\ s = SubSeq(t, 1, Len(s))

(* decode_inner yields the frames that were sent, unchanged, in order and   *)
(* without gaps, starting with a handshake, however the bytes were chunked  *)
(* and whatever skip_noise removed: a payload may start with a caret or     *)
(* hold the signature, and control pairs may come between frames.           *)
FramesIntact ==
  /\ ~failed
  /\ got = <<>> \/ \E k \in 1..Len(sent) :
       sent[k] = Handshake /\ IsPrefixOf(got, From(k))

(* Nothing is held back: when all bytes have been read and the decoder asks *)
(* for more, the last boot's handshake and all its frames were delivered.   *)
Complete ==
  (guest = "up" /\ wire = <<>> /\ ~readable) =>
    \E k \in 1..Len(sent) : sent[k] = Handshake /\ got = From(k)
=============================================================================
