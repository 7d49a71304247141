------------------------------ MODULE SV2Wire -------------------------------
(***************************************************************************)
(* One direction of a Stratum V2 connection, byte by byte: the peer writes *)
(* framed messages, plainly or through the Noise transport of noise.go,    *)
(* the connection may be cut at any byte, and the client reads frames      *)
(* (Decoder.ReadFrame) and decodes them (DispatchFrame).                   *)
(*                                                                         *)
(* The AEAD is external: a ciphertext byte carries the nonce it was sealed *)
(* under, and opening it under another nonce fails.                        *)
(***************************************************************************)
EXTENDS SV2Codec, FiniteSets

CONSTANTS
  Messages,       \* what the peer may send first
  Followers,      \* what it may send after that
  MaxSent,        \* bound: how many messages it sends
  Splits,         \* where it may break a frame into two Noise records
  MaxNoiseFrame,  \* maxNoiseFrame, scaled down
  MaxFrameSize    \* Decoder.MaxFrameSize, scaled down

TagSize == 16

VARIABLES
  noise,    \* whether the connection is an EncryptedConn
  sent,     \* the frames written: [msg, payload, whole]
  sendN,    \* nonce counter of the peer's CipherState
  recvN,    \* nonce counter of the client's CipherState
  wire,     \* bytes written and not yet read
  closed,   \* the connection is closed: no byte follows wire
  torn,     \* it was closed inside a frame
  readbuf,  \* EncryptedConn.readbuf
  have,     \* bytes the current io.ReadFull has
  header,   \* the decoded header, or NoHeader while it is read
  reader,   \* "reads", or how the read loop ended
  got       \* the decoded messages, Bad for an undecodable one

vars == <<noise, sent, sendN, recvN, wire, closed, torn, readbuf, have, header, reader, got>>

NoHeader == [ext |-> 0, type |-> 0, len |-> -1]

ChannelMessages == {"NewMiningJob", "SetNewPrevHash", "SetTarget", "CloseChannel", "SubmitSharesStandard",
                    "SubmitSharesSuccess", "SubmitSharesError"}

TypeOf(m) == IF m.t = "Unknown" THEN m.type ELSE MsgType[m.t]

Init ==
  /\ noise \in BOOLEAN
  /\ sent = << >> /\ sendN = 0 /\ recvN = 0
  /\ wire = << >> /\ closed = FALSE /\ torn = FALSE
  /\ readbuf = << >> /\ have = << >> /\ header = NoHeader
  /\ reader = "reads" /\ got = << >>
-----------------------------------------------------------------------------
(* The peer                                                                *)

Seal(n, p) == [i \in 1 .. Len(p) + TagSize |-> 256 * (n + 1) + (IF i <= Len(p) THEN p[i] ELSE 0)]
Opens(n, c) == \A i \in DOMAIN c : c[i] \div 256 = n + 1
Opened(c) == [i \in 1 .. Len(c) - TagSize |-> c[i] % 256]

\* A write of the bytes b under nonce n: EncryptedConn.Write has taken the nonce by the
\* time it refuses a message that is too long.
Write(b, n) ==
  IF ~noise THEN [ok |-> TRUE, bytes |-> b, n |-> n]
  ELSE IF Len(b) + TagSize > MaxNoiseFrame THEN [ok |-> FALSE, bytes |-> << >>, n |-> n + 1]
  ELSE [ok |-> TRUE, bytes |-> appendU16LE(Len(b) + TagSize) \o Seal(n, b), n |-> n + 1]

\* What a peer may make of a frame: one write, as this code does, or two records. The
\* client's Read takes a frame from any number of records.
Writes(b) ==
  LET broken(k) ==
        LET first == Write(SubSeq(b, 1, k), sendN)
            rest  == Write(SubSeq(b, k + 1, Len(b)), first.n)
        IN  [ok |-> first.ok /\ rest.ok, bytes |-> first.bytes \o rest.bytes, n |-> rest.n]
  IN  {Write(b, sendN)} \cup
      {w \in {broken(k) : k \in {k \in Splits : noise /\ k < Len(b)}} : w.ok}

\* The peer writes a frame with the given payload, that of m or, if it does not
\* keep to the layout, another one.
Sends(m, payload) ==
  LET frame == WrapMessage(TypeOf(m), m.t \in ChannelMessages, payload)
  IN  /\ ~closed /\ Len(sent) < MaxSent /\ sendN < MaxSent
      /\ \A i \in DOMAIN sent : sent[i].whole
      /\ frame # TooLong
      /\ \E w \in Writes(frame) :
           /\ sendN' = w.n
           /\ wire' = wire \o w.bytes
           /\ sent' = IF w.ok
                      THEN Append(sent, [msg |-> m, payload |-> payload, whole |-> payload = Encode(m)])
                      ELSE sent
      /\ UNCHANGED <<noise, recvN, closed, torn, readbuf, have, header, reader, got>>

\* sendMsg: a message that does not encode is not sent.
sendMsg(m) == Encode(m) # TooLong /\ Sends(m, Encode(m))

\* A peer that leaves bytes out of a payload, or adds some: the last thing it sends.
Misshapes(m) ==
  /\ Encode(m) # TooLong
  /\ \/ \E k \in 0 .. Len(Encode(m)) - 1 : Sends(m, SubSeq(Encode(m), 1, k))
     \/ Sends(m, Encode(m) \o <<2>>)

\* The connection is closed, or cut after some of the bytes in flight.
Cut ==
  /\ ~closed /\ sent # << >>
  /\ \A i \in DOMAIN sent : sent[i].whole
  /\ closed' = TRUE
  /\ \E k \in 0 .. Len(wire) :
       /\ wire' = SubSeq(wire, 1, k)
       /\ torn' = (k # Len(wire))
  /\ UNCHANGED <<noise, sent, sendN, recvN, readbuf, have, header, reader, got>>
-----------------------------------------------------------------------------
(* The client                                                              *)

want == IF header = NoHeader THEN HeaderSize ELSE header.len
need == want - Len(have)

PullsForgetful ==
  LET source == IF noise THEN readbuf ELSE wire
      n      == IF need < Len(source) THEN need ELSE Len(source)
  IN  /\ reader = "reads" /\ need > 0 /\ source # << >>
      /\ have' = have \o SubSeq(source, 1, n)
      /\ IF noise THEN readbuf' = << >> /\ UNCHANGED wire
         ELSE wire' = SubSeq(wire, n + 1, Len(wire)) /\ UNCHANGED readbuf
      /\ UNCHANGED <<noise, sent, sendN, recvN, closed, torn, header, reader, got>>

\* One Read of the connection under io.ReadFull.
Pulls ==
  LET source == IF noise THEN readbuf ELSE wire
      n      == IF need < Len(source) THEN need ELSE Len(source)
      rest   == SubSeq(source, n + 1, Len(source))
  IN  /\ reader = "reads" /\ need > 0 /\ source # << >>
      /\ have' = have \o SubSeq(source, 1, n)
      /\ IF noise THEN readbuf' = rest /\ UNCHANGED wire ELSE wire' = rest /\ UNCHANGED readbuf
      /\ UNCHANGED <<noise, sent, sendN, recvN, closed, torn, header, reader, got>>

\* EncryptedConn.Read with nothing left over: the next length-prefixed ciphertext.
HasRecord == Len(wire) >= 2 /\ Len(wire) >= 2 + getU16LE(wire, 0)

Refills ==
  LET c == Slice(wire, 2, getU16LE(wire, 0))
  IN  /\ reader = "reads" /\ noise /\ need > 0 /\ readbuf = << >>
      /\ HasRecord
      /\ recvN' = recvN + 1
      /\ wire' = SubSeq(wire, Len(c) + 3, Len(wire))
      /\ IF Opens(recvN, c) THEN readbuf' = Opened(c) /\ UNCHANGED reader
         ELSE reader' = "decrypt failed" /\ UNCHANGED readbuf
      /\ UNCHANGED <<noise, sent, sendN, closed, torn, have, header, got>>

\* The error of io.ReadFull when the connection ends before need bytes came.
ReadError ==
  LET inner == IF wire = << >> \/ (noise /\ Len(wire) = 2) THEN "EOF" ELSE "unexpected EOF"
  IN  IF have = << >> THEN inner ELSE "unexpected EOF"

EndOfStream ==
  /\ reader = "reads" /\ need > 0 /\ closed
  /\ IF noise THEN readbuf = << >> /\ ~HasRecord ELSE wire = << >>
  /\ reader' = ReadError
  /\ UNCHANGED <<noise, sent, sendN, recvN, wire, closed, torn, readbuf, have, header, got>>

\* ReadFrame once it has the header: the checks before the payload is allocated.
HeaderRead ==
  LET h == DecodeHeader(have)
  IN  /\ reader = "reads" /\ header = NoHeader /\ need = 0
      /\ IF Validate(h) /\ HeaderSize + h.len <= MaxFrameSize
         THEN header' = h /\ UNCHANGED reader
         ELSE reader' = "bad header" /\ UNCHANGED header
      /\ have' = << >>
      /\ UNCHANGED <<noise, sent, sendN, recvN, wire, closed, torn, readbuf, got>>

\* ReadFrame returns a frame. On one that does not decode the engine's session
\* ends; the adapter skips it and reads on.
FrameRead ==
  LET m == DispatchFrame([type |-> header.type, payload |-> have])
  IN  /\ reader = "reads" /\ header # NoHeader /\ need = 0
      /\ got' = Append(got, m)
      /\ have' = << >> /\ header' = NoHeader
      /\ \/ UNCHANGED reader
         \/ m = Bad /\ reader' = "bad frame"
      /\ UNCHANGED <<noise, sent, sendN, recvN, wire, closed, torn, readbuf>>
-----------------------------------------------------------------------------
Next ==
  \/ \E m \in IF sent = << >> THEN Messages ELSE Followers : sendMsg(m) \/ Misshapes(m)
  \/ Cut
  \/ Pulls \/ Refills \/ EndOfStream
  \/ HeaderRead \/ FrameRead

Spec == Init /\ [][Next]_vars
-----------------------------------------------------------------------------
\* What the client decodes is what the peer wrote, in its order and with nothing
\* lost, repeated or made up in between: a whole message decodes to itself over
\* either transport, however the reads split it; a misshapen payload is refused,
\* or what is read from it is what the payload says (its encoding, up to an
\* omitted empty reason, is a prefix of the payload).
DecodedFaithfully ==
  /\ Len(got) <= Len(sent)
  /\ \A i \in DOMAIN got :
       /\ sent[i].whole => got[i] = sent[i].msg
       /\ got[i] # Bad =>
            LET e == Encode(got[i]) IN IsPrefix(e, sent[i].payload) \/ e = Append(sent[i].payload, 0)
=============================================================================
