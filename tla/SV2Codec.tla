------------------------------ MODULE SV2Codec ------------------------------
(***************************************************************************)
(* The binary layout of Stratum V2: wire.go, the messages of messages.go   *)
(* and handshake.go, and the frame of frame.go. A payload is a sequence of *)
(* bytes; an encoder that refuses a value yields TooLong, a decoder that   *)
(* refuses a payload yields Bad. Widths and limits are those of the code;  *)
(* a float32 is its 32 bits.                                               *)
(***************************************************************************)
EXTENDS Integers, Sequences, SequencesExt

TooLong == <<-1>>
Bad == [t |-> "bad"]
-----------------------------------------------------------------------------
(* wire.go                                                                 *)

Bytes(v, w) == [i \in 1 .. w |-> (v \div 256 ^ (i - 1)) % 256]
appendU16LE(v) == Bytes(v, 2)
\* TLC's integers have 32 bits: values are below 2^31 and 256^4 does not arise.
appendU32LE(v) == Bytes(v, 3) \o <<v \div 256 ^ 3>>
\* A uint64 is its low and its high half.
appendU64LE(v) == appendU32LE(v[1]) \o appendU32LE(v[2])

appendB0_255(s) == IF Len(s) > 255 THEN TooLong ELSE <<Len(s)>> \o s
appendStr0_255(s) == appendB0_255(s)
appendB0_32(s) == IF Len(s) > 32 THEN TooLong ELSE <<Len(s)>> \o s

\* The parts of an encoding, unless one of them was refused.
Encoded(parts) == IF \E i \in DOMAIN parts : parts[i] = TooLong THEN TooLong ELSE FlattenSeq(parts)

Slice(p, o, w) == SubSeq(p, o + 1, o + w)
getU16LE(p, o) == p[o + 1] + 256 * p[o + 2]
getU32LE(p, o) == p[o + 1] + 256 * p[o + 2] + 256 ^ 2 * p[o + 3] + 256 ^ 3 * p[o + 4]

\* A string or byte field whose length byte is at offset o.
HasStr(p, o) == Len(p) > o /\ Len(p) >= o + 1 + p[o + 1]
getStr0_255(p, o) == Slice(p, o + 1, p[o + 1])
StrEnd(p, o) == o + 1 + p[o + 1]
-----------------------------------------------------------------------------
(* handshake.go                                                            *)

EncodeSetupConnection(m) ==
  Encoded(<<<<m.protocol>>, appendU16LE(m.min), appendU16LE(m.max), appendU32LE(m.flags)>>
          \o [i \in 1 .. 5 |-> appendStr0_255(m.strs[i])])

DecodeSetupConnection(p) ==
  LET a == StrEnd(p, 9)  b == StrEnd(p, a)  c == StrEnd(p, b)  d == StrEnd(p, c)
  IN  IF Len(p) >= 9 /\ HasStr(p, 9) /\ HasStr(p, a) /\ HasStr(p, b) /\ HasStr(p, c) /\ HasStr(p, d)
      THEN [t |-> "SetupConnection", protocol |-> p[1], min |-> getU16LE(p, 1), max |-> getU16LE(p, 3),
            flags |-> getU32LE(p, 5),
            strs |-> <<getStr0_255(p, 9), getStr0_255(p, a), getStr0_255(p, b), getStr0_255(p, c),
                       getStr0_255(p, d)>>]
      ELSE Bad

EncodeSetupConnectionSuccess(m) == appendU16LE(m.version) \o appendU32LE(m.flags)

DecodeSetupConnectionSuccess(p) ==
  IF Len(p) < 6 THEN Bad
  ELSE [t |-> "SetupConnectionSuccess", version |-> getU16LE(p, 0), flags |-> getU32LE(p, 2)]

EncodeSetupConnectionError(m) == Encoded(<<appendU32LE(m.flags), appendStr0_255(m.error)>>)

DecodeSetupConnectionError(p) ==
  IF ~HasStr(p, 4) THEN Bad
  ELSE [t |-> "SetupConnectionError", flags |-> getU32LE(p, 0), error |-> getStr0_255(p, 4)]

EncodeOpenMiningChannel(m) ==
  Encoded(<<appendU32LE(m.req), appendStr0_255(m.user), appendU32LE(m.hashrate), m.target>>)

DecodeOpenMiningChannel(p) ==
  LET e == StrEnd(p, 4)
  IN  IF HasStr(p, 4) /\ Len(p) >= e + 4 + 32
      THEN [t |-> "OpenMiningChannel", req |-> getU32LE(p, 0), user |-> getStr0_255(p, 4),
            hashrate |-> getU32LE(p, e), target |-> Slice(p, e + 4, 32)]
      ELSE Bad

EncodeOpenMiningChannelSuccess(m) ==
  Encoded(<<appendU32LE(m.req), appendU32LE(m.channel), m.target, appendB0_32(m.extranonce),
            appendU32LE(m.group)>>)

\* The extranonce is read leniently, up to 255 bytes.
DecodeOpenMiningChannelSuccess(p) ==
  LET e == StrEnd(p, 40)
  IN  IF HasStr(p, 40) /\ Len(p) >= e + 4
      THEN [t |-> "OpenMiningChannelSuccess", req |-> getU32LE(p, 0), channel |-> getU32LE(p, 4),
            target |-> Slice(p, 8, 32), extranonce |-> getStr0_255(p, 40), group |-> getU32LE(p, e)]
      ELSE Bad

EncodeOpenMiningChannelError(m) == Encoded(<<appendU32LE(m.req), appendStr0_255(m.error)>>)

\* Without a string the reason is empty.
DecodeOpenMiningChannelError(p) ==
  IF Len(p) < 4 \/ (Len(p) > 4 /\ ~HasStr(p, 4)) THEN Bad
  ELSE [t |-> "OpenMiningChannelError", req |-> getU32LE(p, 0),
        error |-> IF Len(p) = 4 THEN << >> ELSE getStr0_255(p, 4)]
-----------------------------------------------------------------------------
(* messages.go                                                             *)

\* ntime is << >> for a future job, else a sequence of one value.
EncodeNewMiningJob(m) ==
  appendU32LE(m.channel) \o appendU32LE(m.job)
  \o (IF m.ntime = << >> THEN <<0>> ELSE <<1>> \o appendU32LE(m.ntime[1]))
  \o appendU32LE(m.version) \o m.root

DecodeNewMiningJob(p) ==
  LET off == IF p[9] = 0 THEN 9 ELSE 13
  IN  IF Len(p) < 4 + 4 + 1 + 4 + 32 \/ p[9] > 1 \/ Len(p) < off + 4 + 32 THEN Bad
      ELSE [t |-> "NewMiningJob", channel |-> getU32LE(p, 0), job |-> getU32LE(p, 4),
            ntime |-> IF p[9] = 0 THEN << >> ELSE <<getU32LE(p, 9)>>,
            version |-> getU32LE(p, off), root |-> Slice(p, off + 4, 32)]

EncodeSetNewPrevHash(m) ==
  appendU32LE(m.channel) \o appendU32LE(m.job) \o m.prev \o appendU32LE(m.ntime) \o appendU32LE(m.nbits)

DecodeSetNewPrevHash(p) ==
  IF Len(p) < 4 + 4 + 32 + 4 + 4 THEN Bad
  ELSE [t |-> "SetNewPrevHash", channel |-> getU32LE(p, 0), job |-> getU32LE(p, 4),
        prev |-> Slice(p, 8, 32), ntime |-> getU32LE(p, 40), nbits |-> getU32LE(p, 44)]

EncodeSetTarget(m) == appendU32LE(m.channel) \o m.target

DecodeSetTarget(p) ==
  IF Len(p) < 4 + 32 THEN Bad
  ELSE [t |-> "SetTarget", channel |-> getU32LE(p, 0), target |-> Slice(p, 4, 32)]

EncodeSubmitSharesStandard(m) ==
  appendU32LE(m.channel) \o appendU32LE(m.seq) \o appendU32LE(m.job) \o appendU32LE(m.nonce)
  \o appendU32LE(m.ntime) \o appendU32LE(m.version)

DecodeSubmitSharesStandard(p) ==
  IF Len(p) < 24 THEN Bad
  ELSE [t |-> "SubmitSharesStandard", channel |-> getU32LE(p, 0), seq |-> getU32LE(p, 4),
        job |-> getU32LE(p, 8), nonce |-> getU32LE(p, 12), ntime |-> getU32LE(p, 16),
        version |-> getU32LE(p, 20)]

EncodeSubmitSharesSuccess(m) ==
  appendU32LE(m.channel) \o appendU32LE(m.last) \o appendU32LE(m.accepted) \o appendU64LE(m.summed)

DecodeSubmitSharesSuccess(p) ==
  IF Len(p) < 20 THEN Bad
  ELSE [t |-> "SubmitSharesSuccess", channel |-> getU32LE(p, 0), last |-> getU32LE(p, 4),
        accepted |-> getU32LE(p, 8), summed |-> <<getU32LE(p, 12), getU32LE(p, 16)>>]

EncodeSubmitSharesError(m) ==
  Encoded(<<appendU32LE(m.channel), appendU32LE(m.seq), appendStr0_255(m.error)>>)

DecodeSubmitSharesError(p) ==
  IF Len(p) < 8 \/ (Len(p) > 8 /\ ~HasStr(p, 8)) THEN Bad
  ELSE [t |-> "SubmitSharesError", channel |-> getU32LE(p, 0), seq |-> getU32LE(p, 4),
        error |-> IF Len(p) = 8 THEN << >> ELSE getStr0_255(p, 8)]

EncodeCloseChannel(m) == Encoded(<<appendU32LE(m.channel), appendStr0_255(m.reason)>>)

DecodeCloseChannel(p) ==
  IF ~HasStr(p, 4) THEN Bad
  ELSE [t |-> "CloseChannel", channel |-> getU32LE(p, 0), reason |-> getStr0_255(p, 4)]
-----------------------------------------------------------------------------
MsgType == [SetupConnection |-> 0, SetupConnectionSuccess |-> 1, SetupConnectionError |-> 2,
            OpenMiningChannel |-> 16, OpenMiningChannelSuccess |-> 17, OpenMiningChannelError |-> 18,
            NewMiningJob |-> 21, CloseChannel |-> 24, SubmitSharesStandard |-> 26,
            SubmitSharesSuccess |-> 28, SubmitSharesError |-> 29, SetNewPrevHash |-> 32,
            SetTarget |-> 33]

\* The method Encode of a message; a message of an unknown type is its payload.
Encode(m) ==
  CASE m.t = "SetupConnection" -> EncodeSetupConnection(m)
    [] m.t = "SetupConnectionSuccess" -> EncodeSetupConnectionSuccess(m)
    [] m.t = "SetupConnectionError" -> EncodeSetupConnectionError(m)
    [] m.t = "OpenMiningChannel" -> EncodeOpenMiningChannel(m)
    [] m.t = "OpenMiningChannelSuccess" -> EncodeOpenMiningChannelSuccess(m)
    [] m.t = "OpenMiningChannelError" -> EncodeOpenMiningChannelError(m)
    [] m.t = "NewMiningJob" -> EncodeNewMiningJob(m)
    [] m.t = "SetNewPrevHash" -> EncodeSetNewPrevHash(m)
    [] m.t = "SetTarget" -> EncodeSetTarget(m)
    [] m.t = "SubmitSharesStandard" -> EncodeSubmitSharesStandard(m)
    [] m.t = "SubmitSharesSuccess" -> EncodeSubmitSharesSuccess(m)
    [] m.t = "SubmitSharesError" -> EncodeSubmitSharesError(m)
    [] m.t = "CloseChannel" -> EncodeCloseChannel(m)
    [] m.t = "Unknown" -> m.payload

\* A type without a decoder passes through with its payload.
DispatchFrame(f) ==
  CASE f.type = 0 -> DecodeSetupConnection(f.payload)
    [] f.type = 1 -> DecodeSetupConnectionSuccess(f.payload)
    [] f.type = 2 -> DecodeSetupConnectionError(f.payload)
    [] f.type = 16 -> DecodeOpenMiningChannel(f.payload)
    [] f.type = 17 -> DecodeOpenMiningChannelSuccess(f.payload)
    [] f.type = 18 -> DecodeOpenMiningChannelError(f.payload)
    [] f.type = 21 -> DecodeNewMiningJob(f.payload)
    [] f.type = 24 -> DecodeCloseChannel(f.payload)
    [] f.type = 26 -> DecodeSubmitSharesStandard(f.payload)
    [] f.type = 28 -> DecodeSubmitSharesSuccess(f.payload)
    [] f.type = 29 -> DecodeSubmitSharesError(f.payload)
    [] f.type = 32 -> DecodeSetNewPrevHash(f.payload)
    [] f.type = 33 -> DecodeSetTarget(f.payload)
    [] OTHER -> [t |-> "Unknown", type |-> f.type, payload |-> f.payload]
-----------------------------------------------------------------------------
(* frame.go                                                                *)

HeaderSize == 6
MinimumChannelPayload == 4
channelMsgBit == 32768

Validate(h) == h.len < 256 ^ 3 /\ (h.ext >= channelMsgBit => h.len >= MinimumChannelPayload)

EncodeHeader(h) == appendU16LE(h.ext) \o <<h.type>> \o Bytes(h.len, 3)

DecodeHeader(b) == [ext |-> getU16LE(b, 0), type |-> b[3], len |-> b[4] + 256 * b[5] + 256 ^ 2 * b[6]]

\* WrapMessage and EncodeFrame: the bytes of a frame, or TooLong for an invalid header.
WrapMessage(type, channel, payload) ==
  LET h == [ext |-> IF channel THEN channelMsgBit ELSE 0, type |-> type, len |-> Len(payload)]
  IN  IF Validate(h) THEN EncodeHeader(h) \o payload ELSE TooLong
=============================================================================
