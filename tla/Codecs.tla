------------------------------- MODULE Codecs -------------------------------
(***************************************************************************)
(* The encodings money depends on: the witness address a payout goes to    *)
(* (bech32 and bech32m), the recovery phrase of the wallet (BIP-39) and    *)
(* the scan of a pool's coinbase transaction for the user's script.  They  *)
(* are pure functions; a behaviour is one call of one of them, on an input *)
(* taken from a constant set.  Bytes, 5-bit groups, words and bits are     *)
(* numbers and keep the code's widths: a character of an address is its    *)
(* index in the alphabet (or another number), a word its index in the list.*)
(***************************************************************************)
EXTENDS Integers, Sequences

CONSTANTS
  Addresses,   \* [base, edit, addr]: valid data, the edit made and the address
  Entropies,   \* sequences of bytes
  Phrases,     \* sequences of word indices
  Coinbases,   \* [outs, script, cut, tx]: a transaction, or a prefix of one
  Sum0(_)      \* the first byte of SHA-256 of an entropy

VARIABLES call, out

vars == <<call, out>>

Failed == [ok |-> FALSE, v |-> <<>>]
Done(v) == [ok |-> TRUE, v |-> v]

-----------------------------------------------------------------------------
(* Addresses.                                                              *)
gen == <<996825010, 642813549, 513874426, 1027748829, 705979059>>

(* Exclusive or of two numbers of w bits.                                  *)
RECURSIVE Xor(_, _, _)
Xor(x, y, w) ==
  LET h == 2^(w \div 2)
  IN IF w = 1 THEN (x + y) % 2
     ELSE h * Xor(x \div h, y \div h, w - w \div 2) + Xor(x % h, y % h, w \div 2)

(* The remainder after one more value (of 5 bits, so that the exclusive or *)
(* with it is a sum), a generator folded back for each of the top bits.    *)
PolymodStep(chk, v) ==
  LET top == chk \div 2^25
      shifted == (chk % 2^25) * 32 + v
      fold[i \in 0..5] ==
        IF i = 0 THEN shifted
        ELSE CHOOSE r \in {IF (top \div 2^(i - 1)) % 2 = 1 THEN Xor(m, gen[i], 30) ELSE m :
                             m \in {fold[i - 1]}} : TRUE
  IN fold[5]

(* The loop over the values, by halves to keep the recursion flat.         *)
RECURSIVE Remainder(_, _)
Remainder(chk, values) ==
  LET n == Len(values)
      half == n \div 2
  IN IF n = 1 THEN PolymodStep(chk, values[1])
     ELSE CHOOSE r \in {Remainder(m, SubSeq(values, half + 1, n)) :
                          m \in {Remainder(chk, SubSeq(values, 1, half))}} : TRUE

bech32Polymod(values) == Remainder(1, values)

(* bech32HrpExpand("bc").                                                  *)
HrpExpanded == <<3, 3, 0, 2, 3>>

Bit(v, w, i) == (v \div 2^(w - 1 - i)) % 2

Number(bits) ==
  LET n[i \in 0..Len(bits)] == IF i = 0 THEN 0 ELSE 2 * n[i - 1] + bits[i] IN n[Len(bits)]

(* The bits of data, regrouped.  The code keeps them in an accumulator.    *)
convertBits(data, from, to, pad) ==
  LET total == from * Len(data)
      rest == total % to
      bits == [i \in 1..total |-> Bit(data[(i - 1) \div from + 1], from, (i - 1) % from)]
      groups == [k \in 1..(total \div to) |-> Number(SubSeq(bits, to * (k - 1) + 1, to * k))]
      last == Number(SubSeq(bits, total - rest + 1, total)) * 2^(to - rest)
  IN IF \E i \in DOMAIN data : data[i] >= 2^from THEN Failed
     ELSE IF pad THEN Done(IF rest > 0 THEN Append(groups, last) ELSE groups)
     ELSE IF rest >= from \/ last # 0 THEN Failed ELSE Done(groups)

(* addr: its prefix, whether it mixes cases, and the data part.            *)
decodeBech32String(addr) ==
  IF \/ addr.prefix \notin {"bc1", "BC1"} \/ addr.mixed
     \/ 3 + Len(addr.data) > 90 \/ Len(addr.data) < 8
     \/ \E i \in DOMAIN addr.data : addr.data[i] \notin 0..31
  THEN Failed ELSE Done(addr.data)

classifyWitnessProgram(version, program) ==
  CASE version = 0 /\ Len(program) = 20 -> "P2WPKH"
    [] version = 0 /\ Len(program) = 32 -> "P2WSH"
    [] version = 1 /\ Len(program) = 32 -> "P2TR"
    [] OTHER -> "unknown"

Program(data) == convertBits(SubSeq(data, 2, Len(data) - 6), 5, 8, FALSE)

(* The mutant: one constant for every witness version.                     *)
ChecksumOfV0(data) == bech32Polymod(HrpExpanded \o data) = 1

(* The constant the version selects.                                       *)
Checksum(data) ==
  bech32Polymod(HrpExpanded \o data) = IF data[1] = 0 THEN 1 ELSE 734539939

ValidateBech32Address(addr) ==
  LET d == decodeBech32String(addr)
  IN IF d.ok /\ d.v[1] <= 16 /\ Checksum(d.v) /\ Program(d.v).ok
        /\ Len(Program(d.v).v) \in 2..40
     THEN classifyWitnessProgram(d.v[1], Program(d.v).v) ELSE "unknown"

(* ScriptForAddress, for the addresses above.                              *)
ScriptForAddress(addr) ==
  LET program == Program(addr.data).v
      version == addr.data[1]
  IN IF ValidateBech32Address(addr) = "unknown" THEN Failed
     ELSE Done(<<IF version > 0 THEN 80 + version ELSE 0, Len(program)>> \o program)

-----------------------------------------------------------------------------
(* The recovery phrase.                                                    *)
(* Entropy.Validate; the phrase of any other length is nil.                *)
ValidEntropy(e) == Len(e) \in {16, 20, 24, 28, 32}

EntropyToMnemonic(e) ==
  LET ent == 8 * Len(e)
      total == ent + ent \div 32
      bits == [i \in 1..total |->
                 IF i <= ent THEN Bit(e[(i - 1) \div 8 + 1], 8, (i - 1) % 8)
                 ELSE Bit(Sum0(e), 8, i - ent - 1)]
  IN IF ~ValidEntropy(e) THEN <<>>
     ELSE [k \in 1..(total \div 11) |-> Number(SubSeq(bits, 11 * k - 10, 11 * k))]

(* The mutant: the checksum is not looked at.                              *)
SumMatchesAny(entropy, bits, entBits) == TRUE

SumMatches(entropy, bits, entBits) ==
  \A i \in (entBits + 1)..Len(bits) : bits[i] = Bit(Sum0(entropy), 8, i - entBits - 1)

MnemonicToEntropy(m) ==
  LET total == 11 * Len(m)
      entBits == total - total \div 33
      bits == [i \in 1..total |-> Bit(m[(i - 1) \div 11 + 1], 11, (i - 1) % 11)]
      entropy == [k \in 1..(entBits \div 8) |-> Number(SubSeq(bits, 8 * k - 7, 8 * k))]
  IN IF /\ Len(m) \in {12, 15, 18, 21, 24}
        /\ \A i \in DOMAIN m : m[i] \in 0..2047
        /\ SumMatches(entropy, bits, entBits)
     THEN Done(entropy) ELSE Failed

-----------------------------------------------------------------------------
(* The coinbase.  Offsets count from 0.  A size of more than two bytes     *)
(* exceeds every transaction here, and is Huge.                            *)
Huge == 2^30

Little(b, off, n) ==
  IF \E i \in 3..n : b[off + i] # 0 THEN Huge ELSE b[off + 1] + 256 * b[off + 2]

Width(first) == CASE first = 253 -> 3 [] first = 254 -> 5 [] first = 255 -> 9 [] OTHER -> 1

readCompactSize(b, off) ==
  IF off >= Len(b) \/ off + Width(b[off + 1]) > Len(b) THEN [ok |-> FALSE, v |-> 0, off |-> off]
  ELSE LET w == Width(b[off + 1])
       IN [ok |-> TRUE, off |-> off + w,
           v |-> IF w = 1 THEN b[off + 1] ELSE Little(b, off + 1, w - 1)]

(* Where the inputs end, -1 when they are malformed.                       *)
RECURSIVE SkipInputs(_, _, _)
SkipInputs(tx, off, n) ==
  IF n = 0 THEN IF off >= Len(tx) THEN -1 ELSE off
  ELSE LET sl == readCompactSize(tx, off + 36)
       IN IF ~sl.ok \/ sl.v > Len(tx) - sl.off THEN -1
          ELSE SkipInputs(tx, sl.off + sl.v + 4, n - 1)

RECURSIVE ScanOutputs(_, _, _, _)
ScanOutputs(tx, off, n, script) ==
  IF n = 0 THEN "missing"
  ELSE LET pk == readCompactSize(tx, off + 8)
       IN CASE ~pk.ok \/ pk.v > Len(tx) - pk.off -> "malformed"
            [] OTHER -> IF SubSeq(tx, pk.off + 1, pk.off + pk.v) = script THEN "pays"
                        ELSE ScanOutputs(tx, pk.off + pk.v, n - 1, script)

(* The mutant: the marker and the flag of a segwit transaction are read as *)
(* the counts of inputs and outputs.                                       *)
InputsAtUnmarked(tx) == 4

InputsAt(tx) == IF tx[5] = 0 /\ tx[6] = 1 THEN 6 ELSE 4

CoinbasePaysScript(tx, script) ==
  IF Len(tx) < 10 THEN "malformed"
  ELSE LET vin == readCompactSize(tx, InputsAt(tx))
           ins == SkipInputs(tx, vin.off, vin.v)
           vout == readCompactSize(tx, ins)
       IN IF ~vin.ok \/ vin.v = 0 THEN "malformed"
          ELSE IF ins = -1 THEN "malformed"
          ELSE IF ~vout.ok THEN "malformed"
          ELSE ScanOutputs(tx, vout.off, vout.v, script)

-----------------------------------------------------------------------------
(* One call.                                                               *)
Calls ==
  [kind : {"address"}, in : Addresses] \cup [kind : {"entropy"}, in : Entropies]
    \cup [kind : {"phrase"}, in : Phrases] \cup [kind : {"coinbase"}, in : Coinbases]

Pending == [done |-> FALSE]
Returns(kind, result) ==
  /\ call.kind = kind /\ ~out.done
  /\ out' = [done |-> TRUE, result |-> result] /\ UNCHANGED call

ResolvesAddress == Returns("address", ScriptForAddress(call.in.addr))
ShowsPhrase == Returns("entropy", MnemonicToEntropy(EntropyToMnemonic(call.in)))
RestoresPhrase == Returns("phrase", MnemonicToEntropy(call.in))
ChecksCoinbase == Returns("coinbase", CoinbasePaysScript(call.in.tx, call.in.script))

Init == call \in Calls /\ out = Pending

Next == ResolvesAddress \/ ShowsPhrase \/ RestoresPhrase \/ ChecksCoinbase

Spec == Init /\ [][Next]_vars

-----------------------------------------------------------------------------
Returned(kind) == out.done /\ call.kind = kind

(* A valid address, of either checksum, resolves to a script with its      *)
(* witness program, and an address one edit away from it (a character      *)
(* substituted, inserted, dropped or swapped with its neighbour) resolves  *)
(* to nothing: a slip of the keyboard in a payout address is refused.      *)
SlipsRefused ==
  Returned("address") =>
    IF call.in.edit = "none"
    THEN out.result.ok /\ convertBits(SubSeq(out.result.v, 3, Len(out.result.v)), 8, 5, TRUE).v
                            = SubSeq(call.in.base, 2, Len(call.in.base) - 6)
    ELSE ~out.result.ok

(* The phrase shown for an entropy restores that entropy, and a phrase     *)
(* that is accepted is the one phrase of what it restores.                 *)
PhraseFaithful ==
  /\ Returned("entropy") =>
       out.result = IF ValidEntropy(call.in) THEN Done(call.in) ELSE Failed
  /\ Returned("phrase") /\ out.result.ok => EntropyToMnemonic(out.result.v) = call.in

(* CoinbasePaysScript finds the user's script exactly when it is one of    *)
(* the outputs, whatever the lengths and the segwit marker; of a           *)
(* transaction cut short it never says that the script is there, or that   *)
(* it is not, when the whole one says otherwise.                           *)
CoinbaseReadRight ==
  Returned("coinbase") =>
    LET paid == \E i \in DOMAIN call.in.outs : call.in.outs[i] = call.in.script
    IN /\ out.result = "pays" => paid
       /\ out.result = "missing" => ~paid
       /\ out.result = "malformed" => call.in.cut
=============================================================================
