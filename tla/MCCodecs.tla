------------------------------ MODULE MCCodecs ------------------------------
(* Inputs for the encodings.                                               *)
EXTENDS Integers, Sequences

(* Two addresses of BIP-173 and BIP-350: a key hash and a Taproot key.     *)
KeyHash ==
  <<0, 14, 20, 15, 7, 13, 26, 0, 25, 18, 6, 11, 13, 8, 21, 4, 20, 3, 17, 2, 29, 3, 12, 29, 3, 4,
    15, 24, 20, 6, 14, 30, 22, 12, 7, 9, 17, 11, 21>>
Taproot ==
  <<1, 15, 6, 31, 6, 12, 31, 23, 25, 27, 18, 29, 26, 24, 21, 13, 0, 12, 10, 10, 28, 29, 1, 24,
    11, 0, 28, 1, 9, 23, 31, 6, 27, 5, 23, 7, 2, 17, 22, 10, 25, 30, 10, 0, 21, 22, 5, 23, 24, 2,
    30, 12, 0, 2, 22, 20, 18, 18, 15>>

Addr(data) == [prefix |-> "bc1", mixed |-> FALSE, data |-> data]
Case(base, edit, data) == [base |-> base, edit |-> edit, addr |-> Addr(data)]

EditsOf(d) ==
  LET n == Len(d)
      subs == {Case(d, "sub", [d EXCEPT ![i] = c]) : i \in 1..n, c \in {0, 1, 16, 31, 32}}
      swaps == {Case(d, "swap", [d EXCEPT ![i] = d[i + 1], ![i + 1] = d[i]]) : i \in 1..(n - 1)}
      drops == {Case(d, "drop", SubSeq(d, 1, i - 1) \o SubSeq(d, i + 1, n)) : i \in 1..n}
      adds == {Case(d, "add", SubSeq(d, 1, i) \o <<c>> \o SubSeq(d, i + 1, n)) :
                 i \in 0..n, c \in {0, 1}}
  IN {Case(d, "none", d)} \cup {x \in subs \cup swaps \cup drops \cup adds : x.addr.data # d}

MCAddresses ==
  EditsOf(KeyHash) \cup EditsOf(Taproot)
    \cup {[base |-> KeyHash, edit |-> "case", addr |-> [Addr(KeyHash) EXCEPT !.mixed = TRUE]]}

-----------------------------------------------------------------------------
RECURSIVE MCSum0(_)
MCSum0(e) ==
  LET half == Len(e) \div 2
  IN IF Len(e) = 1 THEN e[1]
     ELSE (77 + MCSum0(SubSeq(e, 1, half)) * 31 + MCSum0(SubSeq(e, half + 1, Len(e)))) % 256

(* Every length, with the extreme bytes and with one bit set.              *)
MCEntropies ==
  UNION {[1..n -> {b}] : n \in {15, 16, 20, 24, 28, 32}, b \in {0, 85, 127, 128, 255}}
    \cup {[i \in 1..16 |-> IF i = k THEN 2^j ELSE 0] : k \in 1..16, j \in 0..7}

(* Phrases of 12 and 24 words with one word exchanged, some unknown (2048).*)
MCPhrases ==
  UNION {{[i \in 1..n |-> IF i = k THEN w ELSE 37 * i] : k \in 1..n,
             w \in {2^j : j \in 0..11} \cup 0..40} : n \in {12, 24}}
    \cup {<<>>, [i \in 1..13 |-> 5]}

-----------------------------------------------------------------------------
Zeros(n) == [i \in 1..n |-> 0]
Size(n) == IF n < 253 THEN <<n>> ELSE <<253, n % 256, n \div 256>>
Output(s) == Zeros(8) \o Size(Len(s)) \o s

Mine == <<0, 3, 7, 7, 7>>
Others == {<<0, 3, 7, 7, 8>>, <<0, 3, 7, 7, 7, 7>>, <<0, 3, 7, 7>>, <<>>, Zeros(253)}
Outs == {<<>>} \cup {<<a>> : a \in Others \cup {Mine}}
          \cup {<<a, b>> : a \in Others \cup {Mine}, b \in Others \cup {Mine}}

WholeTx(segwit, sig, outs) ==
  Zeros(4) \o (IF segwit THEN <<0, 1>> ELSE <<>>) \o <<1>> \o Zeros(36)
    \o Size(sig) \o [i \in 1..sig |-> 9] \o Zeros(4) \o Size(Len(outs))
    \o (CASE Len(outs) = 0 -> <<>>
          [] Len(outs) = 1 -> Output(outs[1])
          [] Len(outs) = 2 -> Output(outs[1]) \o Output(outs[2])) \o Zeros(4)

Coinbase(segwit, sig, outs, cut) ==
  LET tx == WholeTx(segwit, sig, outs)
  IN [outs |-> outs, script |-> Mine, cut |-> cut < Len(tx),
      tx |-> SubSeq(tx, 1, IF cut < Len(tx) THEN cut ELSE Len(tx))]

MCCoinbases ==
  {Coinbase(g, sig, o, 10000) : g \in BOOLEAN, sig \in {0, 3, 252, 253, 260}, o \in Outs}
    \cup {Coinbase(g, 3, o, c) : g \in BOOLEAN, c \in 0..90,
            o \in {<<Mine>>, <<<<>>, Mine>>, <<Mine, <<>>>>, <<<<0, 3, 7, 7, 8>>>>}}
=============================================================================
