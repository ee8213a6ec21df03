------------------------------- MODULE Crc32 -------------------------------
(***************************************************************************)
(* crc32.c: the checksum of a sequence of bytes, a word of 32 bits written *)
(* as the pair of its upper and its lower 16 bits.                         *)
(***************************************************************************)
EXTENDS Integers, Sequences
LOCAL INSTANCE Bitwise
LOCAL INSTANCE SequencesExt

XorWord(w, v)  == <<w[1] ^^ v[1], w[2] ^^ v[2]>>
LowByte(w) == w[2] % 256
Shift8(w)  == <<w[1] \div 256, (w[1] % 256) * 256 + w[2] \div 256>>

(* The table of 256 words is linear: an entry is the sum, without carry,   *)
(* of the entries at the powers of two its index is made of.  These eight  *)
(* are written out.                                                        *)
Basis ==
  << <<\h7707, \h3096>>, <<\hEE0E, \h612C>>, <<\h076D, \hC419>>,
     <<\h0EDB, \h8832>>, <<\h1DB7, \h1064>>, <<\h3B6E, \h20C8>>,
     <<\h76DC, \h4190>>, <<\hEDB8, \h8320>> >>

Crc32Table ==
  [i \in 0 .. 255 |->
     FoldLeft(LAMBDA w, k : IF (i \div 2^k) % 2 = 0 THEN w
                                                    ELSE XorWord(w, Basis[k + 1]),
              <<0, 0>>, [k \in 1 .. 8 |-> k - 1])]

(* A mutant: the register starts at zero.                                  *)
StartAtZero == <<0, 0>>

Start == <<\hFFFF, \hFFFF>>

Crc32(buf) ==
  XorWord(FoldLeft(LAMBDA crc, b :
                 XorWord(Shift8(crc), Crc32Table[LowByte(crc) ^^ b]),
               Start, buf),
      <<\hFFFF, \hFFFF>>)

-----------------------------------------------------------------------------
(* The reference: one bit of division by the polynomial that crc32.c       *)
(* names, with its bits in reverse order.                                  *)
DivideBit(w) ==
  LET half == <<w[1] \div 2, (w[1] % 2) * \h8000 + w[2] \div 2>>
  IN  IF w[2] % 2 = 0 THEN half ELSE XorWord(half, <<\hEDB8, \h8320>>)

TableIsRemainders ==
  \A i \in 0 .. 255 :
    Crc32Table[i] = FoldLeft(LAMBDA w, k : DivideBit(w), <<0, i>>,
                             [k \in 1 .. 8 |-> k])

(* The check value of crc32.c, for the text "123456789".                   *)
CheckValue == Crc32([i \in 1 .. 9 |-> 48 + i]) = <<\hCBF4, \h3926>>

=============================================================================
