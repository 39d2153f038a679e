-------------------------------- MODULE Leb128 --------------------------------
(***************************************************************************)
(* Numbers in the LEB128 format of DWARF, in septets with the low ones     *)
(* first and a bit in each that says whether another follows (leb.c), and  *)
(* numbers of a fixed width.  A byte is a number of 0..255, s a sequence   *)
(* of bytes and p a position in it.  A reader gives a value and the        *)
(* position after it, or tells what ended katana.                          *)
(***************************************************************************)
EXTENDS Integers, SequencesExt

Got(v, p) == [val |-> v, next |-> p, err |-> "none"]
Err(e)    == [val |-> 0, next |-> 0, err |-> e]

Least(S) == CHOOSE k \in S : \A j \in S : k <= j

(* The number whose digits, low ones first, come after start, up to a      *)
(* bound: words are of 64 bits, the integers of TLC of 32.                 *)
MaxNumber == 2^30

Number(digits, base, start) ==
  LET n == Len(digits)
      f[j \in 0..n] ==
        IF j = 0 THEN start
        ELSE LET so == f[j - 1]
             IN IF so \in -2^22..2^22 THEN base * so + digits[n + 1 - j] ELSE MaxNumber
  IN f[n]

Reading(v, p) == IF v \in -MaxNumber..(MaxNumber - 1) THEN Got(v, p) ELSE Err("large")

(* The n low digits of v, low ones first.                                  *)
Digits(v, base, n) ==
  LET f[j \in 0..n] ==
        IF j = 0 THEN [rest |-> v, digits |-> << >>]
        ELSE LET so == f[j - 1] IN [rest   |-> so.rest \div base,
                                    digits |-> Append(so.digits, so.rest % base)]
  IN f[n].digits

-----------------------------------------------------------------------------
(* encodeAsLEB128 takes the septets of a number of n bytes, extended by    *)
(* its sign (encodeAsLEB128NoOptimization), and drops superfluous ones     *)
(* from the end, but never the first: zeros, or, of a signed number,       *)
(* copies of the sign that the septet before ends with.  All but the last  *)
(* that is kept are marked as having another after them.                   *)
Superfluous(s, i, signed, negative) ==
  IF signed THEN s[i] = (IF negative THEN 127 ELSE 0) /\ (s[i - 1] >= 64) = negative
            ELSE s[i] = 0

Encode(v, n, signed) ==
  LET s == Digits(v, 128, (8 * n + 6) \div 7)
      kept == Least({ k \in 1..Len(s) :
                \A i \in (k + 1)..Len(s) : Superfluous(s, i, signed, v < 0) })
  IN [i \in 1..kept |-> IF i < kept THEN s[i] + 128 ELSE s[i]]

UintToLeb(v) ==
  Encode(v, IF v >= 2^24 THEN 4 ELSE IF v >= 2^16 THEN 3 ELSE IF v >= 2^8 THEN 2 ELSE 1,
         FALSE)

IntToLeb(v) == IF v >= 0 THEN UintToLeb(v) ELSE Encode(v, 4, TRUE)

(* decodeLEB128 with the assertion of its callers that the bytes fit the   *)
(* variable. A signed number takes a byte for its last bits, an unsigned   *)
(* one only if there are any.                                              *)
NumBytes(septets, last, signed) ==
  LET full == (7 * septets) \div 8
      rest == (7 * septets) % 8
  IN IF rest = 0 \/ (~signed /\ full > 0 /\ last \div 2^(7 - rest) = 0)
     THEN full ELSE full + 1

DecodeSeptets(s, signed, size, next) ==
  IF NumBytes(Len(s), Last(s), signed) > size THEN Err("assertion")
  ELSE Reading(Number([j \in DOMAIN s |-> s[j] % 128], 128,
                      IF signed /\ Last(s) >= 64 THEN -1 ELSE 0), next)

Decode(s, p, signed, size) ==
  LET end == SelectInSubSeq(s, p, Len(s), LAMBDA octet : octet < 128)
  IN IF end = 0 THEN Err("beyond")
     ELSE DecodeSeptets(SubSeq(s, p, end), signed, size, end + 1)

-----------------------------------------------------------------------------
(* Numbers of n bytes, low ones first, as memcpy moves them.               *)
Fixed(v, n) == Digits(v, 256, n)

ReadFixed(s, p, n, signed) ==
  IF p + n - 1 > Len(s) THEN Err("beyond")
  ELSE Reading(Number(SubSeq(s, p, p + n - 1), 256,
                      IF signed /\ s[p + n - 1] >= 128 THEN -1 ELSE 0), p + n)
===============================================================================
