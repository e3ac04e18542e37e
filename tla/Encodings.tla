------------------------------- MODULE Encodings ------------------------------
(***************************************************************************)
(* Numbers in and around a block's bytes: Int64ToBytes of                  *)
(* src/utils/bytes_utils.go and ByteHasLeadingZeros of                     *)
(* src/utils/blockchain_utils.go.                                          *)
(*                                                                         *)
(* A byte is a number below 2^8.  Int64ToBytes is written for groups and   *)
(* arrays of any size; the code's are 7 bits and 8 bytes.                  *)
(***************************************************************************)
EXTENDS Integers, Sequences, FiniteSets, SequencesExt

PANIC == <<>>   \* instead of the bytes: the process ends

\* 1 << n
Pow2[n \in Nat] == IF n = 0 THEN 1 ELSE 2 * Pow2[n - 1]

-----------------------------------------------------------------------------
(***************************************************************************)
(* PutVarint: the sign goes to the lowest bit, then groups of bits, the    *)
(* lowest first, all but the last one marked.  Into an array of len bytes, *)
(* zero where nothing is put; a number that needs more bytes panics.       *)
(* (Faulty version: without the sign.)                                     *)
(***************************************************************************)
UnsignedOnly(i) == IF i < 0 THEN -2 * i ELSE 2 * i

ZigZag(i) == IF i < 0 THEN -2 * i - 1 ELSE 2 * i

Group(u, k, bits) == (u \div Pow2[bits * k]) % Pow2[bits]

GroupsNeeded(u, bits, max) ==
  CHOOSE n \in 1..max : u < Pow2[bits * n] /\ (n = 1 \/ u >= Pow2[bits * (n - 1)])

Int64ToBytes(i, bits, len) ==
  LET u == ZigZag(i)
  IN  IF u >= Pow2[bits * len] THEN PANIC
      ELSE LET n == GroupsNeeded(u, bits, len)
           IN  [k \in 1..len |->
                  IF k > n THEN 0
                  ELSE Group(u, k - 1, bits) + IF k < n THEN Pow2[bits] ELSE 0]

(***************************************************************************)
(* Labels of coinbases, nonces and indices of outputs go into a hash as    *)
(* such bytes: different numbers must give different bytes, as long   *)
(* as they fit, which is up to half of what the groups can count (2^55 in  *)
(* the code, though the numbers have 64 bits).                             *)
(***************************************************************************)
CodesDiffer ==
  \A bits \in 1..3, len \in 1..3 :
    LET half == Pow2[bits * len - 1]
        code == [i \in -half - 1..half |-> Int64ToBytes(i, bits, len)]
    IN  /\ \A i, j \in -half..half - 1 : i # j => code[i] # code[j]
        /\ \A i \in DOMAIN code : (code[i] = PANIC) = (i \in {-half - 1, half})

-----------------------------------------------------------------------------
(***************************************************************************)
(* ByteHasLeadingZeros: whole zero bytes, then the upper bits of the next  *)
(* byte - which is read even if no bits are asked of it.                   *)
(* (Faulty version: the lower bits.)                                       *)
(***************************************************************************)
TooShort(bytes, difficulty) == difficulty > 8 * Len(bytes)

ByteHasTrailingZeros(bytes, difficulty) ==
  LET whole == difficulty \div 8
      bits  == difficulty % 8
  IN  IF TooShort(bytes, difficulty) \/ \E i \in 1..whole : bytes[i] # 0 THEN "no"
      ELSE IF whole = Len(bytes) THEN "panic"
      ELSE IF bytes[whole + 1] % Pow2[bits] = 0 THEN "yes" ELSE "no"

ByteHasLeadingZeros(bytes, difficulty) ==
  LET whole == difficulty \div 8
      bits  == difficulty % 8
  IN  IF TooShort(bytes, difficulty) \/ \E i \in 1..whole : bytes[i] # 0 THEN "no"
      ELSE IF whole = Len(bytes) THEN "panic"
      ELSE IF bytes[whole + 1] \div Pow2[8 - bits] = 0 THEN "yes" ELSE "no"

(***************************************************************************)
(* The digest of d zero bits and more is found to have them, any other is  *)
(* not - but a difficulty of all the digest's bits panics on the one       *)
(* digest that would pass (so every lower difficulty is safe).             *)
(***************************************************************************)
Bit(bytes, k) == (bytes[(k \div 8) + 1] \div Pow2[7 - (k % 8)]) % 2

ZerosLead(bytes, d) == d <= 8 * Len(bytes) /\ \A k \in 0..d - 1 : Bit(bytes, k) = 0

RightAnswer(bytes, d) ==
  IF ~ZerosLead(bytes, d) THEN "no" ELSE IF d = 8 * Len(bytes) THEN "panic" ELSE "yes"

ZerosCounted ==
  \A bytes \in [1..2 -> {0, 1, 2, 15, 16, 64, 127, 128, 255}], d \in 0..17 :
    ByteHasLeadingZeros(bytes, d) = RightAnswer(bytes, d)
=============================================================================
