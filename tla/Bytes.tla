-------------------------------- MODULE Bytes --------------------------------
(***************************************************************************)
(* Byte sequences, indexed as the Rust slices they stand for: offsets      *)
(* count from 0, At(s, i) is s[i] and Slice(s, i, j) is &s[i..j].          *)
(* A byte is its numeric value.                                            *)
(***************************************************************************)
EXTENDS Integers, Sequences

Byte == 0 .. 255
SOH == 1
EQUALS == 61
Digit == 48 .. 57

At(s, i) == s[i + 1]
Slice(s, i, j) == SubSeq(s, i + 1, j)

Lesser(m, n) == IF m <= n THEN m ELSE n
Least(S) == CHOOSE n \in S : \A m \in S : n <= m

\* pat is found in s at offset i, whole.
Matches(s, i, pat) ==
  /\ i + Len(pat) <= Len(s)
  /\ \A j \in 1 .. Len(pat) : s[i + j] = pat[j]

Positions(s, from, to, b) == {i \in from .. to - 1 : At(s, i) = b}

AllDigits(s) == \A i \in 1 .. Len(s) : s[i] \in Digit

\* The number a sequence of digits spells, base 10.
Number(digits) ==
  LET value[n \in 0 .. Len(digits)] ==
        IF n = 0 THEN 0 ELSE 10 * value[n - 1] + (digits[n] - 48)
  IN  value[Len(digits)]

\* The u8 wrapping sum of a sequence of bytes.
Checksum(s) ==
  LET sum[n \in 0 .. Len(s)] ==
        IF n = 0 THEN 0 ELSE (sum[n - 1] + s[n]) % 256
  IN  sum[Len(s)]
=============================================================================
