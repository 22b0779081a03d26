-------------------------------- MODULE Bytes --------------------------------
(***************************************************************************)
(* The functions of src/src/arraybuffers/arraybuffers.ts the codecs are    *)
(* built from.  An ArrayBuffer is a sequence of bytes; a list of buffers,  *)
(* a sequence of these.  What throws yields <<>>.                          *)
(***************************************************************************)
EXTENDS Integers, Sequences, SequencesExt, FiniteSetsExt

\* The numbers of 32 bits of JavaScript are not negative here, and below 2^31.
Bits(n, from, count) == (n \div 2^from) % 2^count
Truncated(n) == n % 256

\* slice(0, n) and slice(n) of a buffer.
Take(b, n) == SubSeq(b, 1, Min({n, Len(b)}))
Drop(b, n) == SubSeq(b, n + 1, Len(b))

Split(b, firstLen) == <<Take(b, firstLen), Drop(b, firstLen)>>

Concat(buffers) == FlattenSeq(buffers)

Chunk(b, size) ==
  [i \in 1..((Len(b) + size - 1) \div size) |-> Take(Drop(b, (i - 1) * size), size)]

\* A number that does not fit loses its upper bits.
EncodeShort(n) == <<(n \div 256) % 256, n % 256>>
DecodeShort(b) == b[1] * 256 + b[2]

\* The parts, and what remains; nothing when there are too few bytes.
Parse(b, lengths) ==
  LET parts[i \in 0..Len(lengths)] ==
        LET before == parts[i - 1]
        IN  IF i = 0 THEN <<b>>
            ELSE IF before = <<>> \/ Len(Last(before)) < lengths[i] THEN <<>>
            ELSE Front(before) \o Split(Last(before), lengths[i])
  IN  parts[Len(lengths)]

\* The number that is written with these digits.
OfDigits(digits, base) ==
  LET number[i \in 0..Len(digits)] ==
        IF i = 0 THEN 0 ELSE number[i - 1] * base + digits[i]
  IN  number[Len(digits)]

\* toString(16) has no leading zeros.  A string of hex codes is the sequence of them.
HexDigits(byte) == IF byte < 16 THEN <<byte>> ELSE <<byte \div 16, byte % 16>>
ArrayBufferToHexString(b) == [i \in DOMAIN b |-> HexDigits(b[i])]
HexStringToArrayBuffer(hex) == [i \in DOMAIN hex |-> Truncated(OfDigits(hex[i], 16))]

=============================================================================
