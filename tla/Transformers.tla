---------------------------- MODULE Transformers ----------------------------
(***************************************************************************)
(* The transformers of src/src/transformers, on bytes.  transform() takes  *)
(* a buffer to the list of those to send, restore() one that has arrived   *)
(* to those it stands for; a random byte is FILL.                          *)
(***************************************************************************)
EXTENDS Bytes, Fragmentation

FILL == 165
Filled(n) == [i \in 1..n |-> FILL]

-----------------------------------------------------------------------------
(* caesar.ts *)

TransformByte(i, key) == (i + key) % 256

RestoreByte(i, key) == (IF i - key < 0 THEN i - key + 256 ELSE i - key) % 256

CaesarTransform(key, b) == <<[i \in DOMAIN b |-> TransformByte(b[i], key)]>>
CaesarRestore(key, b) == <<[i \in DOMAIN b |-> RestoreByte(b[i], key)]>>

-----------------------------------------------------------------------------
(* encryptionShaper.ts *)

\* The cipher of aes-js, in the mode of operation CBC: what counts is that it takes
\* whole chunks, and that each of them depends on the one before.
CbcEncrypt(key, iv, chunks) ==
  LET cipher[i \in 0..Len(chunks)] ==
        IF i = 0 THEN iv
        ELSE [j \in 1..CHUNK_SIZE |-> (chunks[i][j] + cipher[i - 1][j] + key) % 256]
  IN  [i \in DOMAIN chunks |-> cipher[i]]

CbcDecrypt(key, iv, chunks) ==
  [i \in DOMAIN chunks |-> [j \in 1..CHUNK_SIZE |->
     (chunks[i][j] - (IF i = 1 THEN iv ELSE chunks[i - 1])[j] - key) % 256]]

\* The length, the contents, and what fills up the last chunk.
Plaintext(b) ==
  LET framed == EncodeShort(Len(b)) \o b
      remainder == Len(framed) % CHUNK_SIZE
  IN  IF remainder = 0 THEN framed ELSE framed \o Filled(CHUNK_SIZE - remainder)

Encrypt(key, iv, b) == Concat(CbcEncrypt(key, iv, Chunk(Plaintext(b), CHUNK_SIZE)))

\* Fault: the padding is not cut off.
DecryptPadded(key, iv, ciphertext) ==
  Split(Concat(CbcDecrypt(key, iv, Chunk(ciphertext, CHUNK_SIZE))), 2)[2]

Decrypt(key, iv, ciphertext) ==
  LET parts == Split(Concat(CbcDecrypt(key, iv, Chunk(ciphertext, CHUNK_SIZE))), 2)
      length == DecodeShort(parts[1])
  IN  IF Len(parts[2]) > length THEN Split(parts[2], length)[1] ELSE parts[2]

EncryptionTransform(key, b) == <<Filled(IV_SIZE) \o Encrypt(key, Filled(IV_SIZE), b)>>

EncryptionRestore(key, b) ==
  LET parts == Split(b, IV_SIZE) IN <<Decrypt(key, parts[1], parts[2])>>

-----------------------------------------------------------------------------
(* fragment.ts and fragmentationShaper.ts *)

EncodeFragment(f) ==
  Concat(<<EncodeShort(f.length), f.id, <<Truncated(f.index)>>, <<Truncated(f.count)>>,
           f.payload, f.padding>>)

\* The remaining bytes have to be more than the length; that of the whole buffer is what
\* is compared with it otherwise.
DecodeFragment(b) ==
  LET parts == Parse(b, <<2, 32, 1, 1>>)
      length == DecodeShort(parts[1])
      cut == IF Len(parts[5]) > length THEN Split(parts[5], length) ELSE <<parts[5], <<>>>>
  IN  IF parts = <<>> \/ (Len(parts[5]) <= length /\ Len(b) # length) THEN <<>>
      ELSE <<[length |-> length, id |-> parts[2], index |-> parts[3][1],
              count |-> parts[4][1], payload |-> cut[1], padding |-> cut[2]]>>

\* makeFragments_, with the bytes.
Fragments(maxLength, b) ==
  LET lengths == MakeFragments(maxLength, Len(b))[Len(b)]
      cut[i \in 0..Len(lengths)] == IF i = 0 THEN 0 ELSE cut[i - 1] + lengths[i]
  IN  [i \in DOMAIN lengths |->
        [length |-> lengths[i], id |-> Filled(32), index |-> i - 1, count |-> Len(lengths),
         payload |-> Take(Drop(b, cut[i - 1]), lengths[i]),
         padding |-> Filled(FillSize(lengths[i]))]]

FragmentationTransform(maxLength, b) ==
  LET fs == Fragments(maxLength, b) IN [i \in DOMAIN fs |-> EncodeFragment(fs[i])]

\* getComplete of defragmenter.ts, once all the pieces of a packet are there.
Reassemble(fs) ==
  Concat([i \in 1..Len(fs) |-> (CHOOSE f \in Range(fs) : f.index = i - 1).payload])

FragmentationRestore(bs) ==
  LET fs == [i \in DOMAIN bs |-> DecodeFragment(bs[i])]
  IN  IF \E i \in DOMAIN fs : fs[i] = <<>> THEN <<>>
      ELSE IF Len(fs) # fs[1][1].count THEN <<>>
      ELSE <<Reassemble([i \in DOMAIN fs |-> fs[i][1]])>>

-----------------------------------------------------------------------------
(* arithmetic.ts and decompressionShaper.ts *)

\* By halves, which keeps the recursion shallow: the sums of so many items from each place on.
SumOf(items) ==
  LET sum[size \in 0..Len(items)] ==
        [from \in 1..(Len(items) - size + 1) |->
          LET half == size \div 2
          IN  CASE size = 0 -> 0
                [] size = 1 -> items[from]
                [] OTHER -> sum[half][from] + sum[size - half][from + half]]
  IN  sum[Len(items)][1]

\* The divisor is a fraction.
Scale(items, over, under) ==
  [i \in DOMAIN items |->
    LET scaled == (items[i] * under) \div over IN IF scaled = 0 THEN 1 ELSE scaled]

\* A number up to 256 is 1 after eight halvings.
Halve(probs) ==
  LET halved[n \in 0..8] ==
        LET before == halved[n - 1]
        IN  IF n = 0 THEN probs ELSE IF SumOf(before) < 16384 THEN before ELSE Scale(before, 2, 1)
  IN  halved[8]

AdjustProbs(probs) ==
  LET highest == Max(Range(probs))
  IN  Halve(IF highest > 255 THEN Scale(probs, highest, 256) ELSE probs)

SampleFrequencies == [i \in 1..256 |-> 1]

\* intervals_ of sampleConfig(): the interval of a symbol begins at the symbol and is 1
\* long.  The range is then a power of 2 all along, and the coders keep its exponent:
\* 31 is TOP_VALUE.  A symbol takes the 256th part of it, the last symbol as well.
IntervalLow == [symbol \in 0..255 |-> SumOf(SubSeq(SampleFrequencies, 1, symbol))]
TOP == 31
SHIFT_BITS == 23
EXTRA_BITS == 7
BOTTOM == TOP - 8

\* A range is 1 or more: three shifts take it above the bottom.
SHIFTS == 3

Repeated(byte, n) == [i \in 1..n |-> byte]

\* Cases B, C and D of the comment; 2^31 is the carry.  The ranges of the uniform table
\* fit together so well that C, the carry, is for other tables.
ShiftEncoder(e) ==
  LET shifted == [e EXCEPT !.high = @ + 8, !.low = (@ % 2^SHIFT_BITS) * 2^8]
      digit == Bits(e.low, SHIFT_BITS, 8)
  IN  IF e.low < 255 * 2^SHIFT_BITS
      THEN [shifted EXCEPT !.output = Append(@, e.working) \o Repeated(255, e.underflow),
                           !.underflow = 0, !.working = digit]
      ELSE IF e.low \div 2^30 >= 2
      THEN [shifted EXCEPT !.output = Append(@, Truncated(e.working + 1))
                                      \o Repeated(0, e.underflow),
                           !.underflow = 0, !.working = digit]
      ELSE [shifted EXCEPT !.underflow = @ + 1]

RenormalizeEncoder(e) ==
  LET after[n \in 0..SHIFTS] ==
        LET before == after[n - 1]
        IN  IF n = 0 THEN e ELSE IF before.high > BOTTOM THEN before ELSE ShiftEncoder(before)
  IN  after[SHIFTS]

\* encodeSymbol_ of the next byte.
EncodeSymbol(e) ==
  LET r == RenormalizeEncoder(e)
  IN  [r EXCEPT !.low = @ + 2^(r.high - 8) * IntervalLow[Head(r.input)], !.high = @ - 8,
                !.input = Tail(@)]

\* A symbol is a byte of the input, until there are none.
EncodeSymbols(e) ==
  LET after[n \in 0..Len(e.input)] ==
        LET before == after[n - 1]
        IN  IF n = 0 THEN e ELSE IF before.input = <<>> THEN before ELSE EncodeSymbol(before)
  IN  after[Len(e.input)]

\* flush_: the working byte, the digits it holds back, two bytes of the state, and the
\* length, whose second byte counts the first one.
FlushEncoder(e) ==
  LET r == RenormalizeEncoder(e)
      digit == r.low \div 2^SHIFT_BITS
      written == r.output
        \o (IF digit > 255 THEN <<Truncated(r.working + 1)>> \o Repeated(0, r.underflow)
            ELSE <<r.working>> \o Repeated(255, r.underflow))
        \o <<Truncated(digit), Bits(r.low, SHIFT_BITS - 8, 8)>>
  IN  written \o <<Bits(Len(written), 8, 8), Truncated(Len(written) + 1)>>

Encode(b) ==
  FlushEncoder(EncodeSymbols(
    [low |-> 0, high |-> TOP, working |-> 202, underflow |-> 0, input |-> b, output |-> <<>>]))

ShiftDecoder(d) ==
  LET next == IF d.input = <<>> THEN 0 ELSE Head(d.input)
  IN  [d EXCEPT !.high = @ + 8, !.working = next,
                !.input = IF @ = <<>> THEN @ ELSE Tail(@),
                !.low = @ * 2^8 + Truncated(d.working * 2^EXTRA_BITS)
                        + next \div 2^(8 - EXTRA_BITS)]

RenormalizeDecoder(d) ==
  LET after[n \in 0..SHIFTS] ==
        LET before == after[n - 1]
        IN  IF n = 0 THEN d ELSE IF before.high > BOTTOM THEN before ELSE ShiftDecoder(before)
  IN  after[SHIFTS]

\* decodeSymbol_ and update_.
DecodeSymbol(d) ==
  LET r == RenormalizeDecoder(d)
      symbol == Min({255, r.low \div 2^(r.high - 8)})
  IN  [r EXCEPT !.output = Append(@, symbol), !.high = @ - 8,
                !.low = @ - 2^(r.high - 8) * IntervalLow[symbol]]

\* A symbol takes a byte of the input or more, until there are none.
DecodeSymbols(d) ==
  LET after[n \in 0..Len(d.input)] ==
        LET before == after[n - 1]
        IN  IF n = 0 THEN d ELSE IF before.input = <<>> THEN before ELSE DecodeSymbol(before)
  IN  after[Len(d.input)]

\* The first byte is discarded, the second one the first to work on; flush_ decodes one
\* symbol more.
Decode(b) ==
  LET init == [low |-> b[2] \div 2^(8 - EXTRA_BITS), high |-> EXTRA_BITS, working |-> b[2],
               underflow |-> 0, input |-> SubSeq(b, 3, Len(b)), output |-> <<>>]
  IN  RenormalizeDecoder(DecodeSymbol(DecodeSymbols(init))).output

\* transform() decodes: it is a decompression.
DecompressionTransform(b) ==
  LET decoded == Decode(Concat(<<<<202>>, b, <<0, 0>>, EncodeShort(Len(b))>>))
  IN  <<Take(decoded, Len(decoded) - 2)>>

DecompressionRestore(b) == LET e == Encode(b) IN <<SubSeq(e, 2, Len(e) - 4)>>

-----------------------------------------------------------------------------
(* byteSequenceShaper.ts *)

MakePacket(model) ==
  Filled(model.offset) \o model.sequence
  \o (IF model.offset < model.length
      THEN Filled(model.length - (model.offset + Len(model.sequence))) ELSE <<>>)

\* findMatchingPacket_: slice() is given the length of the sequence as its end.
Matches(b, model) == SubSeq(b, model.offset + 1, Min({Len(model.sequence), Len(b)})) = model.sequence

SequenceRestore(models, b) == IF \E m \in models : Matches(b, m) THEN <<>> ELSE <<b>>

-----------------------------------------------------------------------------
(* protean.ts *)

FlatMap(bs, Each(_)) == Concat([i \in DOMAIN bs |-> Each(bs[i])])

ProteanTransform(key, maxLength, b) ==
  LET Encrypted(x) == EncryptionTransform(key, x)
  IN  FlatMap(FlatMap(FragmentationTransform(maxLength, b), Encrypted), DecompressionTransform)

\* Of all the buffers of a packet.
ProteanRestore(key, models, bs) ==
  LET Extracted(x) == SequenceRestore(models, x)
      Decrypted(x) == EncryptionRestore(key, x)
  IN  FragmentationRestore(FlatMap(FlatMap(FlatMap(bs, Extracted), DecompressionRestore), Decrypted))
=============================================================================
