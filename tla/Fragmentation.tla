---------------------------- MODULE Fragmentation ----------------------------
(***************************************************************************)
(* How a packet is cut into fragments: makeFragments_ and fixFragments_ of *)
(* src/src/transformers/fragmentationShaper.ts.  Of a fragment this keeps  *)
(* the length of its payload and its fill; its identifier and its index    *)
(* are those of its packet and its place.                                  *)
(***************************************************************************)
EXTENDS Naturals, Sequences

HEADER_SIZE == 2 + 32 + 1 + 1
CHUNK_SIZE == 16
IV_SIZE == 16

\* Never 0: a packet that fits its chunks gets one more.
FillSize(length) == CHUNK_SIZE - ((length + HEADER_SIZE + IV_SIZE) % CHUNK_SIZE)

PacketSize(length) == length + HEADER_SIZE + IV_SIZE + FillSize(length)

\* The lengths of the payloads of a packet, for every length up to a limit.
MakeFragments(maxLength, limit) ==
  LET cut[length \in 0..limit] ==
        IF PacketSize(length) <= maxLength THEN <<length>>
        ELSE LET first == maxLength - (HEADER_SIZE + IV_SIZE + FillSize(length))
             IN  cut[first] \o cut[length - first]
  IN  cut
=============================================================================
