------------------------------- MODULE Codecs -------------------------------
(***************************************************************************)
(* One end encodes, the other decodes what it was sent: every transformer  *)
(* and every message of Transformers and Messages, over bounded inputs.    *)
(* The buffers of a packet may come in the reverse of their order.         *)
(***************************************************************************)
EXTENDS Transformers, Messages

CONSTANTS
  Sizes,           \* the sizes of payloads
  Keys,            \* of the ciphers
  maxLength,       \* of FragmentationConfig
  Ports, NameSizes, ValueSizes, Numbers

ASSUME NumbersAssumption == Sizes \cup Numbers \subseteq Nat
ASSUME KeysAssumption == Keys \subseteq 0..255
ASSUME PortsAssumption == \A port \in Ports : port \in Nat /\ port < 65536

\* One byte holds the length of a name, two that of a value.
ASSUME NamesAssumption == NameSizes \subseteq 1..255
ASSUME ValuesAssumption == \A size \in ValueSizes : size \in Nat /\ size < 65536

ASSUME CodecsAssumption ==
  maxLength \in Nat /\ maxLength > HEADER_SIZE + IV_SIZE + CHUNK_SIZE /\ maxLength < 65536

\* Two bytes hold a length, one the count of the fragments.
Fits(size) == size < 65536 /\ Len(MakeFragments(maxLength, size)[size]) < 256
ASSUME SizesAssumption == \A size \in Sizes : Fits(size)

VARIABLES codec, input, wire, output, step
vars == <<codec, input, wire, output, step>>

Ramp(size, from, slope) == [i \in 1..size |-> (from + i * slope) % 256]
Payloads == {Ramp(size, from, slope) : size \in Sizes, from \in {0, 255}, slope \in {0, 1, 37}}

Transforming == {"caesar", "encryption", "fragmentation", "decompression", "sequence", "protean"}

\* sampleConfig() of byteSequenceShaper.ts: "OH HELLO" at the start of 256 bytes.
SampleSequence == [offset |-> 0, length |-> 256, sequence |-> <<79, 72, 32, 72, 69, 76, 76, 79>>]

Names == {Ramp(size, 97, 1) : size \in NameSizes}
Endpoints ==
  [type : {IP_V4}, address : {<<0, 0, 0, 0>>, <<192, 168, 255, 1>>}, port : Ports]
  \cup [type : {IP_V6}, address : {<<0, 0, 0, 0, 0, 0, 0, 1>>, <<8193, 255, 256, 65535, 0, 1, 2, 3>>},
        port : Ports]
  \cup [type : {DNS}, address : Names, port : Ports]

\* No attribute of these types is the one that holds the hash.
Attributes == [type : {6, 9, 61183}, value : {Ramp(size, 200, 1) : size \in ValueSizes}]
StunMessages ==
  [method : Methods, clazz : Classes, transactionId : {Ramp(12, 7, 20)},
   attributes : {<<>>} \cup {<<a>> : a \in Attributes} \cup {<<a, b>> : a, b \in Attributes}]

Candidates ==
  [foundation : {"1"}, component : {1, 2}, protocol : {"udp", "tcp", "UDP"}, priority : Numbers,
   ip : {"10.0.0.1"}, port : Ports, type : {"host", "srflx"},
   related : {<<>>} \cup {<<r>> : r \in [address : {"10.0.0.2"}, port : Ports]},
   extensions : {<<>>, <<<<"generation", "0">>>>, <<<<"generation", "0">>, <<"ufrag", "x">>>>}]

\* All alike, rising, and one that exceeds the rest.
Tables ==
  {Repeated(n, 256) : n \in Numbers \ {0}} \cup {[i \in 1..256 |-> i * n] : n \in Numbers \ {0}}
    \cup {[i \in 1..256 |-> IF i = 1 THEN n ELSE 1] : n \in Numbers \ {0}}

Init ==
  /\ step = "encode" /\ wire = <<>> /\ output = <<>>
  /\ \/ codec \in Transforming /\ input \in [key : Keys, data : Payloads]
     \/ codec = "frequencies" /\ input \in Tables
     \/ codec = "hex" /\ input \in Payloads
     \/ codec = "auth" /\ input \in {<<>>, <<0>>, <<2>>, <<1, 2>>, <<2, 0>>, <<0, 1, 2>>}
     \/ codec = "choice" /\ input \in {NOAUTH, 255}
     \/ codec = "request" /\ input \in [command : Range(<<1, 2, 3>>), endpoint : Endpoints]
     \/ codec = "response" /\ input \in [reply : Replies, endpoint : {<<>>} \cup {<<e>> : e \in Endpoints}]
     \/ codec = "udp" /\ input \in [frag : {0, 1}, endpoint : Endpoints, data : {<<1, 2, 3>>, Ramp(20, 0, 3)}]
     \/ codec \in {"stun", "integrity"} /\ input \in StunMessages
     \/ codec = "address" /\ input \in [address : {<<0, 0, 0, 0>>, <<192, 168, 255, 1>>}, port : Ports]
     \/ codec = "candidate" /\ input \in Candidates

Encoded ==
  CASE codec = "caesar" -> CaesarTransform(input.key, input.data)
    [] codec = "encryption" -> EncryptionTransform(input.key, input.data)
    [] codec = "fragmentation" -> FragmentationTransform(maxLength, input.data)
    [] codec = "decompression" -> DecompressionTransform(input.data)
    [] codec = "sequence" -> <<MakePacket(SampleSequence), input.data>>
    [] codec = "protean" -> <<MakePacket(SampleSequence)>>
                            \o ProteanTransform(input.key, maxLength, input.data)
    [] codec = "frequencies" -> <<AdjustProbs(input)>>
    [] codec = "hex" -> <<ArrayBufferToHexString(input)>>
    [] codec = "auth" -> ComposeAuthHandshake(input)
    [] codec = "choice" -> <<ComposeAuthResponse(input)>>
    [] codec = "request" -> <<ComposeRequest(input)>>
    [] codec = "response" -> <<ComposeResponse(input)>>
    [] codec = "udp" -> <<<<0, 0, input.frag>> \o ComposeDestination(input.endpoint) \o input.data>>
    [] codec = "stun" -> <<FormatStunMessage(input)>>
    [] codec = "integrity" -> <<FormatStunMessageWithIntegrity(input)>>
    [] codec = "address" -> <<FormatXorMappedAddress(input)>>
    [] codec = "candidate" -> <<ToRTCIceCandidate(input)>>

OfSequence(b) == SequenceRestore({SampleSequence}, b)

Decoded ==
  CASE codec = "caesar" -> CaesarRestore(input.key, wire[1])
    [] codec = "encryption" -> EncryptionRestore(input.key, wire[1])
    [] codec = "fragmentation" -> FragmentationRestore(wire)
    [] codec = "decompression" -> DecompressionRestore(wire[1])
    [] codec = "sequence" -> FlatMap(wire, OfSequence)
    [] codec = "protean" -> ProteanRestore(input.key, {SampleSequence}, wire)
    [] codec = "frequencies" -> wire
    [] codec = "hex" -> <<HexStringToArrayBuffer(wire[1])>>
    [] codec = "auth" -> IF wire = <<>> THEN Fails ELSE InterpretAuthHandshake(wire[1])
    [] codec = "choice" -> InterpretAuthResponse(wire[1])
    [] codec = "request" -> InterpretRequest(wire[1])
    [] codec = "response" -> InterpretResponse(wire[1])
    [] codec = "udp" -> InterpretUdpMessage(wire[1])
    [] codec = "stun" -> ParseStunMessage(wire[1])
    [] codec = "integrity" ->
         FindFirstAttributeWithType(MESSAGE_INTEGRITY, ParseStunMessage(wire[1])[1].attributes)
    [] codec = "address" -> ParseXorMappedAddress(wire[1])
    [] codec = "candidate" -> FromRTCIceCandidate(wire[1])

Send ==
  /\ step = "encode" /\ step' = "decode"
  /\ wire' = Encoded
  /\ UNCHANGED <<codec, input, output>>

Reorder ==
  /\ step = "decode" /\ codec \in Transforming /\ Len(wire) > 1
  /\ step' = "reordered" /\ wire' = Reverse(wire)
  /\ UNCHANGED <<codec, input, output>>

Receive ==
  /\ step \in {"decode", "reordered"} /\ step' = "done"
  /\ output' = Decoded
  /\ UNCHANGED <<codec, input, wire>>

Next == Send \/ Reorder \/ Receive
Spec == Init /\ [][Next]_vars

-----------------------------------------------------------------------------
(* Properties *)

\* restore() gives back what transform() was given, whatever the padding, the bytes the
\* arithmetic coder holds back and the order of the fragments; a fragment, encrypted, is at most
\* maxLength long but for the chunk the length in front of it may take; and a table of
\* frequencies is scaled so that the coder has the bits for it.
TransformersInvert ==
  /\ step = "done" /\ codec \in Transforming => output = <<input.data>>
  /\ step = "decode" /\ codec = "fragmentation" =>
       \A i \in DOMAIN wire : Len(wire[i]) + IV_SIZE <= maxLength
  /\ step = "decode" /\ codec = "protean" =>
       \A i \in 2..Len(wire) : Len(wire[i]) <= maxLength + CHUNK_SIZE
  /\ step = "decode" /\ codec = "frequencies" =>
       Range(wire[1]) \subseteq 1..256 /\ SumOf(wire[1]) < 16384

Understood ==
  CASE codec = "auth" -> IF NOAUTH \in Range(input) THEN <<input>> ELSE Fails
    [] codec = "request" ->
         IF input.command = Commands.TCP_BIND \/ Len(input.endpoint.address) = 1 THEN Fails
         ELSE <<input>>
    [] codec = "response" ->
         <<[reply |-> input.reply,
            endpoint |-> IF input.endpoint = <<>> THEN NoEndpoint ELSE input.endpoint[1]]>>
    [] codec = "udp" ->
         IF input.frag # 0 THEN Fails ELSE <<[endpoint |-> input.endpoint, data |-> input.data]>>
    [] codec = "integrity" -> <<[type |-> MESSAGE_INTEGRITY, value |-> ComputeHash(wire[1])]>>
    [] codec = "candidate" -> <<[input EXCEPT !.protocol = Lower(@)]>>
    [] OTHER -> <<input>>

\* The getter, the giver, the clients of both servers and the two ends of the signalling
\* read in a message what was put into it, or refuse it as a whole: no length, padding,
\* bit of a method or optional part shifts what follows it.
MessagesUnderstood ==
  step = "done" /\ codec \notin Transforming \cup {"frequencies"} => output = Understood
=============================================================================
