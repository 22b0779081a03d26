------------------------------ MODULE Messages ------------------------------
(***************************************************************************)
(* The messages the ends exchange, on bytes: SOCKS 5 (socks-headers.ts of  *)
(* src/src/socks-common), STUN (messages.ts of src/src/turn) and the lines *)
(* of ICE candidates (candidate.ts of src/src/churn).  What throws yields  *)
(* <<>>, and what does not, a sequence of one value.                       *)
(***************************************************************************)
EXTENDS Bytes

Fails == <<>>

-----------------------------------------------------------------------------
(* SOCKS *)

VERSION5 == 5
NOAUTH == 0
Commands == [TCP_CONNECT |-> 1, TCP_BIND |-> 2, UDP_ASSOCIATE |-> 3]
IP_V4 == 1
DNS == 3
IP_V6 == 4
SUCCEEDED == 0
Replies == SUCCEEDED..9

\* The strings of addresses are those of ipaddr.js: here an address is its type and its
\* octets, its shorts, or the codes of its characters.
IsValidEndpoint(e) == 0 <= e.port /\ e.port <= 65535
IsValidRequest(r) == r.command \in Range(<<1, 2, 3>>) /\ IsValidEndpoint(r.endpoint)
IsValidResponse(r) == r.reply \in Replies /\ IsValidEndpoint(r.endpoint)

ComposeAuthHandshake(auths) ==
  IF auths = <<>> THEN Fails ELSE <<<<VERSION5, Len(auths)>> \o auths>>

InterpretAuthHandshake(b) ==
  LET methods == SubSeq(b, 3, 2 + b[2])
  IN  IF b[1] # VERSION5 \/ NOAUTH \notin Range(methods) THEN Fails ELSE <<methods>>

ComposeAuthResponse(auth) == <<VERSION5, auth>>
InterpretAuthResponse(b) == IF Len(b) # 2 \/ b[1] # VERSION5 THEN Fails ELSE <<b[2]>>

Shorts(b) == [i \in 1..(Len(b) \div 2) |-> DecodeShort(SubSeq(b, 2 * i - 1, 2 * i))]
ShortBytes(parts) == [i \in 1..(2 * Len(parts)) |-> EncodeShort(parts[(i + 1) \div 2])[2 - (i % 2)]]

AddressSize(b) ==
  CASE b[1] = IP_V4 -> 4 [] b[1] = IP_V6 -> 16 [] b[1] = DNS -> b[2] [] OTHER -> 0

\* Fault: the length byte of a name is taken for one of its characters.
InterpretDestinationShort(b) ==
  LET size == AddressSize(b)
      address == SubSeq(b, 2, size + 1)
  IN  <<[endpoint |-> [type |-> b[1],
                       address |-> IF b[1] = IP_V6 THEN Shorts(address) ELSE address,
                       port |-> DecodeShort(SubSeq(b, size + 2, size + 3))],
         addressByteLength |-> size + 3]>>

InterpretDestination(b) ==
  LET size == AddressSize(b)
      from == IF b[1] = DNS THEN 3 ELSE 2
      address == SubSeq(b, from, from + size - 1)
  IN  IF b[1] \notin {IP_V4, DNS, IP_V6} THEN Fails
      ELSE <<[endpoint |-> [type |-> b[1],
                            address |-> IF b[1] = IP_V6 THEN Shorts(address) ELSE address,
                            port |-> DecodeShort(SubSeq(b, from + size, from + size + 1))],
              addressByteLength |-> from + size + 1]>>

\* makeDestinationFromEndpoint and composeDestination.
ComposeDestination(e) ==
  <<e.type>>
  \o (CASE e.type = IP_V4 -> e.address
        [] e.type = IP_V6 -> ShortBytes(e.address)
        [] e.type = DNS -> <<Truncated(Len(e.address))>> \o e.address)
  \o EncodeShort(e.port)

ComposeRequest(r) == <<VERSION5, r.command, 0>> \o ComposeDestination(r.endpoint)

\* TCP_BIND is a command nobody serves.
InterpretRequest(b) ==
  IF Len(b) < 9 \/ b[1] # VERSION5 \/ b[2] \notin {Commands.TCP_CONNECT, Commands.UDP_ASSOCIATE}
  THEN Fails
  ELSE LET d == InterpretDestination(Drop(b, 3))
           r == [command |-> b[2], endpoint |-> d[1].endpoint]
       IN  IF d = Fails \/ ~IsValidRequest(r) THEN Fails ELSE <<r>>

InterpretUdpMessage(b) ==
  IF Len(b) < 10 THEN Fails
  ELSE LET d == InterpretDestination(Drop(b, 3))
       IN  IF d = Fails \/ b[3] # 0 THEN Fails
           ELSE <<[endpoint |-> d[1].endpoint, data |-> Drop(b, 3 + d[1].addressByteLength)]>>

NoEndpoint == [type |-> IP_V4, address |-> <<0, 0, 0, 0>>, port |-> 0]

\* The endpoint of a response is left out, or there.
ComposeResponse(r) ==
  <<VERSION5, r.reply, 0>>
  \o ComposeDestination(IF r.endpoint = <<>> THEN NoEndpoint ELSE r.endpoint[1])

InterpretResponse(b) ==
  LET d == InterpretDestination(Drop(b, 3))
      r == [reply |-> b[2], endpoint |-> d[1].endpoint]
  IN  IF b[1] # VERSION5 \/ d = Fails \/ ~IsValidResponse(r) THEN Fails ELSE <<r>>

-----------------------------------------------------------------------------
(* STUN *)

Methods == {1, 3, 4, 6, 7, 8, 9}
Classes == {"REQUEST", "SUCCESS_RESPONSE", "FAILURE_RESPONSE", "INDICATION"}
MESSAGE_INTEGRITY == 8
MagicCookie == <<33, 18, 164, 66>>

CalculatePadding(x, b) == ((x + b - 1) \div b) * b

FormatStunAttribute(a) ==
  EncodeShort(a.type) \o EncodeShort(Len(a.value)) \o a.value
  \o [i \in 1..(CalculatePadding(Len(a.value), 4) - Len(a.value)) |-> 0]

\* A value of no bytes is no value.
ParseStunAttribute(b) ==
  IF Len(b) < 4 THEN Fails
  ELSE <<[type |-> DecodeShort(b), value |-> Take(Drop(b, 4), DecodeShort(Drop(b, 2)))]>>

\* | and ^ of two bytes.
OfBits(x, y, Holds(_, _)) ==
  LET Bit(i) == IF Holds(Bits(x, i, 1) = 1, Bits(y, i, 1) = 1) THEN 2^i ELSE 0
  IN  Bit(0) + Bit(1) + Bit(2) + Bit(3) + Bit(4) + Bit(5) + Bit(6) + Bit(7)
Or(x, y) == OfBits(x, y, LAMBDA p, q : p \/ q)
Xor(x, y) == OfBits(x, y, LAMBDA p, q : p # q)

\* Bits 4 to 6 of the method are there twice, where they were and one to the left; those
\* above are lost: a byte has no room for the mask 0x3e00.
FormatType(method, clazz) ==
  <<IF clazz \in {"SUCCESS_RESPONSE", "FAILURE_RESPONSE"} THEN 1 ELSE 0,
    Or(Or(Truncated(method), 32 * Bits(method, 4, 3)),
       IF clazz \in {"INDICATION", "FAILURE_RESPONSE"} THEN 16 ELSE 0)>>

ParseClass(b) ==
  LET c1 == Bits(b[1], 0, 1) = 1
      c0 == Bits(b[2], 4, 1) = 1
  IN  CASE c1 /\ c0 -> "FAILURE_RESPONSE" [] c1 /\ ~c0 -> "SUCCESS_RESPONSE"
        [] ~c1 /\ c0 -> "INDICATION" [] OTHER -> "REQUEST"

ParseMethod(b) == (b[2] % 16) + 16 * Bits(b[2], 5, 3) + 128 * Bits(b[1], 1, 5)

FormatStunMessage(m) ==
  LET attributes == Concat([i \in DOMAIN m.attributes |-> FormatStunAttribute(m.attributes[i])])
  IN  FormatType(m.method, m.clazz) \o EncodeShort(Len(attributes)) \o MagicCookie
      \o m.transactionId \o attributes

\* The attributes up to the end of the buffer: the length field is not read.
ParseAttributes(b) ==
  LET parsed[from \in 0..(Len(b) + 3)] ==
        LET a == ParseStunAttribute(Drop(b, from))
        IN  IF from >= Len(b) THEN <<>>
            ELSE IF a = Fails THEN <<Fails>>
            ELSE a \o parsed[from + 4 + CalculatePadding(Len(a[1].value), 4)]
  IN  parsed[0]

ParseStunMessage(b) ==
  LET attributes == ParseAttributes(Drop(b, 20))
  IN  IF Len(b) < 20 \/ b[1] >= 64 \/ SubSeq(b, 5, 8) # MagicCookie \/ Fails \in Range(attributes)
      THEN Fails
      ELSE <<[method |-> ParseMethod(b), clazz |-> ParseClass(b),
              transactionId |-> SubSeq(b, 9, 20), attributes |-> attributes]>>

\* HMAC-SHA1: twenty bytes that depend on all that is hashed.
Hmac(b) ==
  LET digest[i \in 0..Len(b)] == IF i = 0 THEN 7 ELSE (digest[i - 1] * 31 + b[i]) % 65521
  IN  [i \in 1..20 |-> (digest[Len(b)] \div i) % 256]

ComputeHash(b) == Hmac(Take(b, Len(b) - 24))

FormatStunMessageWithIntegrity(m) ==
  LET b == FormatStunMessage([m EXCEPT !.attributes =
             Append(@, [type |-> MESSAGE_INTEGRITY, value |-> [i \in 1..20 |-> 0]])])
  IN  Take(b, Len(b) - 20) \o ComputeHash(b)

FormatMappedAddress(e) == <<0, 1>> \o EncodeShort(e.port) \o e.address
ParseMappedAddress(b) ==
  IF Len(b) < 8 \/ b[1] # 0 \/ b[2] # 1 THEN Fails
  ELSE <<[address |-> SubSeq(b, 5, 8), port |-> DecodeShort(Drop(b, 2))]>>

XorAddress(b) ==
  [i \in DOMAIN b |-> CASE i \in 3..4 -> Xor(b[i], MagicCookie[i - 2])
                        [] i \in 5..8 -> Xor(b[i], MagicCookie[i - 4])
                        [] OTHER -> b[i]]

FormatXorMappedAddress(e) == XorAddress(FormatMappedAddress(e))
ParseXorMappedAddress(b) == IF Len(b) < 8 THEN Fails ELSE ParseMappedAddress(XorAddress(b))

FindFirstAttributeWithType(type, attributes) ==
  LET found == {i \in DOMAIN attributes : attributes[i].type = type}
  IN  IF found = {} THEN Fails ELSE <<attributes[Min(found)]>>

-----------------------------------------------------------------------------
(* Candidates: a line is the sequence of its tokens, a key with ":" a pair, a number *)
(* the sequence of its digits.                                                       *)

Decimal(n) ==
  LET digits[m \in 0..n] == IF m < 10 THEN <<m>> ELSE Append(digits[m \div 10], m % 10)
  IN  digits[n]
Number(token) == OfDigits(token, 10)
Lower(token) == IF token = "UDP" THEN "udp" ELSE token

\* An extension is a key and a value; the related address is there or not.
ToRTCIceCandidate(c) ==
  <<<<"candidate", c.foundation>>, Decimal(c.component), c.protocol, Decimal(c.priority),
    c.ip, Decimal(c.port), "typ", c.type>>
  \o (IF c.related = <<>> THEN <<>>
      ELSE <<"raddr", c.related[1].address, "rport", Decimal(c.related[1].port)>>)
  \o Concat(c.extensions)

FromRTCIceCandidate(tokens) ==
  LET hasRelated == Len(tokens) > 8 /\ tokens[9] = "raddr"
      rest == Drop(tokens, IF hasRelated THEN 12 ELSE 8)
  IN  IF Len(tokens) < 8 \/ tokens[7] # "typ" THEN Fails
      ELSE IF hasRelated /\ tokens[11] # "rport" THEN Fails
      ELSE <<[foundation |-> tokens[1][2], component |-> Number(tokens[2]),
              protocol |-> Lower(tokens[3]), priority |-> Number(tokens[4]),
              ip |-> tokens[5], port |-> Number(tokens[6]), type |-> tokens[8],
              related |-> IF hasRelated
                          THEN <<[address |-> tokens[10], port |-> Number(tokens[12])]>>
                          ELSE <<>>,
              extensions |-> Chunk(rest, 2)]>>
=============================================================================
