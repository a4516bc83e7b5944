------------------------------ MODULE Destination ------------------------------
(***************************************************************************)
(* The class of an address, and the addresses written in a host            *)
(* (libs/usd-asset-http/src/Destination.cpp).                              *)
(*                                                                         *)
(* An address is its bytes.  A dotted quad is the sequence of its parts    *)
(* [value, padded]; one side of a "::" is [groups, quad], the numbers      *)
(* between its colons and the quad that may end it.  A part that is not a  *)
(* number of the right length is NotANumber.                               *)
(***************************************************************************)
EXTENDS Integers, Sequences, SequencesExt

NotANumber == -1
NoAddress  == <<>>

AllZero(address, first, last) == \A i \in first .. last : address[i] = 0

IsMetadataIPv4(address) ==
  address \in {<<169, 254, 169, 254>>, <<169, 254, 170, 2>>, <<169, 254, 170, 23>>,
               <<169, 254, 0, 23>>, <<100, 100, 100, 200>>, <<168, 63, 129, 16>>}

\* fd00:ec2::254 and fd00:ec2::23
IsMetadataIPv6(address) ==
  /\ SubSeq(address, 1, 4) = <<253, 0, 14, 194>>
  /\ AllZero(address, 5, 14)
  /\ SubSeq(address, 15, 16) \in {<<2, 84>>, <<0, 35>>}

ClassifyIPv4(address) ==
  LET a == address[1]
      b == address[2]
  IN  IF IsMetadataIPv4(address) THEN "metadata"
      ELSE IF a \in {0, 127} THEN "loopback"
      ELSE IF a = 169 /\ b = 254 THEN "link-local"
      ELSE IF \/ a = 10
              \/ a = 172 /\ b \div 16 = 1
              \/ a = 192 /\ b = 168
              \/ a = 100 /\ b \div 64 = 1 THEN "private"
      ELSE "public"

TrailingIPv4(address) == SubSeq(address, 13, 16)

\* Mutant: the mapped form is classed by its IPv6 prefix.
CarriesIPv4_NotMapped(address) ==
  \/ AllZero(address, 1, 12)
  \/ SubSeq(address, 1, 4) = <<0, 100, 255, 155>> /\ AllZero(address, 5, 12)

\* IPv4-compatible, IPv4-mapped, NAT64.
CarriesIPv4(address) ==
  \/ AllZero(address, 1, 12)
  \/ AllZero(address, 1, 10) /\ SubSeq(address, 11, 12) = <<255, 255>>
  \/ SubSeq(address, 1, 4) = <<0, 100, 255, 155>> /\ AllZero(address, 5, 12)

ClassifyIPv6(address) ==
  LET a == address[1]
      b == address[2]
  IN  IF AllZero(address, 1, 15) /\ address[16] \in {0, 1} THEN "loopback"
      ELSE IF CarriesIPv4(address) THEN ClassifyIPv4(TrailingIPv4(address))
      ELSE IF IsMetadataIPv6(address) THEN "metadata"
      ELSE IF a = 254 /\ b \div 64 = 2 THEN "link-local"
      ELSE IF (a = 254 /\ b \div 64 = 3) \/ a \div 2 = 126 THEN "private"
      ELSE "public"

\* Four decimal bytes, none with a leading zero: that would be octal to some.
ParseIPv4(parts) ==
  IF /\ Len(parts) = 4
     /\ \A i \in 1 .. 4 : parts[i].value \in 0 .. 255 /\ ~parts[i].padded
  THEN << [i \in 1 .. 4 |-> parts[i].value] >>
  ELSE NoAddress

ParseGroups(side, allowTrailingIPv4) ==
  LET v4  == IF side.quad = NoAddress THEN NoAddress ELSE ParseIPv4(side.quad[1])
      all == side.groups \o (IF v4 = NoAddress THEN <<>>
                             ELSE <<v4[1][1] * 256 + v4[1][2], v4[1][3] * 256 + v4[1][4]>>)
  IN  IF \/ NotANumber \in Range(side.groups)
         \/ side.quad # NoAddress /\ (v4 = NoAddress \/ ~allowTrailingIPv4)
         \/ Len(all) > 8
      THEN NoAddress ELSE <<all>>

\* text is [head, gaps, tail], gaps counting its "::".
ParseIPv6(text) ==
  LET head == ParseGroups(text.head, text.gaps = 0)
      tail == ParseGroups(text.tail, TRUE)
  IN  IF \/ text.gaps > 1
         \/ head = NoAddress \/ tail = NoAddress
         \/ text.gaps = 0 /\ Len(head[1]) # 8
         \/ text.gaps = 1 /\ Len(head[1]) + Len(tail[1]) > 7
      THEN NoAddress
      ELSE LET zeros  == [i \in 1 .. 8 - Len(head[1]) - Len(tail[1]) |-> 0]
               groups == head[1] \o zeros \o tail[1]
           IN  << [i \in 1 .. 16 |-> IF i % 2 = 1 THEN groups[(i + 1) \div 2] \div 256
                                                 ELSE groups[i \div 2] % 256] >>

\* A host is in brackets, [closed, text], its zone already cut off, or not,
\* [parts, dots], where one trailing dot plays no part.
ClassifyHostLiteral(bracketed, host) ==
  IF bracketed
  THEN LET v6 == ParseIPv6(host.text)
       IN  IF ~host.closed \/ v6 = NoAddress THEN NoAddress ELSE <<ClassifyIPv6(v6[1])>>
  ELSE LET v4 == ParseIPv4(host.parts)
       IN  IF host.dots > 1 \/ v4 = NoAddress THEN NoAddress ELSE <<ClassifyIPv4(v4[1])>>
==============================================================================
