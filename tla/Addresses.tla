------------------------------ MODULE Addresses ------------------------------
(***************************************************************************)
(* Addresses, and who is behind them: isPrivateAddress (shared/net/ssrf.ts) *)
(* decides where the server may connect to, getClientIp                    *)
(* (core/client-ip.ts) under which address a request is counted before it  *)
(* is authenticated, and validateHeaders (core/headers.ts) which request   *)
(* is let in at all.                                                       *)
(*                                                                         *)
(* An IPv4 address is four octets, an IPv6 address eight groups.  A text   *)
(* of one is dotted, mapped (::ffff: before a dotted one), or groups left  *)
(* and right of a gap ("::"), or without one.                              *)
(***************************************************************************)
EXTENDS Integers, Sequences

CONSTANTS AddressTexts, \* bound: the texts that are classified
          Cidrs,        \* bound: the ranges of trustedProxyCidrs
          HostTexts     \* bound: the values of a Host header

(* The numbers of a part of an address, and of two of them.                *)
Octet == {n \in Nat : n < 256}
Group == {n \in Nat : n < 65536}

(* A text has four octets or at most two lists of groups, right of the gap *)
(* none without one; a range has as many octets as its family, and a       *)
(* length within them; a host is as told below.                            *)
ASSUME AddressesAssumption ==
  /\ AddressTexts \subseteq
       [form : {"dotted", "mapped"}, octets : [1..4 -> Nat]]
       \union {text \in [form : {"colons"}, left : Seq(Nat), gap : BOOLEAN, right : Seq(Nat)] :
                text.gap \/ text.right = <<>>}
  /\ Cidrs \subseteq
       [family : {4}, octets : [1..4 -> Octet], bits : 0..32]
       \union [family : {6}, octets : [1..16 -> Octet], bits : 0..128]
  /\ HostTexts \subseteq
       [name : STRING, port : STRING, shape : {"name", "bracketed", "bare", "open"}]

Dotted(octets) == [form |-> "dotted", octets |-> octets]
Mapped(octets) == [form |-> "mapped", octets |-> octets]
Colons(left, gap, right) == [form |-> "colons", left |-> left, gap |-> gap, right |-> right]
Malformed == <<>>

-----------------------------------------------------------------------------
(* ssrf.ts.                                                                *)

IsOctets(a) == \A i \in DOMAIN a : a[i] \in Octet

IsPrivateIPv4(octets) ==
  LET a == octets[1]
      b == octets[2]
  IN  \/ ~IsOctets(octets)
      \/ a \in {0, 10, 127}
      \/ a = 100 /\ b \in 64..127
      \/ a = 169 /\ b = 254
      \/ a = 172 /\ b \in 16..31
      \/ a = 192 /\ b \in {0, 168}
      \/ a = 198 /\ b \in {18, 19}
      \/ a >= 224

(* Mutant: the gap is filled at the end.                                   *)
NormalizeRight(text) ==
  LET missing == 8 - Len(text.left) - Len(text.right)
      groups == text.left \o text.right \o [i \in 1..missing |-> 0]
  IN  IF missing < 0 \/ (~text.gap /\ missing # 0) THEN Malformed
      ELSE IF \E i \in DOMAIN groups : groups[i] \notin Group THEN Malformed
      ELSE groups

(* normalizeIPv6: the eight groups.                                        *)
Normalize(text) ==
  LET missing == 8 - Len(text.left) - Len(text.right)
      groups == text.left \o [i \in 1..missing |-> 0] \o text.right
  IN  IF missing < 0 \/ (~text.gap /\ missing # 0) THEN Malformed
      ELSE IF \E i \in DOMAIN groups : groups[i] \notin Group THEN Malformed
      ELSE groups

(* extractIPv4FromHex, of two groups.                                      *)
Embedded(hi, lo) == <<hi \div 256, hi % 256, lo \div 256, lo % 256>>

(* The text of the address begins with these groups.                       *)
StartsWith(g, groups) == SubSeq(g, 1, Len(groups)) = groups

(* The mapped, the translated and the NAT64 addresses.                     *)
EndsInIPv4(g) ==
  \/ StartsWith(g, <<0, 0, 0, 0, 0, 65535>>)
  \/ StartsWith(g, <<0, 0, 0, 0, 65535, 0>>)
  \/ StartsWith(g, <<100, 65435, 0, 0, 0, 0>>)

(* Documentation, link-local and site-local, unique local, multicast.      *)
IsReserved(g) ==
  \/ StartsWith(g, <<8193, 3512>>)
  \/ g[1] \div 16 \in 4072..4079
  \/ g[1] \div 4096 = 15 /\ (g[1] \div 256) % 16 \in {12, 13}
  \/ g[1] \div 256 = 255

IsPrivateIPv6(text) ==
  LET g == Normalize(text)
  IN  IF g = Malformed \/ g \in {<<0, 0, 0, 0, 0, 0, 0, 1>>, <<0, 0, 0, 0, 0, 0, 0, 0>>} THEN TRUE
      ELSE IF EndsInIPv4(g) THEN IsPrivateIPv4(Embedded(g[7], g[8]))
      ELSE IF StartsWith(g, <<8194>>) THEN IsPrivateIPv4(Embedded(g[2], g[3]))
      ELSE IsReserved(g)

IsPrivateAddress(text) ==
  IF text.form \in {"dotted", "mapped"} THEN IsPrivateIPv4(text.octets) ELSE IsPrivateIPv6(text)

-----------------------------------------------------------------------------
(* client-ip.ts.  A CIDR has a family, octets and a length.                *)

OctetsOf(groups) ==
  [i \in 1..16 |-> LET g == groups[(i + 1) \div 2] IN IF i % 2 = 1 THEN g \div 256 ELSE g % 256]

(* Mutant: the bits are those at the other end of the octet.               *)
BytesMatchLow(actual, expected, bits) ==
  LET full == bits \div 8
      rem == bits % 8
  IN  /\ \A i \in 1..full : actual[i] = expected[i]
      /\ rem # 0 => actual[full + 1] % (2 ^ rem) = expected[full + 1] % (2 ^ rem)

(* bytesMatch: whole octets, then the bits of the mask in the next one.    *)
BytesMatch(actual, expected, bits) ==
  LET full == bits \div 8
      rem == bits % 8
  IN  /\ \A i \in 1..full : actual[i] = expected[i]
      /\ rem # 0 => actual[full + 1] \div (2 ^ (8 - rem)) = expected[full + 1] \div (2 ^ (8 - rem))

IsInCidr(text, cidr) ==
  IF text.form \in {"dotted", "mapped"}
  THEN cidr.family = 4 /\ IsOctets(text.octets) /\ BytesMatch(text.octets, cidr.octets, cidr.bits)
  ELSE /\ cidr.family = 6
       /\ Normalize(text) # Malformed
       /\ BytesMatch(OctetsOf(Normalize(text)), cidr.octets, cidr.bits)

IsTrusted(text, trusted) == \E cidr \in trusted : IsInCidr(text, cidr)

(* The key of the pre-auth limiter: the peer, or what a trusted peer says  *)
(* it has forwarded the request for; forwarded: the entries of the header. *)
Unknown == [form |-> "unknown"]
GetClientIp(peer, forwarded, trusted) ==
  IF peer = Unknown \/ ~IsTrusted(peer, trusted) THEN peer
  ELSE IF forwarded = <<>> \/ Head(forwarded) = Unknown THEN peer
  ELSE Head(forwarded)

-----------------------------------------------------------------------------
(* headers.ts.  A host has a name, a port or none, and a shape: "name",    *)
(* "bracketed"; "bare" for an IPv6 literal without brackets, "open" for    *)
(* one whose bracket is not closed.                                        *)

StripPort(host) ==
  IF host.shape \in {"name", "bracketed"} THEN [host EXCEPT !.port = "none"] ELSE host

(* hosts: the values of the Host header, which may be there twice.         *)
ValidateHeaders(hosts, origin, expectedHost, allowedOrigins, requireOrigin) ==
  IF hosts = {} THEN "host-mismatch"
  ELSE IF \E h \in hosts, g \in hosts : h # g \/ StripPort(h) # StripPort(expectedHost)
  THEN "host-mismatch"
  ELSE IF origin # "none" THEN IF origin \in allowedOrigins THEN "ok" ELSE "origin-not-allowed"
  ELSE IF requireOrigin THEN "origin-required" ELSE "ok"

-----------------------------------------------------------------------------
(* Blocks of addresses, as those who assign them write them; of 192.0/16   *)
(* the comment in ssrf.ts names the first /24, and the code takes it all.  *)

Bit(octets, k) == (octets[(k - 1) \div 8 + 1] \div (2 ^ (7 - ((k - 1) % 8)))) % 2
InBlock(octets, prefix, bits) == \A k \in 1..bits : Bit(octets, k) = Bit(prefix, k)

SpecialIPv4 ==
  {<<<<0, 0>>, 8>>, <<<<10, 0>>, 8>>, <<<<100, 64>>, 10>>, <<<<127, 0>>, 8>>,
   <<<<169, 254>>, 16>>, <<<<172, 16>>, 12>>, <<<<192, 0>>, 16>>, <<<<192, 168>>, 16>>,
   <<<<198, 18>>, 15>>, <<<<224, 0>>, 4>>, <<<<240, 0>>, 4>>}
IsSpecialIPv4(octets) == \E block \in SpecialIPv4 : InBlock(octets, block[1], block[2])

Groups(g, n) == OctetsOf([i \in 1..8 |-> IF i \in DOMAIN g THEN g[i] ELSE IF i = 8 THEN n ELSE 0])
SpecialIPv6 ==
  {<<Groups(<<>>, 1), 128>>, <<Groups(<<>>, 0), 128>>, <<Groups(<<8193, 3512>>, 0), 32>>,
   <<Groups(<<65152>>, 0), 10>>, <<Groups(<<65216>>, 0), 10>>, <<Groups(<<64512>>, 0), 7>>,
   <<Groups(<<65280>>, 0), 8>>}

(* Blocks with an IPv4 address inside, which begins behind so many octets. *)
Carriers ==
  {<<Groups(<<0, 0, 0, 0, 0, 65535>>, 0), 96, 12>>, <<Groups(<<0, 0, 0, 0, 65535>>, 0), 96, 12>>,
   <<Groups(<<100, 65435>>, 0), 96, 12>>, <<Groups(<<8194>>, 0), 16, 2>>}
IsSpecialIPv6(octets) ==
  \/ \E block \in SpecialIPv6 : InBlock(octets, block[1], block[2])
  \/ \E c \in Carriers : /\ InBlock(octets, c[1], c[2])
                         /\ IsSpecialIPv4(SubSeq(octets, c[3] + 1, c[3] + 4))

(* The groups a text stands for, when it stands for any.                   *)
Meant(text) ==
  LET l == Len(text.left)
      r == Len(text.right)
  IN  [i \in 1..8 |-> IF i <= l THEN text.left[i] ELSE IF i > 8 - r THEN text.right[i - 8 + r] ELSE 0]
IsAddress(text) ==
  /\ IF text.gap THEN Len(text.left) + Len(text.right) <= 8 ELSE Len(text.left) = 8
  /\ \A i \in 1..8 : Meant(text)[i] \in Group

(* In every notation of it, an address is private just when it, or the     *)
(* IPv4 address inside it, is in a block that is not the public internet;  *)
(* what is no address is private too.                                      *)
ClassifiesByBlocks ==
  \A text \in AddressTexts :
    IsPrivateAddress(text) <=>
      IF text.form \in {"dotted", "mapped"}
      THEN ~IsOctets(text.octets) \/ IsSpecialIPv4(text.octets)
      ELSE ~IsAddress(text) \/ IsSpecialIPv6(OctetsOf(Meant(text)))

(* A peer is trusted by the bits of its address; nobody else chooses the   *)
(* key a request is counted under, and a port never lets a request in or   *)
(* keeps it out.                                                           *)
AdmitsByPeer ==
  /\ \A text \in AddressTexts, cidr \in Cidrs :
       LET dotted == text.form \in {"dotted", "mapped"}
           octets == IF dotted THEN text.octets ELSE OctetsOf(Meant(text))
           valid == IF dotted THEN IsOctets(text.octets) ELSE IsAddress(text)
           within == /\ valid
                     /\ cidr.family = IF dotted THEN 4 ELSE 6
                     /\ InBlock(octets, cidr.octets, cidr.bits)
       IN  /\ IsTrusted(text, {cidr}) <=> within
           /\ ~within => GetClientIp(text, <<Dotted(<<1, 1, 1, 1>>)>>, {cidr}) = text
  /\ \A host \in HostTexts, expected \in HostTexts :
       LET verdict(h) == ValidateHeaders({h}, "none", expected, {}, FALSE)
       IN  /\ verdict(host) = "ok" => host.name = expected.name
           /\ host.shape = "name" => verdict(host) = verdict([host EXCEPT !.port = "other"])

=============================================================================
