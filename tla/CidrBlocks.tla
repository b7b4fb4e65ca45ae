----------------------------- MODULE CidrBlocks -----------------------------
(***************************************************************************)
(* What becomes of a CIDR on its way into a filter, bit by bit but for     *)
(* short addresses: net.ParseCIDR, getPrefixAndPrefixLength of             *)
(* pkg/envoyfilters and Envoy's CidrRange, against the block of addresses  *)
(* the CIDR denotes.  An address is the sequence of its bits, an IPv6      *)
(* address that begins with MappedPrefix (::ffff:0:0) stands for an IPv4   *)
(* address.                                                                *)
(*                                                                         *)
(* A definition introduced as a "Variant" is a plausible bug that a run    *)
(* must notice when it takes the place of the definition after it.         *)
(***************************************************************************)
EXTENDS Naturals, SequencesExt

CONSTANTS
    V4Bits,          \* length of an IPv4 address, 32
    MappedPrefix     \* first bits of a v4-mapped IPv6 address, 96 of them

ASSUME WidthAssumption ==
    /\ V4Bits \in Nat
    /\ MappedPrefix \in Seq({0, 1})

V6Bits == Len(MappedPrefix) + V4Bits

Bits(n) == [1 .. n -> {0, 1}]
V4Address == Bits(V4Bits)
V6Address == Bits(V6Bits)

IsMapped(ip) == Len(ip) = V6Bits /\ IsPrefix(MappedPrefix, ip)

\* net.IP.To4, which net.IP.String writes and Envoy reads.
To4(ip) == SubSeq(ip, Len(MappedPrefix) + 1, V6Bits)

\* The addresses connections come from; none is written as a mapped one.
Address == V4Address \cup {ip \in V6Address : ~ IsMapped(ip)}

-----------------------------------------------------------------------------
(* CIDRs as users and operators write them, host bits included *)

Written(ip, length) == [ip |-> ip, length |-> length]

\* net.ParseCIDR: no more bits than the address has as it is written.
Parses(cidr) == cidr.length <= Len(cidr.ip)

\* Variant: an address with host bits is taken for that of a host.
PrefixOfHost(cidr) ==
    [prefix       |-> IF IsMapped(cidr.ip) THEN To4(cidr.ip) ELSE cidr.ip,
     prefixLength |-> IF \E i \in cidr.length + 1 .. Len(cidr.ip) : cidr.ip[i] = 1
                      THEN Len(cidr.ip) ELSE cidr.length]

\* getPrefixAndPrefixLength: ip.String() has its host bits and is dotted for
\* a mapped address, the length is that of the mask as it was written.
GetPrefixAndPrefixLength(cidr) ==
    [prefix       |-> IF IsMapped(cidr.ip) THEN To4(cidr.ip) ELSE cidr.ip,
     prefixLength |-> cidr.length]

\* The first n bits of ip, or all of them.
Leading(ip, n) == SubSeq(ip, 1, IF n < Len(ip) THEN n ELSE Len(ip))

\* Envoy's CidrRange (external) clamps the length and ignores the host bits.
InEnvoyRange(range, ip) ==
    /\ Len(ip) = Len(range.prefix)
    /\ Leading(ip, range.prefixLength) = Leading(range.prefix, range.prefixLength)

EnvoyRange(cidr) == {ip \in Address : InEnvoyRange(GetPrefixAndPrefixLength(cidr), ip)}

-----------------------------------------------------------------------------
(* The block of addresses a CIDR denotes, as net.IPNet.Contains has it *)

\* A block inside the mapped addresses is a block of IPv4 addresses.
DenotesV4(cidr) == IsMapped(cidr.ip) /\ cidr.length >= Len(MappedPrefix)

Block(cidr) ==
    IF DenotesV4(cidr)
    THEN {ip \in V4Address : IsPrefix(Leading(cidr.ip, cidr.length), MappedPrefix \o ip)}
    ELSE {ip \in Address : Len(ip) = Len(cidr.ip)
                           /\ IsPrefix(Leading(cidr.ip, cidr.length), ip)}
=============================================================================
