----------------------- MODULE FilterSemantics_proofs -----------------------
(***************************************************************************)
(* The filters of one shoot and the traffic of all of them, for all rules, *)
(* always allowed CIDRs, technical IDs and addresses; and what becomes of  *)
(* a CIDR on its way into a filter, for addresses of any width.            *)
(***************************************************************************)
EXTENDS FilterSemantics, CidrBlocks, EnvoyFilters_proofs

-----------------------------------------------------------------------------
(* The addresses of a CIDR *)

\* Addresses of n bits are sequences of bits.
LEMMA BitsType ==
    ASSUME NEW n \in Nat, NEW ip \in Bits(n)
    PROVE  ip \in Seq({0, 1}) /\ Len(ip) = n /\ \A i \in 1 .. n : ip[i] \in {0, 1}
BY DEF Bits

LEMMA WidthType ==
    /\ Len(MappedPrefix) \in Nat /\ V4Bits \in Nat
    /\ V6Bits \in Nat /\ V6Bits = Len(MappedPrefix) + V4Bits
BY WidthAssumption, LenProperties DEF V6Bits

\* Every address, and every address a CIDR is written with, is a sequence.
LEMMA AddressType ==
    ASSUME NEW ip \in V4Address \cup V6Address
    PROVE  ip \in Seq({0, 1}) /\ Len(ip) \in {V4Bits, V6Bits}
BY WidthType, BitsType DEF V4Address, V6Address

\* Of a sequence, Leading takes so many elements and no others.
LEMMA LeadingType ==
    ASSUME NEW ip \in Seq({0, 1}), NEW n \in Nat
    PROVE  LET m == IF n < Len(ip) THEN n ELSE Len(ip) IN
              /\ Leading(ip, n) \in Seq({0, 1}) /\ Len(Leading(ip, n)) = m
              /\ \A i \in 1 .. m : Leading(ip, n)[i] = ip[i]
<1> DEFINE m == IF n < Len(ip) THEN n ELSE Len(ip)
<1>1. Len(ip) \in Nat /\ m \in Nat /\ m <= Len(ip)
  BY LenProperties
<1>2. \A i \in 1 .. m : ip[i] \in {0, 1}
  BY <1>1, ElementOfSeq
<1>3. Leading(ip, n) = SubSeq(ip, 1, m)
  BY DEF Leading
<1> HIDE DEF m
<1>4. /\ SubSeq(ip, 1, m) \in Seq({0, 1}) /\ Len(SubSeq(ip, 1, m)) = m
      /\ \A i \in 1 .. m : SubSeq(ip, 1, m)[i] = ip[i]
  BY <1>1, <1>2, SubSeqProperties
<1>5. /\ Leading(ip, n) \in Seq({0, 1}) /\ Len(Leading(ip, n)) = m
      /\ \A i \in 1 .. m : Leading(ip, n)[i] = ip[i]
  BY <1>3, <1>4
<1> QED
  BY <1>5 DEF m

\* Envoy compares the leading bits of addresses of the prefix's family.
LEMMA EnvoyRangeAt ==
    ASSUME NEW prefix \in Seq({0, 1}), NEW n \in Nat, NEW ip \in Seq({0, 1})
    PROVE  InEnvoyRange([prefix |-> prefix, prefixLength |-> n], ip) <=>
              /\ Len(ip) = Len(prefix)
              /\ \A i \in 1 .. Len(prefix) : i <= n => ip[i] = prefix[i]
<1> DEFINE m == IF n < Len(prefix) THEN n ELSE Len(prefix)
<1>1. Len(prefix) \in Nat /\ m \in Nat
  BY LenProperties
<1>2. ASSUME Len(ip) = Len(prefix)
      PROVE  Leading(ip, n) = Leading(prefix, n)
                <=> \A i \in 1 .. m : ip[i] = prefix[i]
  <2>1. /\ Leading(ip, n) \in Seq({0, 1}) /\ Len(Leading(ip, n)) = m
        /\ \A i \in 1 .. m : Leading(ip, n)[i] = ip[i]
    BY <1>2, LeadingType
  <2>2. /\ Leading(prefix, n) \in Seq({0, 1}) /\ Len(Leading(prefix, n)) = m
        /\ \A i \in 1 .. m : Leading(prefix, n)[i] = prefix[i]
    BY LeadingType
  <2>3. Leading(ip, n) = Leading(prefix, n)
           <=> \A i \in 1 .. m : Leading(ip, n)[i] = Leading(prefix, n)[i]
    BY <2>1, <2>2, SeqEqual
  <2> HIDE DEF m
  <2> QED
    BY <2>1, <2>2, <2>3
<1>3. 1 .. m = {i \in 1 .. Len(prefix) : i <= n}
  BY <1>1
<1> HIDE DEF m
<1> QED
  BY <1>2, <1>3 DEF InEnvoyRange

\* A block is made of the addresses that share its leading bits.
LEMMA LeadingPrefixAt ==
    ASSUME NEW ip \in Seq({0, 1}), NEW n \in Nat, n <= Len(ip),
           NEW other \in Seq({0, 1}), Len(other) = Len(ip)
    PROVE  IsPrefix(Leading(ip, n), other)
              <=> \A i \in 1 .. Len(ip) : i <= n => other[i] = ip[i]
<1>1. Len(ip) \in Nat
  BY LenProperties
<1>2. /\ Leading(ip, n) \in Seq({0, 1}) /\ Len(Leading(ip, n)) = n
      /\ \A i \in 1 .. n : Leading(ip, n)[i] = ip[i]
  BY <1>1, LeadingType
<1>3. IsPrefix(Leading(ip, n), other)
         <=> \A i \in 1 .. n : Leading(ip, n)[i] = other[i]
  BY <1>1, <1>2, PrefixAt
<1>4. 1 .. n = {i \in 1 .. Len(ip) : i <= n}
  BY <1>1
<1> QED
  BY <1>2, <1>3, <1>4

\* A CIDR as net.ParseCIDR accepts it.
IsWritten(cidr) ==
    /\ cidr.ip \in V4Address \cup V6Address
    /\ cidr.length \in Nat
    /\ Parses(cidr)

\* Of a CIDR that is not written in v4-mapped form, the filter covers the block.
LEMMA PlainRange ==
    ASSUME NEW cidr, IsWritten(cidr), ~ IsMapped(cidr.ip)
    PROVE  EnvoyRange(cidr) = Block(cidr)
<1> DEFINE ip == cidr.ip
           n  == cidr.length
<1>1. ip \in Seq({0, 1}) /\ n \in Nat /\ n <= Len(ip)
  BY AddressType DEF IsWritten, Parses
<1>2. GetPrefixAndPrefixLength(cidr) = [prefix |-> ip, prefixLength |-> n]
  BY DEF GetPrefixAndPrefixLength
<1>3. Block(cidr) = {x \in Address : Len(x) = Len(ip) /\ IsPrefix(Leading(ip, n), x)}
  BY DEF Block, DenotesV4
<1> HIDE DEF ip, n
<1>4. ASSUME NEW x \in Address
      PROVE  InEnvoyRange([prefix |-> ip, prefixLength |-> n], x)
                <=> Len(x) = Len(ip) /\ IsPrefix(Leading(ip, n), x)
  <2>1. x \in Seq({0, 1})
    BY AddressType DEF Address
  <2> QED
    BY <1>1, <2>1, EnvoyRangeAt, LeadingPrefixAt
<1> QED
  BY <1>2, <1>3, <1>4 DEF EnvoyRange

\* A mapped address is the mapped prefix and the IPv4 address after it.
LEMMA MappedAt ==
    ASSUME NEW ip \in V4Address \cup V6Address, IsMapped(ip)
    PROVE  /\ ip \in Seq({0, 1}) /\ Len(ip) = V6Bits
           /\ \A i \in 1 .. Len(MappedPrefix) : ip[i] = MappedPrefix[i]
           /\ To4(ip) \in V4Address
           /\ \A i \in 1 .. V4Bits : To4(ip)[i] = ip[Len(MappedPrefix) + i]
<1>1. ip \in Seq({0, 1}) /\ Len(ip) = V6Bits
  BY AddressType DEF IsMapped
<1>2. MappedPrefix \in Seq({0, 1})
  BY WidthAssumption
<1>3. \A i \in 1 .. Len(MappedPrefix) : ip[i] = MappedPrefix[i]
  BY <1>1, <1>2, PrefixAt DEF IsMapped
<1>4. \A i \in Len(MappedPrefix) + 1 .. V6Bits : ip[i] \in {0, 1}
  BY <1>1, WidthType, ElementOfSeq
<1>5. /\ To4(ip) \in Seq({0, 1}) /\ Len(To4(ip)) = V4Bits
      /\ \A i \in 1 .. V4Bits : To4(ip)[i] = ip[Len(MappedPrefix) + i]
  <2> DEFINE l == Len(MappedPrefix)
  <2> HIDE DEF l
  <2>1. l \in Nat /\ V4Bits \in Nat /\ V6Bits = l + V4Bits
    BY WidthType DEF l
  <2>2. To4(ip) = SubSeq(ip, l + 1, V6Bits)
    BY DEF To4, l
  <2>3. l + 1 \in Int /\ V6Bits \in Int /\ \A i \in l + 1 .. V6Bits : ip[i] \in {0, 1}
    BY <1>4, <2>1 DEF l
  <2>4. /\ To4(ip) \in Seq({0, 1})
        /\ Len(To4(ip)) = IF l + 1 <= V6Bits THEN V6Bits - (l + 1) + 1 ELSE 0
        /\ \A i \in 1 .. V6Bits - (l + 1) + 1 : To4(ip)[i] = ip[(l + 1) + i - 1]
    BY <2>2, <2>3, SubSeqProperties
  <2>5. V6Bits - (l + 1) + 1 = V4Bits /\ (~ (l + 1 <= V6Bits) => V4Bits = 0)
    BY <2>1
  <2>6. \A i \in 1 .. V4Bits : (l + 1) + i - 1 = l + i
    BY <2>1
  <2>7. Len(To4(ip)) = V4Bits
    BY <2>4, <2>5
  <2>8. \A i \in 1 .. V4Bits : To4(ip)[i] = ip[l + i]
    BY <2>4, <2>5, <2>6
  <2> QED
    BY <2>4, <2>7, <2>8 DEF l
<1>6. To4(ip) \in V4Address
  BY <1>5, LenProperties DEF V4Address, Bits
<1> QED
  BY <1>1, <1>3, <1>5, <1>6

\* Of a mapped CIDR, the filter gets the IPv4 address with the length of the
\* IPv6 mask.
LEMMA MappedRange ==
    ASSUME NEW cidr, IsWritten(cidr), IsMapped(cidr.ip), NEW x \in Address
    PROVE  x \in EnvoyRange(cidr) <=>
              /\ Len(x) = V4Bits
              /\ \A i \in 1 .. V4Bits : i <= cidr.length => x[i] = To4(cidr.ip)[i]
<1>1. x \in Seq({0, 1})
  BY AddressType DEF Address
<1>2. To4(cidr.ip) \in Seq({0, 1}) /\ Len(To4(cidr.ip)) = V4Bits
  BY MappedAt, BitsType, WidthType DEF IsWritten, V4Address
<1>3. GetPrefixAndPrefixLength(cidr)
         = [prefix |-> To4(cidr.ip), prefixLength |-> cidr.length]
  BY DEF GetPrefixAndPrefixLength
<1> QED
  BY <1>1, <1>2, <1>3, EnvoyRangeAt DEF EnvoyRange, IsWritten

\* A block within the mapped addresses: the mapped prefix holds of all of
\* them, so the remaining bits of the length are compared.
LEMMA MappedBlock ==
    ASSUME NEW cidr, IsWritten(cidr), DenotesV4(cidr), NEW x \in V4Address
    PROVE  x \in Block(cidr) <=>
              \A i \in 1 .. V4Bits :
                 Len(MappedPrefix) + i <= cidr.length => x[i] = To4(cidr.ip)[i]
<1> DEFINE ip == cidr.ip
           n  == cidr.length
           l  == Len(MappedPrefix)
           y  == MappedPrefix \o x
<1>1. /\ ip \in V4Address \cup V6Address /\ IsMapped(ip)
      /\ n \in Nat /\ l <= n /\ n <= Len(ip)
  BY DEF IsWritten, DenotesV4, Parses
<1>2. x \in Seq({0, 1}) /\ Len(x) = V4Bits /\ MappedPrefix \in Seq({0, 1})
  BY WidthAssumption, BitsType DEF V4Address
<1>3. /\ y \in Seq({0, 1}) /\ Len(y) = V6Bits
      /\ \A i \in 1 .. V6Bits : y[i] = IF i <= l THEN MappedPrefix[i] ELSE x[i - l]
  BY <1>2, WidthType, ConcatProperties
<1>4. x \in Block(cidr) <=> IsPrefix(Leading(ip, n), y)
  BY DEF Block
<1> HIDE DEF y, l
<1>5. l \in Nat /\ V4Bits \in Nat /\ V6Bits = l + V4Bits
  BY WidthType DEF l
<1>6. /\ ip \in Seq({0, 1}) /\ Len(ip) = V6Bits
      /\ \A i \in 1 .. l : ip[i] = MappedPrefix[i]
      /\ \A i \in 1 .. V4Bits : To4(ip)[i] = ip[l + i]
  BY <1>1, MappedAt DEF l
<1> HIDE DEF ip, n
<1>7. IsPrefix(Leading(ip, n), y) <=> \A j \in 1 .. V6Bits : j <= n => y[j] = ip[j]
  BY <1>1, <1>3, <1>6, LeadingPrefixAt
<1>8. ASSUME \A j \in 1 .. V6Bits : j <= n => y[j] = ip[j],
             NEW i \in 1 .. V4Bits, l + i <= n
      PROVE  x[i] = To4(ip)[i]
  <2>1. l + i \in 1 .. V6Bits /\ ~ (l + i <= l) /\ (l + i) - l = i
    BY <1>5
  <2> QED
    BY <1>3, <1>6, <1>8, <2>1
<1>9. ASSUME \A i \in 1 .. V4Bits : l + i <= n => x[i] = To4(ip)[i],
             NEW j \in 1 .. V6Bits, j <= n
      PROVE  y[j] = ip[j]
  <2>1. CASE j <= l
    BY <1>3, <1>5, <1>6, <2>1
  <2>2. CASE ~ (j <= l)
    <3>1. j - l \in 1 .. V4Bits /\ l + (j - l) = j
      BY <1>5, <2>2
    <3>2. x[j - l] = To4(ip)[j - l] /\ To4(ip)[j - l] = ip[j]
      BY <1>6, <1>9, <3>1
    <3> QED
      BY <1>3, <2>2, <3>2
  <2> QED
    BY <2>1, <2>2
<1>10. x \in Block(cidr) <=> \A i \in 1 .. V4Bits : l + i <= n => x[i] = To4(ip)[i]
  BY <1>4, <1>7, <1>8, <1>9
<1> QED
  BY <1>10 DEF ip, n, l

\* A CIDR keeps its block on its way into a filter if and only if it is not
\* written in v4-mapped form or names a single address: getPrefixAndPrefixLength
\* combines the dotted form of the address with the length of the IPv6 mask.
THEOREM KeepsItsBlock ==
    ASSUME NEW cidr, IsWritten(cidr), MappedPrefix # <<>>
    PROVE  EnvoyRange(cidr) = Block(cidr)
              <=> (IsMapped(cidr.ip) => cidr.length = V6Bits)
<1> DEFINE ip == cidr.ip
           n  == cidr.length
           l  == Len(MappedPrefix)
<1>1. l \in Nat \ {0} /\ V4Bits \in Nat /\ V6Bits = l + V4Bits
  <2>1. l # 0
    BY WidthAssumption, EmptySeq
  <2> QED
    BY <2>1, WidthType
<1>2. n \in Nat /\ n <= Len(ip)
  BY DEF IsWritten, Parses
<1>3. V4Address \subseteq Address
  BY DEF Address
<1>4. CASE ~ IsMapped(ip)
  BY <1>4, PlainRange
<1>5. CASE IsMapped(ip) /\ n = V6Bits
  <2>1. DenotesV4(cidr)
    BY <1>1, <1>5 DEF DenotesV4
  <2>2. ASSUME NEW x \in V4Address
        PROVE  x \in EnvoyRange(cidr) <=> x \in Block(cidr)
    <3>1. Len(x) = V4Bits
      BY BitsType, WidthType DEF V4Address
    <3>2. \A i \in 1 .. V4Bits : i <= n /\ l + i <= n
      BY <1>1, <1>5
    <3> QED
      BY <1>3, <1>5, <2>1, <3>1, <3>2, MappedRange, MappedBlock
  <2>3. Block(cidr) \subseteq V4Address
    BY <2>1 DEF Block
  <2>4. EnvoyRange(cidr) \subseteq V4Address
    <3>1. SUFFICES ASSUME NEW x \in EnvoyRange(cidr) PROVE x \in V4Address
      OBVIOUS
    <3>2. x \in Address /\ Len(x) = V4Bits
      BY <1>5, MappedRange DEF EnvoyRange
    <3>3. x \notin V6Address
      BY <1>1, <3>2, BitsType, WidthType DEF V6Address
    <3> QED
      BY <3>2, <3>3 DEF Address
  <2> QED
    BY <1>5, <2>2, <2>3, <2>4
<1>6. CASE IsMapped(ip) /\ n # V6Bits
  <2>1. /\ Len(ip) = V6Bits /\ To4(ip) \in V4Address
        /\ \A i \in 1 .. V4Bits : To4(ip)[i] = ip[l + i]
    BY <1>6, MappedAt DEF IsWritten
  <2>2. n < V6Bits
    BY <1>1, <1>2, <1>6, <2>1
  <2>3. CASE n < l
    \* The block is one of IPv6 addresses.
    <3>1. Len(To4(ip)) = V4Bits
      BY <2>1, BitsType, WidthType DEF V4Address
    <3>2. To4(ip) \in EnvoyRange(cidr)
      BY <1>3, <1>6, <2>1, <3>1, MappedRange
    <3>3. To4(ip) \notin Block(cidr)
      BY <1>1, <1>2, <2>1, <2>3, <3>1 DEF Block, DenotesV4
    <3> QED
      BY <1>6, <3>2, <3>3
  <2>4. CASE ~ (n < l)
    \* The first bit after the mask distinguishes two addresses of the block.
    <3> DEFINE k == n - l + 1
               x == [To4(ip) EXCEPT ![k] = 1 - To4(ip)[k]]
    <3>1. k \in 1 .. V4Bits /\ k <= n /\ ~ (l + k <= n)
      BY <1>1, <1>2, <2>2, <2>4
    <3>2. \A i \in 1 .. V4Bits : l + i <= n => i # k
      BY <1>1, <3>1
    <3> HIDE DEF k
    <3>3. To4(ip) \in [1 .. V4Bits -> {0, 1}]
      BY <2>1 DEF V4Address, Bits
    <3>4. To4(ip)[k] \in {0, 1} /\ 1 - To4(ip)[k] \in {0, 1} /\ 1 - To4(ip)[k] # To4(ip)[k]
      <4>1. To4(ip)[k] = 0 \/ To4(ip)[k] = 1
        BY <3>1, <3>3
      <4> QED
        BY <4>1
    <3>5. /\ x \in [1 .. V4Bits -> {0, 1}] /\ x[k] = 1 - To4(ip)[k]
          /\ \A i \in 1 .. V4Bits : i # k => x[i] = To4(ip)[i]
      BY <3>1, <3>3, <3>4
    <3> HIDE DEF x
    <3>6. x \in V4Address
      BY <3>5 DEF V4Address, Bits
    <3>7. DenotesV4(cidr)
      BY <1>1, <1>2, <1>6, <2>4 DEF DenotesV4
    <3>8. x \in Block(cidr)
      BY <3>2, <3>5, <3>6, <3>7, MappedBlock
    <3>9. x \notin EnvoyRange(cidr)
      BY <1>3, <1>6, <3>1, <3>4, <3>5, <3>6, MappedRange
    <3> QED
      BY <1>6, <3>8, <3>9
  <2> QED
    BY <2>3, <2>4
<1> QED
  BY <1>4, <1>5, <1>6

-----------------------------------------------------------------------------
(* The behaviours of FilterSemantics *)

ShortID(s) == ComputeShortShootID(TechnicalID[s])

LEMMA ShortIDs ==
    ASSUME NEW s \in Shoots
    PROVE  ShortID(s) \in Seq(Part)
BY TechnicalIDAssumption, ShortIDType DEF ShortID

\* A connection leads to some shoot and meets filters built from one of the
\* rules and sets there are, never from none.
ConnInv ==
    /\ shoot \in Shoots
    /\ rule # NoRule => rule \in Rules /\ allowed \in AllowedSets
    /\ conn # None =>
          /\ rule # NoRule
          /\ \E s \in Shoots, source, direct, remote \in Addr :
                conn = ConnTo(s, source, direct, remote)

\* ConnInv holds always.
LEMMA ConnTyped == Spec => []ConnInv
<1>1. Init => ConnInv
  BY DEF Init, ConnInv
<1>2. ConnInv /\ [Next]_vars => ConnInv'
  <2> SUFFICES ASSUME ConnInv, [Next]_vars PROVE ConnInv'
    OBVIOUS
  <2>1. CASE Build
    BY <2>1 DEF Build, ConnInv
  <2>2. CASE Connect
    BY <2>2 DEF Connect, ConnInv
  <2>3. CASE UNCHANGED vars
    BY <2>3 DEF vars, ConnInv
  <2> QED
    BY <2>1, <2>2, <2>3 DEF Next
<1> QED
  BY <1>1, <1>2, PTL DEF Spec

\* Where a connection to shoot s matches.
LEMMA ConnToMatches ==
    ASSUME NEW s \in Shoots, NEW source \in Addr, NEW direct \in Addr,
           NEW remote \in Addr, NEW t \in Shoots
    PROVE  LET c == ConnTo(s, source, direct, remote) IN
              /\ c.target = s /\ c.remote_ip \in Addr
              /\ HasInnerLabel(c.header, TechnicalID[t])
                    <=> TechnicalID[t] = TechnicalID[s]
              /\ IsStrictSuffix(ShortID(t), c.serverName)
                    <=> IsSuffix(ShortID(t), ShortID(s))
<1> DEFINE c == ConnTo(s, source, direct, remote)
<1>1. /\ c.target = s /\ c.remote_ip = remote
      /\ c.serverName = <<"gu">> \o ShortID(s)
      /\ c.header = << <<"kube", "apiserver">>, TechnicalID[s], <<"svc">> >>
  BY DEF ConnTo, ShortID
<1> HIDE DEF c
<1>2. HasInnerLabel(c.header, TechnicalID[t]) <=> TechnicalID[t] = TechnicalID[s]
  BY <1>1, HeaderNames
<1>3. IsStrictSuffix(ShortID(t), c.serverName) <=> IsSuffix(ShortID(t), ShortID(s))
  BY <1>1, ShortIDs, ServerNameEnds
<1>4. /\ c.target = s /\ c.remote_ip \in Addr
      /\ HasInnerLabel(c.header, TechnicalID[t])
            <=> TechnicalID[t] = TechnicalID[s]
      /\ IsStrictSuffix(ShortID(t), c.serverName)
            <=> IsSuffix(ShortID(t), ShortID(s))
  BY <1>1, <1>2, <1>3
<1> QED
  BY <1>4 DEF c

\* What a filter is, by its kind.
LEMMA FilterIs ==
    ASSUME NEW s, NEW r, NEW always
    PROVE  /\ Filter(s, "api", r, always) = CreateAPIConfigPatchFromRule(r, <<"api">>, always)
           /\ Filter(s, "ingress", r, always)
                 = CreateIngressConfigPatchFromRule(r, ShortID(s), always)
           /\ Filter(s, "vpn", r, always)
                 = BuildProxyEnvoyFilterSpec("8132", TechnicalID[s], r, always)
           /\ Filter(s, "http-proxy", r, always)
                 = BuildProxyEnvoyFilterSpec("8443", TechnicalID[s], r, always)
BY DEF Filter, ShortID, BuildVPNEnvoyFilterSpec, BuildHTTPProxyEnvoyFilterSpec

\* An action that counts as DENY is one of its spellings.
LEMMA DenyIsSpelled ==
    ASSUME NEW word, ToLower(word) = "deny"
    PROVE  word \in Spellings.deny
<1>1. CASE \E w \in DOMAIN Spellings : word \in Spellings[w]
  <2> DEFINE w == CHOOSE v \in DOMAIN Spellings : word \in Spellings[v]
  <2>1. w \in DOMAIN Spellings /\ word \in Spellings[w]
    BY <1>1
  <2>2. w = "deny"
    BY <1>1 DEF ToLower
  <2>3. Spellings["deny"] = Spellings.deny
    BY DEF Spellings
  <2> QED
    BY <2>1, <2>2, <2>3
<1>2. CASE ~ \E w \in DOMAIN Spellings : word \in Spellings[w]
  <2>1. word = "deny"
    BY <1>2 DEF ToLower
  <2> QED
    BY <2>1 DEF Spellings
<1> QED
  BY <1>1, <1>2

-----------------------------------------------------------------------------
(* Theorems *)

\* For every rule, always allowed CIDRs and technical IDs: of the traffic to
\* its own shoot each filter admits what an ALLOW rule means, and the API filter
\* what a DENY rule means, in every spelling of DENY.
THEOREM FiltersFollowRule == Spec => []OwnTrafficFollowsRule
<1>1. ASSUME ConnInv PROVE OwnTrafficFollowsRule
  <2> SUFFICES ASSUME conn # None, conn.target = shoot, NEW kind \in Kinds,
                      rule.action = "ALLOW" \/ (kind = "api" /\ ToLower(rule.action) = "deny")
               PROVE  Passes(kind) <=> RuleAdmits(rule, allowed, conn)
    BY DEF OwnTrafficFollowsRule
  <2>1. PICK s \in Shoots, source \in Addr, direct \in Addr, remote \in Addr :
             conn = ConnTo(s, source, direct, remote)
    BY <1>1 DEF ConnInv
  <2>2. s = shoot
    BY <2>1 DEF ConnTo
  <2>3. /\ conn.remote_ip \in Addr
        /\ HasInnerLabel(conn.header, TechnicalID[shoot])
        /\ IsStrictSuffix(ShortID(shoot), conn.serverName)
    BY <2>1, <2>2, ConnToMatches, ShortIDs, SuffixOfItself
  <2>4. CASE kind = "api"
    <3>1. Passes(kind) <=> Admits(CreateAPIConfigPatchFromRule(rule, <<"api">>, allowed), conn)
      BY <2>4, FilterIs DEF Passes
    <3>2. CASE rule.action = "ALLOW"
      BY <3>1, <3>2, APIFilterFollowsAllowRule
    <3>3. CASE ToLower(rule.action) = "deny"
      BY <3>1, <3>3, DenyIsSpelled, APIFilterFollowsDenyRule
    <3> QED
      BY <3>2, <3>3
  <2>5. CASE kind = "ingress"
    BY <2>3, <2>5, FilterIs, IngressFilterFollowsAllowRule DEF Passes
  <2>6. CASE kind = "vpn" \/ kind = "http-proxy"
    BY <2>3, <2>6, FilterIs, ProxyFilterFollowsAllowRule DEF Passes
  <2> QED
    BY <2>4, <2>5, <2>6 DEF Kinds
<1> QED
  BY <1>1, ConnTyped, PTL

\* The ingress, VPN and HTTP proxy filters admit every connection to another
\* shoot, whatever the rule says, provided no short ID ends with another; the
\* run filter_clash shows that the proviso is needed.
THEOREM FiltersLeaveOthersAlone ==
    NoShortIDEndsWithAnother(TechnicalID) => (Spec => []ForeignTrafficUntouched)
<1> SUFFICES ASSUME NoShortIDEndsWithAnother(TechnicalID)
             PROVE  Spec => []ForeignTrafficUntouched
  OBVIOUS
<1>1. ASSUME ConnInv PROVE ForeignTrafficUntouched
  <2> SUFFICES ASSUME conn # None, conn.target # shoot, NEW kind \in SharedKinds
               PROVE  Passes(kind)
    BY DEF ForeignTrafficUntouched
  <2>1. PICK s \in Shoots, source \in Addr, direct \in Addr, remote \in Addr :
             conn = ConnTo(s, source, direct, remote)
    BY <1>1 DEF ConnInv
  <2>2. s # shoot /\ shoot \in Shoots
    BY <1>1, <2>1 DEF ConnTo, ConnInv
  <2>3. ~ IsSuffix(ShortID(shoot), ShortID(s))
    BY <2>2, TechnicalIDAssumption DEF NoShortIDEndsWithAnother, ShortID
  <2>4. TechnicalID[shoot] # TechnicalID[s]
    BY <2>2, <2>3, ShortIDs, SuffixOfItself DEF ShortID
  <2>5. /\ conn.remote_ip \in Addr
        /\ ~ HasInnerLabel(conn.header, TechnicalID[shoot])
        /\ ~ IsStrictSuffix(ShortID(shoot), conn.serverName)
    BY <2>1, <2>2, <2>3, <2>4, ConnToMatches
  <2>6. CASE kind = "ingress"
    BY <2>5, <2>6, FilterIs, IngressFilterLeavesOthersAlone DEF Passes
  <2>7. CASE kind = "vpn" \/ kind = "http-proxy"
    BY <2>5, <2>7, FilterIs, ProxyFilterLeavesOthersAlone DEF Passes
  <2> QED
    BY <2>6, <2>7 DEF SharedKinds, Kinds
<1> QED
  BY <1>1, ConnTyped, PTL

\* The CIDRs are written ones, Envoy matches the range the filter gets for
\* each, and the block is that of net.IPNet, among the addresses there are.
CidrsAreWritten ==
    /\ \A c \in Cidr : IsWritten(c)
    /\ Covers = [c \in Cidr |-> EnvoyRange(c) \cap Addr]
    /\ Blocks = [c \in Cidr |-> Block(c) \cap Addr]

\* The CIDRs users and operators write, as far as they parse.
RuleCidrs == UNION {ToSet(r.cidrs) : r \in Rules}
CidrsInUse == Cidr \cap (RuleCidrs \cup UNION AllowedSets)

\* Those in v4-mapped form name a single address.
MappedCidrsAreHosts == \A c \in CidrsInUse : IsMapped(c.ip) => c.length = V6Bits

\* An ALLOW rule applies to the blocks its CIDRs denote, host bits or not,
\* after their conversion into prefix and length, for addresses of any width,
\* provided that no CIDR in use is that of a mapped network; the run
\* filter_mapped shows that the proviso is needed.
THEOREM RuleKeepsItsBlocks ==
    CidrsAreWritten /\ MappedCidrsAreHosts /\ MappedPrefix # <<>>
        => (Spec => []RuleAppliesToItsBlocks)
<1> SUFFICES ASSUME CidrsAreWritten, MappedCidrsAreHosts, MappedPrefix # <<>>
             PROVE  Spec => []RuleAppliesToItsBlocks
  OBVIOUS
<1>1. \A c \in CidrsInUse : Covers[c] = Blocks[c]
  <2>1. SUFFICES ASSUME NEW c \in CidrsInUse PROVE Covers[c] = Blocks[c]
    OBVIOUS
  <2>2. c \in Cidr
    BY DEF CidrsInUse
  <2>3. EnvoyRange(c) = Block(c)
    BY <2>2, KeepsItsBlock DEF CidrsAreWritten, MappedCidrsAreHosts
  <2> QED
    BY <2>2, <2>3 DEF CidrsAreWritten
<1>2. ASSUME ConnInv, OwnTrafficFollowsRule PROVE RuleAppliesToItsBlocks
  <2> SUFFICES ASSUME conn # None, conn.target = shoot, rule.action = "ALLOW",
                      NEW kind \in Kinds
               PROVE  Passes(kind) <=>
                         \/ InBlocks(ToSet(rule.cidrs), conn[ToLower(rule.type)])
                         \/ InBlocks(allowed, conn.remote_ip)
    BY DEF RuleAppliesToItsBlocks
  <2>1. Passes(kind) <=> RuleAdmits(rule, allowed, conn)
    BY <1>2 DEF OwnTrafficFollowsRule
  <2>2. ToLower(rule.action) = "allow"
    BY DEF ToLower, Spellings
  <2>3. rule \in Rules /\ allowed \in AllowedSets
    BY <1>2 DEF ConnInv
  <2>4. ToSet(rule.cidrs) \cap Cidr \subseteq CidrsInUse
    <3> DEFINE lists == {ToSet(r.cidrs) : r \in Rules}
    <3>1. ToSet(rule.cidrs) \in lists
      BY <2>3
    <3>2. RuleCidrs = UNION lists
      BY DEF RuleCidrs
    <3> HIDE DEF lists
    <3> QED
      BY <3>1, <3>2 DEF CidrsInUse
  <2>5. allowed \cap Cidr \subseteq CidrsInUse
    BY <2>3 DEF CidrsInUse
  <2>6. Listed(rule, conn) <=> InBlocks(ToSet(rule.cidrs), conn[ToLower(rule.type)])
    BY <1>1, <2>4 DEF Listed, InBlocks
  <2>7. FromAlwaysAllowed(allowed, conn) <=> InBlocks(allowed, conn.remote_ip)
    BY <1>1, <2>5 DEF FromAlwaysAllowed, InBlocks
  <2> QED
    BY <2>1, <2>2, <2>6, <2>7 DEF RuleAdmits
<1> QED
  BY <1>2, ConnTyped, FiltersFollowRule, PTL
=============================================================================
