------------------------ MODULE EnvoyFilters_proofs -------------------------
(***************************************************************************)
(* What the generated filters admit, for every rule, every set of always   *)
(* allowed CIDRs, every shoot ID and every connection.                     *)
(***************************************************************************)
EXTENDS EnvoyFilters, SequenceTheorems, TLAPS

\* Some principal of the rule's policy has the connection's address.
Matched(principals, conn) ==
    \E p \in principals : conn[p.type] \in Covers[p.cidr]

\* One principal per CIDR matches the addresses of these CIDRs.
LEMMA PrincipalsOfCIDRs ==
    ASSUME NEW type, NEW cidrs, NEW conn
    PROVE  Matched({Principal(type, c) : c \in cidrs}, conn)
              <=> \E c \in cidrs : conn[type] \in Covers[c]
<1> DEFINE principals == {Principal(type, c) : c \in cidrs}
<1>1. ASSUME NEW c \in cidrs, conn[type] \in Covers[c]
      PROVE  Matched(principals, conn)
  <2>1. Principal(type, c) \in principals
    OBVIOUS
  <2>2. Principal(type, c).type = type /\ Principal(type, c).cidr = c
    BY DEF Principal
  <2> HIDE DEF principals
  <2> QED
    BY <1>1, <2>1, <2>2 DEF Matched
<1>2. ASSUME NEW p \in principals, conn[p.type] \in Covers[p.cidr]
      PROVE  \E c \in cidrs : conn[type] \in Covers[c]
  <2>1. PICK c \in cidrs : p = Principal(type, c)
    OBVIOUS
  <2>2. p.type = type /\ p.cidr = c
    BY <2>1 DEF Principal
  <2> QED
    BY <1>2, <2>2
<1> HIDE DEF principals
<1>3. Matched(principals, conn) <=> \E c \in cidrs : conn[type] \in Covers[c]
  BY <1>1, <1>2 DEF Matched
<1> QED
  BY <1>3 DEF principals

\* The principals made from an ALLOW rule match exactly the sources the rule
\* lists and the always allowed ones (ruleCIDRsToPrincipal).
LEMMA AllowPrincipals ==
    ASSUME NEW rule, NEW always, NEW conn, rule.action = "ALLOW"
    PROVE  Matched(RuleCIDRsToPrincipal(rule, always), conn)
              <=> Listed(rule, conn) \/ FromAlwaysAllowed(always, conn)
<1> DEFINE ofRule == {Principal(ToLower(rule.type), c) : c \in ToSet(rule.cidrs) \cap Cidr}
           ofAlways == {Principal("remote_ip", c) : c \in always \cap Cidr}
<1>1. RuleCIDRsToPrincipal(rule, always) = ofRule \cup ofAlways
  BY DEF RuleCIDRsToPrincipal
<1>2. Matched(ofRule, conn) <=> Listed(rule, conn)
  BY PrincipalsOfCIDRs DEF Listed
<1>3. Matched(ofAlways, conn) <=> FromAlwaysAllowed(always, conn)
  BY PrincipalsOfCIDRs, conn["remote_ip"] = conn.remote_ip DEF FromAlwaysAllowed
<1> HIDE DEF ofRule, ofAlways
<1> QED
  BY <1>1, <1>2, <1>3 DEF Matched

\* Those made from any other rule match the listed sources only.
LEMMA OtherPrincipals ==
    ASSUME NEW rule, NEW always, NEW conn, rule.action # "ALLOW"
    PROVE  Matched(RuleCIDRsToPrincipal(rule, always), conn) <=> Listed(rule, conn)
<1> DEFINE ofRule == {Principal(ToLower(rule.type), c) : c \in ToSet(rule.cidrs) \cap Cidr}
<1>1. RuleCIDRsToPrincipal(rule, always) = ofRule
  BY DEF RuleCIDRsToPrincipal
<1>2. Matched(ofRule, conn) <=> Listed(rule, conn)
  BY PrincipalsOfCIDRs DEF Listed
<1> QED
  BY <1>1, <1>2

\* The two principals of the inverse policy match every connection.
LEMMA EveryoneMatches ==
    ASSUME NEW conn, conn.remote_ip \in Addr
    PROVE  Matched(Everyone, conn)
BY CoversAssumption DEF Matched, Everyone, Principal

\* Matching traffic is decided by the rule's policy, the rest is admitted.
LEMMA ShootPoliciesMatch ==
    ASSUME NEW permission, NEW principals, NEW conn, conn.remote_ip \in Addr
    PROVE  (\E p \in ShootPolicies(permission, principals) : PolicyMatches(p, conn))
              <=> (PermissionMatches(permission, conn) => Matched(principals, conn))
<1> DEFINE inverse == Policy(permission, TRUE, Everyone)
           own     == Policy(permission, FALSE, principals)
<1>1. PolicyMatches(inverse, conn) <=> ~ PermissionMatches(permission, conn)
  BY EveryoneMatches DEF PolicyMatches, Policy, PermissionMatches, Matched
<1>2. PolicyMatches(own, conn)
         <=> PermissionMatches(permission, conn) /\ Matched(principals, conn)
  BY DEF PolicyMatches, Policy, PermissionMatches, Matched
<1>3. ShootPolicies(permission, principals) = {inverse, own}
  BY DEF ShootPolicies
<1> QED
  BY <1>1, <1>2, <1>3

-----------------------------------------------------------------------------
(* Theorems *)

\* The proxy filters of a shoot (VPN and HTTP proxy) leave traffic to every
\* other destination alone: buildProxyEnvoyFilterSpecForHelmChart's inverse
\* policy admits it from any address.
THEOREM ProxyFilterLeavesOthersAlone ==
    ASSUME NEW port, NEW id, NEW rule, NEW always, NEW conn,
           conn.remote_ip \in Addr, ~ HasInnerLabel(conn.header, id)
    PROVE  Admits(BuildProxyEnvoyFilterSpec(port, id, rule, always), conn)
<1> DEFINE permission == [on |-> "header", contains |-> id]
           principals == RuleCIDRsToPrincipal(rule, always)
           filter == BuildProxyEnvoyFilterSpec(port, id, rule, always)
<1>1. ~ PermissionMatches(permission, conn)
  BY DEF PermissionMatches
<1>2. filter.action = "ALLOW" /\ filter.policies = ShootPolicies(permission, principals)
  BY DEF BuildProxyEnvoyFilterSpec
<1>3. \E p \in ShootPolicies(permission, principals) : PolicyMatches(p, conn)
  <2> HIDE DEF permission, principals
  <2> QED BY <1>1, ShootPoliciesMatch
<1> QED
  BY <1>2, <1>3 DEF Admits

\* The ingress filter leaves traffic to every server name alone that does not
\* end in a dash and the shoot's ID (CreateIngressConfigPatchFromRule).
THEOREM IngressFilterLeavesOthersAlone ==
    ASSUME NEW id, NEW rule, NEW always, NEW conn,
           conn.remote_ip \in Addr, ~ IsStrictSuffix(id, conn.serverName)
    PROVE  Admits(CreateIngressConfigPatchFromRule(rule, id, always), conn)
<1> DEFINE permission == [on |-> "requested_server_name", suffix |-> id]
           principals == RuleCIDRsToPrincipal(rule, always)
           filter == CreateIngressConfigPatchFromRule(rule, id, always)
<1>1. ~ PermissionMatches(permission, conn)
  BY DEF PermissionMatches
<1>2. filter.action = "ALLOW" /\ filter.policies = ShootPolicies(permission, principals)
  BY DEF CreateIngressConfigPatchFromRule
<1>3. \E p \in ShootPolicies(permission, principals) : PolicyMatches(p, conn)
  <2> HIDE DEF permission, principals
  <2> QED BY <1>1, ShootPoliciesMatch
<1> QED
  BY <1>2, <1>3 DEF Admits

\* For an ALLOW rule, the API filter admits what the rule means.
THEOREM APIFilterFollowsAllowRule ==
    ASSUME NEW rule, NEW hosts, NEW always, NEW conn, rule.action = "ALLOW"
    PROVE  Admits(CreateAPIConfigPatchFromRule(rule, hosts, always), conn)
              <=> RuleAdmits(rule, always, conn)
<1> DEFINE principals == RuleCIDRsToPrincipal(rule, always)
           filter == CreateAPIConfigPatchFromRule(rule, hosts, always)
           policy == Policy([on |-> "any"], FALSE, principals)
<1>1. filter.action = "ALLOW" /\ filter.policies = {policy}
  BY DEF CreateAPIConfigPatchFromRule, ToUpper, Spellings
<1>2. PolicyMatches(policy, conn) <=> Matched(principals, conn)
  BY DEF PolicyMatches, Policy, PermissionMatches, Matched
<1>3. ToLower(rule.action) = "allow"
  BY DEF ToLower, Spellings
<1> QED
  BY <1>1, <1>2, <1>3, AllowPrincipals DEF Admits, RuleAdmits

\* For a DENY rule, in whatever spelling, the API filter admits what the rule
\* means: every source it does not list.
THEOREM APIFilterFollowsDenyRule ==
    ASSUME NEW rule, NEW hosts, NEW always, NEW conn, rule.action \in Spellings.deny
    PROVE  Admits(CreateAPIConfigPatchFromRule(rule, hosts, always), conn)
              <=> RuleAdmits(rule, always, conn)
<1> DEFINE principals == RuleCIDRsToPrincipal(rule, always)
           filter == CreateAPIConfigPatchFromRule(rule, hosts, always)
           policy == Policy([on |-> "any"], FALSE, principals)
<1>1. filter.action = "DENY" /\ filter.policies = {policy}
  BY DEF CreateAPIConfigPatchFromRule, ToUpper, Spellings
<1>2. PolicyMatches(policy, conn) <=> Matched(principals, conn)
  BY DEF PolicyMatches, Policy, PermissionMatches, Matched
<1>3. ToLower(rule.action) # "allow"
  BY DEF ToLower, Spellings
<1>4. rule.action # "ALLOW"
  BY DEF Spellings
<1> QED
  BY <1>1, <1>2, <1>3, <1>4, OtherPrincipals DEF Admits, RuleAdmits

\* For an ALLOW rule, the proxy filters admit of the traffic to the shoot what
\* the rule means, so the networks the controller adds are never blocked.
THEOREM ProxyFilterFollowsAllowRule ==
    ASSUME NEW port, NEW id, NEW rule, NEW always, NEW conn,
           conn.remote_ip \in Addr, HasInnerLabel(conn.header, id),
           rule.action = "ALLOW"
    PROVE  Admits(BuildProxyEnvoyFilterSpec(port, id, rule, always), conn)
              <=> RuleAdmits(rule, always, conn)
<1> DEFINE permission == [on |-> "header", contains |-> id]
           principals == RuleCIDRsToPrincipal(rule, always)
           filter == BuildProxyEnvoyFilterSpec(port, id, rule, always)
<1>1. PermissionMatches(permission, conn)
  BY DEF PermissionMatches
<1>2. filter.action = "ALLOW" /\ filter.policies = ShootPolicies(permission, principals)
  BY DEF BuildProxyEnvoyFilterSpec
<1>3. (\E p \in ShootPolicies(permission, principals) : PolicyMatches(p, conn))
         <=> Matched(principals, conn)
  <2> HIDE DEF permission, principals
  <2> QED BY <1>1, ShootPoliciesMatch
<1>4. ToLower(rule.action) = "allow"
  BY DEF ToLower, Spellings
<1> QED
  BY <1>2, <1>3, <1>4, AllowPrincipals DEF Admits, RuleAdmits

\* For an ALLOW rule, the ingress filter admits of the traffic to the shoot
\* what the rule means.
THEOREM IngressFilterFollowsAllowRule ==
    ASSUME NEW id, NEW rule, NEW always, NEW conn,
           conn.remote_ip \in Addr, IsStrictSuffix(id, conn.serverName),
           rule.action = "ALLOW"
    PROVE  Admits(CreateIngressConfigPatchFromRule(rule, id, always), conn)
              <=> RuleAdmits(rule, always, conn)
<1> DEFINE permission == [on |-> "requested_server_name", suffix |-> id]
           principals == RuleCIDRsToPrincipal(rule, always)
           filter == CreateIngressConfigPatchFromRule(rule, id, always)
<1>1. PermissionMatches(permission, conn)
  BY DEF PermissionMatches
<1>2. filter.action = "ALLOW" /\ filter.policies = ShootPolicies(permission, principals)
  BY DEF CreateIngressConfigPatchFromRule
<1>3. (\E p \in ShootPolicies(permission, principals) : PolicyMatches(p, conn))
         <=> Matched(principals, conn)
  <2> HIDE DEF permission, principals
  <2> QED BY <1>1, ShootPoliciesMatch
<1>4. ToLower(rule.action) = "allow"
  BY DEF ToLower, Spellings
<1> QED
  BY <1>2, <1>3, <1>4, AllowPrincipals DEF Admits, RuleAdmits

-----------------------------------------------------------------------------
(* Prefixes and suffixes, element by element *)

LEMMA PrefixAt ==
    ASSUME NEW S, NEW q \in Seq(S), NEW r \in Seq(S)
    PROVE  IsPrefix(q, r) <=>
              Len(q) <= Len(r) /\ \A i \in 1 .. Len(q) : q[i] = r[i]
<1>1. Len(q) \in Nat /\ Len(r) \in Nat
  BY LenProperties
<1>2. SubSeq(q, 1, Len(q)) = q
  BY SubSeqFull
<1>3. ASSUME Len(q) <= Len(r)
      PROVE  SubSeq(q, 1, Len(q)) = SubSeq(r, 1, Len(q))
                <=> \A i \in 1 .. Len(q) : q[i] = r[i]
  <2> DEFINE p == SubSeq(r, 1, Len(q))
  <2>1. \A i \in 1 .. Len(q) : r[i] \in S
    BY <1>1, <1>3, ElementOfSeq
  <2>2. p \in Seq(S) /\ Len(p) = Len(q) /\ \A i \in 1 .. Len(q) : p[i] = r[i]
    BY <1>1, <2>1, SubSeqProperties
  <2> HIDE DEF p
  <2>3. q = p <=> \A i \in 1 .. Len(q) : q[i] = p[i]
    BY <2>2, SeqEqual
  <2>4. q = p <=> \A i \in 1 .. Len(q) : q[i] = r[i]
    BY <2>2, <2>3
  <2> QED
    BY <1>2, <2>4 DEF p
<1> QED
  BY <1>3 DEF IsPrefix

LEMMA ReverseType ==
    ASSUME NEW S, NEW q \in Seq(S)
    PROVE  /\ Reverse(q) \in Seq(S) /\ Len(Reverse(q)) = Len(q)
           /\ \A i \in 1 .. Len(q) : Reverse(q)[i] = q[Len(q) - i + 1]
<1>1. Len(q) \in Nat
  BY LenProperties
<1>2. \A i \in 1 .. Len(q) : q[Len(q) - i + 1] \in S
  BY <1>1, ElementOfSeq
<1> QED
  BY <1>1, <1>2 DEF Reverse

LEMMA SuffixAt ==
    ASSUME NEW S, NEW q \in Seq(S), NEW r \in Seq(S)
    PROVE  IsSuffix(q, r) <=>
              /\ Len(q) <= Len(r)
              /\ \A i \in 1 .. Len(q) : q[i] = r[Len(r) - Len(q) + i]
<1>1. Len(q) \in Nat /\ Len(r) \in Nat
  BY LenProperties
<1>2. IsSuffix(q, r) <=>
         /\ Len(q) <= Len(r)
         /\ \A i \in 1 .. Len(q) : Reverse(q)[i] = Reverse(r)[i]
  BY ReverseType, PrefixAt DEF IsSuffix
<1>3. ASSUME Len(q) <= Len(r)
      PROVE  (\A i \in 1 .. Len(q) : Reverse(q)[i] = Reverse(r)[i])
                <=> \A i \in 1 .. Len(q) : q[i] = r[Len(r) - Len(q) + i]
  <2>1. ASSUME \A i \in 1 .. Len(q) : Reverse(q)[i] = Reverse(r)[i],
               NEW i \in 1 .. Len(q)
        PROVE  q[i] = r[Len(r) - Len(q) + i]
    <3>1. Len(q) - i + 1 \in 1 .. Len(q) /\ Len(q) - i + 1 \in 1 .. Len(r)
      BY <1>1, <1>3
    <3>2. Reverse(q)[Len(q) - i + 1] = Reverse(r)[Len(q) - i + 1]
      BY <2>1, <3>1
    <3>3. /\ Reverse(q)[Len(q) - i + 1] = q[Len(q) - (Len(q) - i + 1) + 1]
          /\ Reverse(r)[Len(q) - i + 1] = r[Len(r) - (Len(q) - i + 1) + 1]
      BY <3>1, ReverseType
    <3>4. /\ Len(q) - (Len(q) - i + 1) + 1 = i
          /\ Len(r) - (Len(q) - i + 1) + 1 = Len(r) - Len(q) + i
      BY <1>1
    <3> QED
      BY <3>2, <3>3, <3>4
  <2>2. ASSUME \A i \in 1 .. Len(q) : q[i] = r[Len(r) - Len(q) + i],
               NEW i \in 1 .. Len(q)
        PROVE  Reverse(q)[i] = Reverse(r)[i]
    <3>1. Len(q) - i + 1 \in 1 .. Len(q) /\ i \in 1 .. Len(r)
      BY <1>1, <1>3
    <3>2. q[Len(q) - i + 1] = r[Len(r) - Len(q) + (Len(q) - i + 1)]
      BY <2>2, <3>1
    <3>3. Len(r) - Len(q) + (Len(q) - i + 1) = Len(r) - i + 1
      BY <1>1
    <3> QED
      BY <3>1, <3>2, <3>3, ReverseType
  <2> QED
    BY <2>1, <2>2
<1> QED
  BY <1>2, <1>3

-----------------------------------------------------------------------------
(* Short shoot IDs, server names and headers *)

\* What tells shoots with these technical IDs apart in the ingress chain: no
\* short ID ends with that of another shoot.
NoShortIDEndsWithAnother(ids) ==
    \A s, t \in DOMAIN ids :
        s # t => ~ IsSuffix(ComputeShortShootID(ids[s]), ComputeShortShootID(ids[t]))

\* What names and server names are made of, "gu" spelled out for the provers.
Part == STRING \cup {"gu"}

LEMMA SeqOfParts ==
    ASSUME NEW id \in Seq(STRING)
    PROVE  id \in Seq(Part)
<1>1. STRING \subseteq Part
  BY Zenon DEF Part
<1>2. Len(id) \in Nat /\ id \in [1 .. Len(id) -> STRING]
  BY LenProperties
<1>3. id \in [1 .. Len(id) -> Part]
  BY <1>1, <1>2
<1> QED
  BY <1>2, <1>3, IsASeq

\* The cases of ComputeShortShootID, of which exactly one applies.
LEMMA ShortShootIDCases ==
    ASSUME NEW id, Len(id) \in Nat, Len(id) # 0
    PROVE  ComputeShortShootID(id) =
              IF Len(id) = 1 \/ id[1] # "shoot" THEN id
              ELSE IF Len(id) = 2 THEN Tail(id)
              ELSE SubSeq(id, IF id[2] = "" THEN 3 ELSE 2, Len(id))
<1> DEFINE n     == Len(id)
           first == id[1]
           tail  == Tail(id)
           rest  == SubSeq(id, IF id[2] = "" THEN 3 ELSE 2, n)
<1>1. ComputeShortShootID(id) =
         CASE n = 1 \/ first # "shoot" -> id
           [] n = 2 /\ first = "shoot" -> tail
           [] n > 2 /\ first = "shoot" -> rest
  BY DEF ComputeShortShootID
<1>2. n \in Nat /\ n # 0
  OBVIOUS
<1> HIDE DEF n, first, tail, rest
<1>3. ComputeShortShootID(id) =
         IF n = 1 \/ first # "shoot" THEN id ELSE IF n = 2 THEN tail ELSE rest
  BY <1>1, <1>2
<1> QED
  BY <1>3 DEF n, first, tail, rest

\* Cutting "shoot-" or "shoot--" off leaves a sequence of parts.
LEMMA ShortIDType ==
    ASSUME NEW id \in Seq(STRING) \ {<<>>}
    PROVE  ComputeShortShootID(id) \in Seq(Part)
<1> DEFINE n == Len(id)
           from == IF id[2] = "" THEN 3 ELSE 2
<1>1. id \in Seq(Part) /\ id # <<>>
  BY SeqOfParts
<1>2. n \in Nat /\ n # 0
  BY <1>1, EmptySeq
<1>3. ComputeShortShootID(id) = IF n = 1 \/ id[1] # "shoot" THEN id
                                ELSE IF n = 2 THEN Tail(id)
                                ELSE SubSeq(id, from, n)
  BY <1>2, ShortShootIDCases
<1>4. from = 2 \/ from = 3
  OBVIOUS
<1>5. \A i \in 1 .. n : id[i] \in Part
  BY <1>1, ElementOfSeq
<1>6. Tail(id) \in Seq(Part)
  BY <1>1
<1> HIDE DEF n, from
<1>7. SubSeq(id, from, n) \in Seq(Part)
  <2>1. from \in Int /\ n \in Int /\ \A i \in from .. n : i \in 1 .. n
    BY <1>2, <1>4
  <2> QED
    BY <1>5, <2>1, SubSeqProperties
<1> QED
  BY <1>1, <1>3, <1>6, <1>7

\* The server name of a connection ends with the short ID of its shoot after a
\* dash, and with another one only if the short ID itself does.
LEMMA ServerNameEnds ==
    ASSUME NEW id \in Seq(Part), NEW short \in Seq(Part)
    PROVE  IsStrictSuffix(short, <<"gu">> \o id) <=> IsSuffix(short, id)
<1> DEFINE name == <<"gu">> \o id
<1>1. /\ name \in Seq(Part) /\ Len(name) = Len(id) + 1
      /\ \A i \in 1 .. Len(id) : name[i + 1] = id[i]
  <2>1. <<"gu">> \in Seq(Part) /\ Len(<<"gu">>) = 1
    <3>1. "gu" \in Part
      BY DEF Part
    <3> QED
      BY <3>1
  <2>2. Len(id) \in Nat
    BY LenProperties
  <2>3. /\ name \in Seq(Part) /\ Len(name) = 1 + Len(id)
        /\ \A i \in 1 .. 1 + Len(id) :
              name[i] = IF i <= 1 THEN <<"gu">>[i] ELSE id[i - 1]
    BY <2>1, ConcatProperties
  <2> HIDE DEF name
  <2>4. \A i \in 1 .. Len(id) : i + 1 \in 1 .. 1 + Len(id) /\ ~ (i + 1 <= 1) /\ (i + 1) - 1 = i
    BY <2>2
  <2> QED
    BY <2>2, <2>3, <2>4
<1> HIDE DEF name
<1>2. Len(id) \in Nat /\ Len(short) \in Nat
  BY LenProperties
<1>3. IsSuffix(short, name) <=>
         /\ Len(short) <= Len(name)
         /\ \A i \in 1 .. Len(short) : short[i] = name[Len(name) - Len(short) + i]
  BY <1>1, SuffixAt
<1>4. IsSuffix(short, id) <=>
         /\ Len(short) <= Len(id)
         /\ \A i \in 1 .. Len(short) : short[i] = id[Len(id) - Len(short) + i]
  BY SuffixAt
<1>5. CASE Len(short) <= Len(id)
  <2>1. ASSUME NEW i \in 1 .. Len(short)
        PROVE  name[Len(name) - Len(short) + i] = id[Len(id) - Len(short) + i]
    <3>1. /\ Len(id) - Len(short) + i \in 1 .. Len(id)
          /\ Len(name) - Len(short) + i = (Len(id) - Len(short) + i) + 1
      BY <1>1, <1>2, <1>5
    <3> QED
      BY <1>1, <3>1
  <2>2. Len(short) <= Len(name) /\ Len(short) # Len(name)
    BY <1>1, <1>2, <1>5
  <2>3. short # name
    BY <2>2
  <2> QED
    BY <1>3, <1>4, <1>5, <2>1, <2>2, <2>3 DEF IsStrictSuffix, name
<1>6. CASE ~ (Len(short) <= Len(id))
  <2>1. ASSUME IsSuffix(short, name) PROVE short = name
    <3>1. Len(short) = Len(name)
      BY <1>1, <1>2, <1>3, <1>6, <2>1
    <3>2. \A i \in 1 .. Len(short) : Len(name) - Len(short) + i = i
      BY <1>1, <1>2, <3>1
    <3> QED
      BY <1>1, <1>3, <2>1, <3>1, <3>2, SeqEqual
  <2> QED
    BY <1>4, <1>6, <2>1 DEF IsStrictSuffix, name
<1> QED
  BY <1>5, <1>6

LEMMA SuffixOfItself ==
    ASSUME NEW S, NEW q \in Seq(S)
    PROVE  IsSuffix(q, q)
<1>1. Len(q) \in Nat /\ \A i \in 1 .. Len(q) : Len(q) - Len(q) + i = i
  BY LenProperties
<1> QED
  BY <1>1, SuffixAt

\* A destination header holds the technical ID of its shoot whole, as its one
\* inner label.
LEMMA HeaderNames ==
    ASSUME NEW first, NEW id, NEW last, NEW other
    PROVE  HasInnerLabel(<<first, id, last>>, other) <=> other = id
<1> DEFINE labels == <<first, id, last>>
<1>1. Len(labels) = 3 /\ labels[2] = id
  OBVIOUS
<1> HIDE DEF labels
<1>2. \A i \in 1 .. Len(labels) : 1 < i /\ i < Len(labels) <=> i = 2
  BY <1>1
<1>3. 2 \in 1 .. Len(labels)
  BY <1>1
<1>4. HasInnerLabel(labels, other) <=> labels[2] = other
  BY <1>2, <1>3 DEF HasInnerLabel
<1> QED
  BY <1>1, <1>4 DEF labels
=============================================================================
