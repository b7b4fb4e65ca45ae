------------------------- MODULE MCFilterSemantics --------------------------
(* IPv4 addresses of two bits, IPv6 addresses of four, two shoots of two    *)
(* projects.                                                                *)
EXTENDS FilterSemantics, CidrBlocks

MCMappedPrefix == <<0, 1>>

\* All IPv4 addresses and one IPv6 address at either end.
MCAddr == V4Address \cup {<<0, 0, 0, 1>>, <<1, 0, 1, 1>>}

MCAnyV4 == Written(<<0, 0>>, 0)
MCAnyV6 == Written(<<0, 0, 0, 0>>, 0)
Home4 == Written(<<0, 1>>, 2)
Net4 == Written(<<0, 1>>, 1)            \* with a host bit
Node4 == Written(<<1, 0>>, 1)
Home6 == Written(<<0, 0, 0, 1>>, 4)
Net6 == Written(<<1, 0, 0, 1>>, 1)      \* with host bits
TooLong == Written(<<0, 1>>, 3)
MappedHost == Written(<<0, 1, 0, 1>>, 4)
MappedNet == Written(<<0, 1, 0, 1>>, 3)

MCCidr == {c \in {MCAnyV4, MCAnyV6, Home4, Net4, Node4, Home6, Net6, TooLong,
                  MappedHost, MappedNet} : Parses(c)}

MCCovers == [c \in MCCidr |-> EnvoyRange(c) \cap MCAddr]
MCBlocks == [c \in MCCidr |-> Block(c) \cap MCAddr]

MCShoots == {"s", "t"}

\* Shoot foo of project bar, shoot foo-bar of project bar.
MCTechnicalID ==
    [s \in MCShoots |-> IF s = "s" THEN <<"shoot", "", "bar", "", "foo">>
                                   ELSE <<"shoot", "", "bar", "", "foo", "bar">>]

\* Shoot foo of project bar and shoot foo of project x-bar.
ClashingTechnicalID ==
    [s \in MCShoots |-> IF s = "s" THEN <<"shoot", "", "bar", "", "foo">>
                                   ELSE <<"shoot", "", "x", "bar", "", "foo">>]

RulesWith(lists) ==
    [action : {"ALLOW", "allow", "DENY", "log"},
     type   : {"remote_ip", "DIRECT_REMOTE_IP", "source_ip"},
     cidrs  : lists]

MCRules == RulesWith({<<>>, <<Home4>>, <<Home6, Net4>>, <<Net6>>, <<Home4, TooLong>>,
                      <<MappedHost>>})

\* A mapped CIDR that is not that of a single address.
MappedRules == RulesWith({<<MappedNet>>})

MCAllowedSets == {{}, {Node4}, {Node4, Home6}}
=============================================================================
