---------------------------- MODULE MCAclGarden ----------------------------
(* One Shoot that is edited while its filters are deployed and removed. *)
EXTENDS MCAclExtension, AclGarden

Two == [Valid EXCEPT !.cidrs = <<"home/32", "extra/32">>]
Three == [Valid EXCEPT !.cidrs = <<"home/32", "extra/32", "seed/16">>]

EditedConfigs == {Valid, Two, Three, BadCIDR, NoRule, Malformed}

\* Unset, and a lower limit than the default.
MCChartLimits == {0, 1}
============================================================================
