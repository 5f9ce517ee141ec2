--------------------------- MODULE MCConfigUpdates ---------------------------
EXTENDS ConfigUpdates

E(a, s) == [addr |-> a, spec |-> s]

\* A pod at an address of its own and one at an address of the configuration.
MCPodTargets == {E("own", "plain"), E("both", "plain")}

\* Entries come, go and change; one list names an address twice.
MCConfigs ==
  {<<>>,
   <<E("both", "cfg"), E("cfg", "cfg1")>>,
   <<E("cfg", "cfg2")>>,
   <<E("cfg", "cfg1"), E("both", "cfg"), E("cfg", "cfg2")>>}
=============================================================================
