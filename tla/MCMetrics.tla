------------------------------ MODULE MCMetrics ------------------------------
EXTENDS Metrics

E(a, s) == [addr |-> a, spec |-> s]

MCSecretSpecs == {"secret"}

\* One address that a pod and the configuration fight for.
SharedPodTargets == {E("both", "plain"), E("both", "secret")}
SharedConfigs    == {<<>>, <<E("both", "plain")>>, <<E("both", "cfg")>>}

\* Two addresses, each named by one source only.
OwnPodTargets == {E("own", "plain"), E("own", "secret")}
OwnConfigs    == {<<>>, <<E("cfg", "cfg1")>>}
=============================================================================
