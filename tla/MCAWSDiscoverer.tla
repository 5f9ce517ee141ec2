--------------------------- MODULE MCAWSDiscoverer ---------------------------
EXTENDS AWSDiscoverer

Cfg(r, f, m) == [region |-> r, filtered |-> f, matched |-> m]

\* A region with an RDS instance and a cluster, and one with an instance.
MCInstances == {"db", "cache", "far"}
MCRegionOf  == [i \in MCInstances |-> IF i = "far" THEN "r2" ELSE "r1"]
MCKindOf    == [i \in MCInstances |-> IF i = "cache" THEN "ec" ELSE "rds"]
MCCfgs      == {Cfg("r1", FALSE, {}), Cfg("r1", TRUE, {"cache"}), Cfg("r2", FALSE, {})}
=============================================================================
