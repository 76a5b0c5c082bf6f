----------------------------- MODULE MCMigrate -----------------------------
(* Migrate for TLC: series and episodes, configured in the wrong order.    *)
EXTENDS Migrate

MCTables == <<"episodes", "series">>
MCRaw == {"k1", "K1", "k2", " "}
MCKeys == {"k1", "k2"}
MCNorm == [r \in MCRaw |-> CASE r = "K1" -> "k1" [] r = " " -> "none" [] OTHER -> r]

NoRefs == [t \in {"episodes", "series"} |-> " "]
To(c, k) == [NoRefs EXCEPT ![c] = k]
R(k, ref) == [key |-> k, ref |-> ref]

ToSeries == [t \in {"episodes", "series"} |-> IF t = "episodes" THEN {"series"} ELSE {}]
ToItself == [t \in {"episodes", "series"} |-> IF t = "series" THEN {"series"} ELSE {}]

\* Episodes refer to their series; or a series to an earlier one.
MCSchemas == {ToSeries, ToItself}
OwnSchemas == {ToItself}
MCSources ==
    [t \in {"episodes", "series"} |->
       IF t = "series"
       THEN {<<R("k1", NoRefs), R("k2", To("series", "k1"))>>, <<R(" ", NoRefs), R("k2", NoRefs)>>}
       ELSE {<<R("K1", To("series", "k1")), R("k1", To("series", "K1"))>>,
             <<R("k1", To("series", "k2")), R("k2", To("series", "k1"))>>}]

=============================================================================
