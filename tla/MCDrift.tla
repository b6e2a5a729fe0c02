------------------------------- MODULE MCDrift -------------------------------
(***************************************************************************)
(* One field of each treatment, and children whose trees differ in a leaf, *)
(* an array, an empty section, a null and a description.                   *)
(***************************************************************************)
EXTENDS Drift, Children

CONSTANTS MaxEdits, MaxForeign

MCFields == {"fqdn", "dashboard", "enabled", "qps", "shard", "subdomain", "workspace", "secretRef"}
MCValueTyped == {"fqdn", "shard", "subdomain", "workspace"}
MCInherited == {"dashboard", "enabled", "shard"}
MCGate == [f \in {"qps"} |-> "enabled"]
MCValues == {"v1", "v2", "floor"}

\* An explicit zero of a Go value cannot be sent, and is left out here.
MCUserValues ==
  [f \in MCFields |-> {Unset, "v1"} \cup (IF f \in MCValueTyped THEN {"v2"} ELSE {Zero})]
MCForeignValues == [f \in MCFields |-> {"v2", Zero}]
MCFloor == [f \in {"qps"} |-> "floor"]
MCLimit == [edits |-> MaxEdits, foreign |-> MaxForeign]

\* Names differ: two children of one name, one of them without a namespace,
\* cannot be told apart in the export (Found), which no Apply can mend.
Stage(ns) == [kind |-> "Stage", namespace |-> ns, name |-> IF ns = "" THEN "s" ELSE "t"]
Project == [kind |-> "Project", namespace |-> "", name |-> "p"]

With(spec) == Object([spec |-> Object(spec)])
Plain == With([a |-> Leaf("x")])
Listed == With([a |-> Array(<<Leaf("x"), Leaf("y")>>)])
Shorter == With([a |-> Array(<<Leaf("x")>>)])
Hollow == With(NoFields)
Nulled == With([a |-> Null, b |-> Array(<<>>)])
Described == With([a |-> Leaf("x"), description |-> Leaf("d")])

One(id, t) == [k \in {id} |-> t]
MCManifests ==
  {NoFields} \cup {One(Stage(""), t) : t \in {Plain, Listed, Hollow, Nulled}}
    \cup {One(Stage("own"), Plain)}
    \cup {One(Project, t) : t \in {Described, Plain}}
MCChildrenUpToDate(wanted, children, appliedBefore) ==
  ResourcesUpToDate(wanted, Exported(children), appliedBefore)

MCForeignTrees == {Plain, Shorter, With([a |-> Leaf("z")]), Hollow}
=============================================================================
