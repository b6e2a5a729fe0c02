------------------------------ MODULE Children ------------------------------
(***************************************************************************)
(* The child resources of a spec (argocdResources, kargoResources) and how *)
(* they are compared with what the gateway exports: package children.      *)
(* A manifest is an identity and a JSON tree; only the comparison of the   *)
(* trees matters, so encodings, error texts and report order are left out. *)
(***************************************************************************)
EXTENDS Naturals, Sequences, FiniteSets

CONSTANT HomeNamespace \* where the platform puts a child without a namespace

\* JSON trees: a scalar, null, an object or an array.
Leaf(v) == [leaf |-> v]
Null == [null |-> TRUE]
Object(f) == [fields |-> f]
Array(s) == [items |-> s]
NoFields == [k \in {} |-> Null]

IsObject(t) == "fields" \in DOMAIN t
IsArray(t) == "items" \in DOMAIN t

\* isEmptyJSONValue: no content, so that absent says the same.
IsEmpty(t) ==
  \/ t = Null
  \/ IsObject(t) /\ DOMAIN t.fields = {}
  \/ IsArray(t) /\ t.items = <<>>

\* The fields of metadata and of the object that the server owns.
ServerFields == {"status", "uid"}

Keep(t, keys) == Object([k \in DOMAIN t.fields \cap keys |-> t.fields[k]])
Drop(t, keys) == Keep(t, DOMAIN t.fields \ keys)

\* strip: neither status nor what the API server writes into metadata counts.
Strip(t) == Drop(t, ServerFields)

-----------------------------------------------------------------------------
\* matchesSubset: every path of the desired tree, and no other, is compared.
RECURSIVE MatchesSubset(_, _)
MatchesSubset(d, o) ==
  IF IsObject(d) THEN
    IF IsObject(o)
      THEN \A k \in DOMAIN d.fields :
             IF k \in DOMAIN o.fields
               THEN MatchesSubset(d.fields[k], o.fields[k])
               ELSE IsEmpty(d.fields[k])
      ELSE IsEmpty(d) /\ o = Null
  ELSE IF IsArray(d) THEN
    IF IsArray(o)
      THEN /\ Len(d.items) = Len(o.items)
           /\ \A i \in DOMAIN d.items : MatchesSubset(d.items[i], o.items[i])
      ELSE IsEmpty(d) /\ o = Null
  ELSE d = o

\* A child that the export does not show under the identity of the spec, but
\* exactly once under its name in some namespace, is taken for it.
Candidates(observed, id) ==
  IF id \in DOMAIN observed THEN {id}
  ELSE {k \in DOMAIN observed : id.namespace = "" /\ k.kind = id.kind /\ k.name = id.name}

\* observedResource, and the lookup of Compare: the one candidate, or none.
Found(observed, id) == Cardinality(Candidates(observed, id)) = 1
Observed(observed, id) == observed[CHOOSE k \in Candidates(observed, id) : TRUE]

\* Compare: the children the next Apply has to create, and those it has to
\* bring back in line.
Missing(desired, observed) == {id \in DOMAIN desired : ~Found(observed, id)}
Changed(desired, observed) ==
  {id \in DOMAIN desired :
    Found(observed, id) /\ ~MatchesSubset(desired[id], Observed(observed, id))}
Differs(desired, observed) == Missing(desired, observed) \cup Changed(desired, observed)

\* Index, IndexStructs
Index(manifests) == [id \in DOMAIN manifests |-> Strip(manifests[id])]

\* kargoProjectDescriptionOnlyDrift: the export leaves the description of a
\* Project out; nothing else of it may differ.
HasDescription(t) ==
  /\ "spec" \in DOMAIN t.fields /\ IsObject(t.fields.spec)
  /\ "description" \in DOMAIN t.fields.spec.fields
WithoutDescription(t) ==
  IF HasDescription(t) THEN Object([t.fields EXCEPT !.spec = Drop(@, {"description"})]) ELSE t

DescriptionOnly(desired, observed) ==
  /\ Missing(desired, observed) = {}
  /\ \A id \in Changed(desired, observed) :
       /\ id.kind = "Project"
       /\ ~HasDescription(Observed(observed, id))
       /\ MatchesSubset(WithoutDescription(desired[id]), Observed(observed, id))

\* kargoResourcesUpToDate, argocdResourcesUpToDate
AppliedOnce(manifests, exported, appliedBefore) == \* mutant: the hash alone is trusted
  appliedBefore \/ Differs(Index(manifests), Index(exported)) = {}

ResourcesUpToDate(manifests, exported, appliedBefore) ==
  LET desired == Index(manifests)
      observed == Index(exported) IN
    \/ Differs(desired, observed) = {}
    \/ appliedBefore /\ DescriptionOnly(desired, observed)

-----------------------------------------------------------------------------
(* The platform's children.                                                 *)

Home(id) == IF id.namespace = "" THEN [id EXCEPT !.namespace = HomeNamespace] ELSE id

\* An Apply changes the keys it names; null takes a key away.
RECURSIVE Merge(_, _)
Merge(old, new) ==
  IF ~IsObject(new) THEN new
  ELSE LET base == IF IsObject(old) THEN old.fields ELSE NoFields
           named == {k \in DOMAIN new.fields : new.fields[k] # Null} IN
         Object([k \in (DOMAIN base \ DOMAIN new.fields) \cup named |->
                   IF k \notin named THEN base[k]
                   ELSE Merge(IF k \in DOMAIN base THEN base[k] ELSE Null, new.fields[k])])

ApplyChildren(children, new) ==
  LET homes == {Home(id) : id \in DOMAIN new} IN
    [k \in DOMAIN children \cup homes |->
      LET old == IF k \in DOMAIN children THEN children[k] ELSE Null IN
        IF k \in homes
          THEN Merge(old, new[CHOOSE id \in DOMAIN new : Home(id) = k])
          ELSE old]

\* An export leaves out empty containers and the description of a Project, and
\* adds defaults and what the server keeps.
RECURSIVE Shown(_)
Shown(t) ==
  IF IsObject(t) THEN Object([k \in {j \in DOMAIN t.fields : ~IsEmpty(t.fields[j])} |-> Shown(t.fields[k])])
  ELSE IF IsArray(t) THEN Array([i \in DOMAIN t.items |-> Shown(t.items[i])])
  ELSE t

Defaulted(t) ==
  LET extra == [status |-> Leaf("Healthy"), uid |-> Leaf("1"), kept |-> Leaf("default")] IN
    Object([k \in DOMAIN t.fields \cup DOMAIN extra |->
              IF k \in DOMAIN t.fields THEN t.fields[k] ELSE extra[k]])

Exported(children) ==
  [k \in DOMAIN children |->
    LET shown == Defaulted(Shown(children[k])) IN
      IF k.kind = "Project" THEN WithoutDescription(shown) ELSE shown]

-----------------------------------------------------------------------------
(* What it means for a tree to hold another, path by path.                  *)
Steps == <<"#1", "#2", "#3">>

Branches(t) ==
  IF IsObject(t) THEN {<<k, t.fields[k]>> : k \in DOMAIN t.fields}
  ELSE IF IsArray(t) THEN {<<Steps[i], t.items[i]>> : i \in DOMAIN t.items}
  ELSE {}

RECURSIVE Nodes(_)
Nodes(t) ==
  {<<<<>>, t>>} \cup
    UNION {{<<<<c[1]>> \o n[1], n[2]>> : n \in Nodes(c[2])} : c \in Branches(t)}

AtPath(t, p) == {n[2] : n \in {m \in Nodes(t) : m[1] = p}}

\* An empty node asks for no content, an inner node for its own shape and a
\* leaf for its value.
HoldsNode(o, p, want) ==
  LET got == AtPath(o, p) IN
    CASE want = Null -> got \subseteq {Null}
      [] IsObject(want) ->
           \/ \E g \in got : IsObject(g)
           \/ IsEmpty(want) /\ got \subseteq {Null}
      [] IsArray(want) ->
           \/ \E g \in got : IsArray(g) /\ Len(g.items) = Len(want.items)
           \/ IsEmpty(want) /\ got \subseteq {Null}
      [] OTHER -> got = {want}

Holds(o, d) == \A n \in Nodes(d) : HoldsNode(o, n[1], n[2])

\* The description of a Project counts only until it has been applied: it is
\* the one field that is written and never seen again.
Asked(wanted, id, appliedBefore) ==
  LET t == Strip(wanted[id]) IN
    IF id.kind = "Project" /\ appliedBefore THEN WithoutDescription(t) ELSE t

Held(wanted, children, appliedBefore) ==
  \A id \in DOMAIN wanted :
    /\ Home(id) \in DOMAIN children
    /\ Holds(Strip(Exported(children)[Home(id)]), Asked(wanted, id, appliedBefore))
=============================================================================
