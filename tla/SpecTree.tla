------------------------------ MODULE SpecTree ------------------------------
(***************************************************************************)
(* Specifications as trees: a path is a sequence of JSON field names, a    *)
(* type says what can stand at each path, a tree what does.  A converter   *)
(* of the provider is the set of the paths it carries over: everything     *)
(* else of it, nil guards, loops and renamings, keeps what is there.       *)
(* A list has one element at most, a map the one key it is used with.      *)
(***************************************************************************)
EXTENDS Naturals, Sequences, TLC

Node == "node"     \* an object that is there, whatever it holds
Absent == "absent" \* nothing is there

-----------------------------------------------------------------------------
(* Types                                                                   *)

Leaves(leaf, names) == [p \in {<<n>> : n \in names} |-> leaf]

\* strings, numbers, enumerations, lists and maps of strings
Text(names) == Leaves("text", names)
Flag(names) == Leaves("flag", names)
Yaml(names) == Leaves("yaml", names)
Quantity(names) == Leaves("quantity", names)

Under(n, t) == [p \in {<<n>> \o q : q \in DOMAIN t} |-> t[Tail(p)]]
Struct(n, t) == (<<n>> :> "struct") @@ Under(n, t)
List(n, t) == (<<n>> :> "list") @@ Under(n, t)

-----------------------------------------------------------------------------
(* Converters                                                              *)

Fields(names) == {<<n>> : n \in names}
Nest(n, converter) == {<<n>>} \cup {<<n>> \o p : p \in converter}

-----------------------------------------------------------------------------
(* Trees                                                                   *)

IsUnder(p, q) == Len(p) < Len(q) /\ SubSeq(q, 1, Len(p)) = p
Prefixes(p) == {SubSeq(p, 1, i) : i \in 1..(Len(p) - 1)}
Grow(paths) == paths \cup UNION {Prefixes(p) : p \in paths}

IsLeaf(t, p) == t[p] \notin {"struct", "list"}

Nothing == [p \in {} |-> Node]
At(tree, p) == IF p \in DOMAIN tree THEN tree[p] ELSE Absent
Keep(tree, paths) == [p \in {p \in DOMAIN tree : p \in paths} |-> tree[p]]
Lose(tree, paths) == [p \in {p \in DOMAIN tree : p \notin paths} |-> tree[p]]

\* "bare" lacks the final newline, "alt" is another way to write "one".
Texts(leaf) ==
  CASE leaf = "flag" -> {"zero", "one"}
    [] leaf = "yaml" -> {"one", "bare", "alt", "two"}
    [] OTHER -> {"one", "alt", "two"}

\* KustomizationStringToRaw and KustomizationRawToString, one after the other;
\* the platform itself rewrites quantities, and no other text.
Canon(leaf, v) ==
  IF \/ leaf = "yaml" /\ v \in {"bare", "alt"}
     \/ leaf = "quantity" /\ v = "alt"
    THEN "one" ELSE v

-----------------------------------------------------------------------------
(* The comparison                                                          *)

\* FieldPresence: what the user wrote; of a list, all there is on either side.
Compared(t, d, o) ==
  {p \in DOMAIN d \cup DOMAIN o :
    /\ t[p] # "struct"
    /\ p \in DOMAIN d \/ \E q \in DOMAIN d : t[q] = "list" /\ IsUnder(q, p)}

\* isZeroValue, areEquivalentResourceQuantities: two zeros are equal, and so
\* are any two strings that can be read as the same quantity.
Same(t, p, v, w) ==
  \/ v = w
  \/ {v, w} \subseteq {"zero", Absent}
  \/ t[p] # "yaml" /\ {v, w} = {"one", "alt"}

\* An apply changes what it names, replaces lists and takes away what it names
\* as null.
Merged(t, r, sent, cleared) ==
  LET replaced == {q \in DOMAIN sent : t[q] = "list"}
      kept == {p \in DOMAIN r : p \notin cleared /\ ~\E q \in replaced : IsUnder(q, p)} IN
    [p \in DOMAIN sent |-> Canon(t[p], sent[p])] @@ Keep(r, kept)
=============================================================================
