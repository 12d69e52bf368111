----------------------------- MODULE VersionOrder -----------------------------
(***************************************************************************)
(* The order of a package's versions (ui/packages.py, sort_maven_versions  *)
(* and _compare_versions).  A version is the sequence of its parts, split  *)
(* at ".", "-" and "_" and lowered: two versions may have the same parts.  *)
(* Two parts that are numbers are compared as numbers, any others as       *)
(* texts, so "9" is before "10", "10" before "1a" and "1a" before "9".     *)
(***************************************************************************)
EXTENDS Integers, Sequences, FiniteSets

CONSTANTS
  Version,   \* version directory names
  Part,      \* what _version_parts makes of the pieces of a name
  Number,    \* the parts that are integers
  Parts,     \* Parts[v]: _version_parts(v)
  Value,     \* Value[n]: the integer
  Text       \* Text[a]: the place of str(a) among the texts

ASSUME PartsAssumption == Number \subseteq Part /\ Parts \in [Version -> Seq(Part)]
ASSUME ValuesAssumption == Value \in [Number -> Nat] /\ Text \in [Part -> Nat]
ASSUME PartsDiffer ==
  /\ \A m, n \in Number : Value[m] = Value[n] => m = n
  /\ \A a, b \in Part : Text[a] = Text[b] => a = b

\* Mutant: numbers are compared as texts too.
PartBelowText(a, b) == Text[a] < Text[b]

\* a is before b where two versions first differ.
PartBelow(a, b) ==
  \/ a \in Number /\ b \in Number /\ Value[a] < Value[b]
  \/ ~(a \in Number /\ b \in Number) /\ Text[a] < Text[b]

\* The places both versions have and where they differ.
Differ(v, w) == {i \in DOMAIN Parts[v] \intersect DOMAIN Parts[w] : Parts[v][i] # Parts[w][i]}

\* _compare_versions(v, w) is negative.
Older(v, w) ==
  \/ Differ(v, w) = {} /\ Len(Parts[v]) < Len(Parts[w])
  \/ \E i \in Differ(v, w) :
       /\ \A j \in Differ(v, w) : i <= j
       /\ PartBelow(Parts[v][i], Parts[w][i])

\* The lists that sorted() may return: no version is right after one it is older
\* than.  The relation need not be transitive, and the order a set is walked in
\* differs from process to process, so there may be several.
Sortings(V) ==
  {s \in [1..Cardinality(V) -> V] :
     /\ \A v \in V : \E i \in DOMAIN s : s[i] = v
     /\ \A i \in 1..Cardinality(V) - 1 : ~Older(s[i + 1], s[i])}

\* The versions a page may call the latest.
Latests(V) == {v \in V : \E s \in Sortings(V) : s[Cardinality(V)] = v}

\* Made of numbers only.
Numeric(v) == \A i \in DOMAIN Parts[v] : Parts[v][i] \in Number

\* What Older is for among numeric versions: w is v with a larger or a further number
\* after a common beginning.
Precedes(v, w) ==
  \E i \in DOMAIN Parts[w] :
    /\ \A j \in 1..i - 1 : j \in DOMAIN Parts[v] /\ Parts[v][j] = Parts[w][j]
    /\ i \in DOMAIN Parts[v] => Value[Parts[v][i]] < Value[Parts[w][i]]
===============================================================================
