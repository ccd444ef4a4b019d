-------------------------------- MODULE Paths --------------------------------
(***************************************************************************)
(* Paths as the SSH shell and the FTP service see them: split at the       *)
(* slashes.  A path starts with a slash or does not, and its parts are     *)
(* names, ".", ".." or empty ("tmp/" has the parts "tmp" and "").  A        *)
(* directory is the sequence of names that leads to it, <<>> the root.     *)
(***************************************************************************)
EXTENDS Naturals, Sequences, FiniteSets

Absolute(parts) == [absolute |-> TRUE, parts |-> parts]
Relative(parts) == [absolute |-> FALSE, parts |-> parts]

(* The parts that lead nowhere, and with the step up all that are not names. *)
Blank   == ""
Here    == {Blank, "."}
Special == Here \cup {".."}
Part    == STRING \cup Special

(* The names among the parts from i to j, and the steps up.                *)
NamesIn(parts, i, j) == {k \in i..j : parts[k] \notin Special}
UpsIn(parts, i, j)   == {k \in i..j : parts[k] = ".."}

(***************************************************************************)
(* The directory an absolute path stands for, without going through it: a  *)
(* name stays unless somewhere behind it the steps up outnumber the names. *)
(***************************************************************************)
Stays(parts, i) ==
    /\ parts[i] \notin Special
    /\ \A j \in i + 1 .. Len(parts) :
          Cardinality(UpsIn(parts, i + 1, j)) <= Cardinality(NamesIn(parts, i + 1, j))

Staying(parts) == {i \in DOMAIN parts : Stays(parts, i)}

(* The k-th smallest of a set of positions.                                 *)
Place(S, k) == CHOOSE i \in S : Cardinality(S \cap 1..i) = k

Canonical(parts) ==
    [k \in 1..Cardinality(Staying(parts)) |-> parts[Place(Staying(parts), k)]]

(* The directory reached by path from another.                                *)
Reached(path, from) ==
    Canonical(IF path.absolute THEN path.parts ELSE from \o path.parts)

(* All paths of at most n parts over the given ones.                        *)
PathsOver(parts, n) ==
    LET Parts == UNION {[1..k -> parts] : k \in 1..n}
    IN  [absolute : BOOLEAN, parts : Parts]
=============================================================================
