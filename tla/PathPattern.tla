---------------------------- MODULE PathPattern ----------------------------
(***************************************************************************)
(* packages/http/src/path-pattern.ts: how the router, the gateway and the  *)
(* RBAC engine compare a path with a pattern.  A raw path is the sequence  *)
(* of what stands between its slashes; Name gives the name a raw segment   *)
(* decodes to, Empty for nothing between two slashes and Bad for a segment *)
(* that decodeSegment or the test for encoded slashes refuses.  A pattern  *)
(* is a path and whether it ends in /**.                                   *)
(***************************************************************************)
EXTENDS Integers, FiniteSets

CONSTANTS Name,  \* Name[s]: the name raw segment s decodes to
          Empty, \* nothing between two slashes, or at the end
          Bad    \* not decodable, a dot segment, or an encoded slash

\* Element n of the set S in the strict order R, a set of pairs: the one that
\* n - 1 others come before.
Rank(S, R, i) == Cardinality({j \in S : <<j, i>> \in R})
Nth(S, R, n)  == CHOOSE i \in S : Rank(S, R, i) = n - 1

\* normalizePathValue answers null for any other path.
Normalizes(path) == \A i \in DOMAIN path : Name[path[i]] # Bad

\* Mutant of Kept: nothing between two slashes counts as a segment.
KeptUnfiltered(path) == DOMAIN path

\* filter(Boolean)
Kept(path) == {i \in DOMAIN path : Name[path[i]] # Empty}

Earlier(T) == {p \in T \X T : p[1] < p[2]}

\* normalizePathValue: the names of a path that normalizes, in order.
NormalizePath(path) ==
  LET kept  == Kept(path)
      order == Earlier(kept)
  IN [n \in 1..Cardinality(kept) |-> Name[path[Nth(kept, order, n)]]]

\* every() compares by index, and what lies beyond the path is undefined.
MatchPathPattern(pattern, path) ==
  LET base  == NormalizePath(pattern.path)
      names == NormalizePath(path)
  IN /\ Normalizes(pattern.path) /\ Normalizes(path)
     /\ pattern.recursive \/ DOMAIN base = DOMAIN names
     /\ \A i \in DOMAIN base : i \in DOMAIN names /\ names[i] = base[i]
=============================================================================
