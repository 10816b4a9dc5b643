------------------------------- MODULE Releases -------------------------------
(***************************************************************************)
(* The versions of Moody Blues and the cache of the release check           *)
(* (semver.utils.ts, update.check.ts, update.cache.ts).                     *)
(*                                                                          *)
(* A version is [core, pre]: its three numbers, and the identifiers of its  *)
(* prerelease.  An identifier is [numeric, rank]: a number, or a word by    *)
(* its place among words.                                                   *)
(***************************************************************************)
EXTENDS Integers, Sequences

CONSTANT Ttl            \* UPDATE_CACHE_TTL_MS

Sign(n) == IF n > 0 THEN 1 ELSE IF n < 0 THEN -1 ELSE 0

\* comparePrereleaseIdentifier
CompareIdentifier(left, right) ==
  IF left.numeric = right.numeric THEN Sign(left.rank - right.rank)
  ELSE IF left.numeric THEN -1 ELSE 1

\* The first difference between two sequences, as compare sees it, or 0.
FirstDifference(left, right, compare(_, _)) ==
  LET different == {i \in DOMAIN left \cap DOMAIN right : compare(left[i], right[i]) # 0}
  IN IF different = {} THEN 0
     ELSE LET i == CHOOSE i \in different : \A j \in different : i <= j
          IN compare(left[i], right[i])

\* comparePrerelease: no prerelease at all is the later version.
\* mutant
ComparePrereleaseByLength(left, right) ==
  LET difference == FirstDifference(left, right, CompareIdentifier)
  IN IF difference # 0 THEN difference ELSE Sign(Len(left) - Len(right))
ComparePrerelease(left, right) ==
  LET difference == FirstDifference(left, right, CompareIdentifier)
  IN IF left = <<>> \/ right = <<>> THEN Sign(Len(right) - Len(left))
     ELSE IF difference # 0 THEN difference ELSE Sign(Len(left) - Len(right))

CompareSemver(left, right) ==
  LET core == FirstDifference(left.core, right.core, LAMBDA a, b : Sign(a - b))
  IN IF core # 0 THEN core ELSE ComparePrerelease(left.pre, right.pre)

IsNewer(latest, current) == CompareSemver(latest, current) > 0

\* Section 11 of Semantic Versioning, which the releases follow: the first
\* difference decides; numbers come before words, a prerelease before its release,
\* and a shorter prerelease before one that continues it.
Identifiers == [numeric : BOOLEAN, rank : Int]
Semvers     == [core : [1..3 -> Nat], pre : Seq(Identifiers)]
Lower(x, y) == IF x.numeric = y.numeric THEN x.rank < y.rank ELSE x.numeric
LowerPre(p, q) ==
  \/ \E i \in DOMAIN p \cap DOMAIN q : Lower(p[i], q[i]) /\ \A j \in 1..i-1 : p[j] = q[j]
  \/ Len(p) < Len(q) /\ \A j \in DOMAIN p : p[j] = q[j]
Precedes(v, w) ==
  \/ \E i \in 1..3 : v.core[i] < w.core[i] /\ \A j \in 1..i-1 : v.core[j] = w.core[j]
  \/ v.core = w.core /\ v.pre # <<>> /\ w.pre = <<>>
  \/ v.core = w.core /\ v.pre # <<>> /\ w.pre # <<>> /\ LowerPre(v.pre, w.pre)

\* isCacheFresh: a cache from the future is not fresh.
IsCacheFresh(cache, now) == now - cache.at >= 0 /\ now - cache.at < Ttl
=============================================================================
