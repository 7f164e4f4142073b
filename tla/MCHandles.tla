---- MODULE MCHandles ----
(* Handles with interchangeable threads and addresses. *)
EXTENDS Handles, TLC

CONSTANTS t1, t2, s1, s2, s3, d1, d2

MCThreads == {t1, t2}
MCSessionIds == {s1, s2, s3}
MCDriverIds == {d1, d2}
MCSymmetry == Permutations(MCThreads) \union Permutations(MCSessionIds) \union Permutations(MCDriverIds)
====
