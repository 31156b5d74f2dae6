-------------------------- MODULE MCPartitionStores --------------------------
(* A small instance of PartitionStores.                                     *)
EXTENDS PartitionStores, TLC

CONSTANTS co1, co2, pl1, pl2, s1, s2, u1, u2, m1, m2

\* Bound: only one of the two stores has an upload or a commit.
OneStore ==
  \/ corpusUpload = NoUpload /\ DOMAIN corpusCommits = {}
  \/ planUpload = NoUpload /\ DOMAIN planCommits = {}

\* Bound: the grounds of the uploads change once.
OneChange == policyGeneration + contractGeneration + permissionGeneration <= 3

PartitionSymmetry ==
  Permutations(Corpora) \cup Permutations(Plans) \cup Permutations(CorpusParts)
    \cup Permutations(Uploads) \cup Permutations(Managers)
=============================================================================
