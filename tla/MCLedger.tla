------------------------------ MODULE MCLedger ------------------------------
(* Constants of the small ledgers that TLC explores.                        *)
EXTENDS Ledger, TLC

CONSTANTS r1, r2, o1, o2, p1, p2, q1, c1, c2

\* One second of lease; deadlines one and two seconds after creation.
MCDurations == [pr |-> 1, full |-> 2]
MCRunLimits == [pr |-> 2, full |-> 3]

\* Bound: one of three scenes.  Either reports alone; or one run with one
\* operation and every other call; or two full runs and two operations of one
\* owner with the calls that move money under execution leases: cancelling,
\* confirming a stop, finalizing and claiming a recovery touch no operation and
\* only take permissions away.
OneScene ==
  \/ DOMAIN runs = {}
  \/ /\ DOMAIN reports = {}
     /\ Cardinality(DOMAIN runs) = 1 /\ Cardinality(DOMAIN ops) <= 1
  \/ /\ DOMAIN terminal = {} /\ DOMAIN reports = {}
     /\ \A r \in DOMAIN runs :
          /\ runs[r].profile = "full" /\ runs[r].kind = "execution"
          /\ ~runs[r].cancel /\ ~runs[r].stop
     /\ Cardinality({c.owner : c \in claims}) <= 1

MCSymmetry == Permutations(Runs) \cup Permutations(Owners)
              \cup Permutations(Operations) \cup Permutations(Reports)
=============================================================================
