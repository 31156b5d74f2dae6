--------------------------- MODULE MCCombinedRuns ---------------------------
(* Small instances of CombinedRuns: a run of its own, or two children.      *)
EXTENDS CombinedRuns, TLC

CONSTANTS r1, r2, o1, o2, p1, p2, n1, n2, v1, v2, pr, full

MCFixture == [trials |-> 1, calls |-> 0, input |-> 0, output |-> 0, cost |-> 0]
MCReservations == {MCFixture}
MCZero == [input |-> 0, output |-> 0, cost |-> 0]
MCUsages == {MCZero}
MCPerCall == [input |-> 0, output |-> 0]
MCLimits ==
  [x \in Profiles |->
    [concurrent |-> IF x = full THEN 1 ELSE 2, trials |-> 2, calls |-> 0, cost |-> 0, tokens |-> 0,
     global |-> 0, elapsed |-> 2]]

\* A report of the stop without the usage, or of the usage alone.
Partial(v) == ~events[v].stopped \/ events[v].usage = NoUsage

\* Bound: two epochs, and one run with two owners and two events, one of them
\* partial; or two children prepared at the start, with one owner, one event, not
\* partial, and conditions that stay current, until the combined run has its receipt.
OneRunOrCombined ==
  /\ \A g \in grants : g.epoch <= 2
  /\ IF combined = Null
       THEN /\ Cardinality(DOMAIN runs) <= 1
            /\ Runs \ DOMAIN runs \subseteq current
            /\ \A r \in DOMAIN runs : runs[r].profile = pr
            /\ Cardinality({v \in DOMAIN events : Partial(v)}) <= 1
       ELSE /\ combined = Limits[FullProfile].elapsed
            /\ combinedReceipt \in {Null, lastClock}
            /\ current = Runs /\ Cardinality(DOMAIN events) <= 1
            /\ \A v \in DOMAIN events : ~Partial(v)
            /\ \A g \in grants : g.owner = o1
            /\ Cardinality({bindings[p].entry : p \in DOMAIN bindings}) <= 1

\* Bound: runs begin at the start, and o1 is the one who begins them.
BeginAtOnce ==
  /\ \A r \in DOMAIN runs : runs[r].created = 0
  /\ \A g \in grants : g.epoch = 1 => g.owner = o1

MCSymmetry == Permutations(Runs) \cup Permutations(Operations)
                \cup Permutations(Entries) \cup Permutations(Events)
=============================================================================
