--------------------------- MODULE MCDutyScheduler ---------------------------
(* Instance of DutyScheduler for TLC.                                      *)
EXTENDS DutyScheduler, TLC

CONSTANTS s1, c1, c2

OneSender == {s1}
OneCandidate == {c1}
TwoCandidates == {c1, c2}
Symmetry == Permutations(Candidates)

\* auditFraction grows with the envelope; every audit is by chance.
Audits == [k \in Levels |-> 10 * (k + 1)]
\* refreshInterval shrinks as the envelope widens.  New compares only the first
\* of them with RefreshDuration: the wider envelope's may be as long as a
\* refresh, or shorter.
Intervals == [k \in Levels |-> IF k = 0 THEN 3 ELSE 2]
ShortIntervals == [k \in Levels |-> IF k = 0 THEN 2 ELSE 1]
=============================================================================
