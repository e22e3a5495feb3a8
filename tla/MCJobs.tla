------------------------------- MODULE MCJobs -------------------------------
(* Few jobs at a time, under the tightest settings that admit them.        *)
EXTENDS Jobs

CONSTANTS l1, l2, f1, f2, g1

With(jobs, met) == [jobs |-> jobs, met |-> met]

Lineups == {With({l1, l2}, {"crash", "cancel"}), With({l1}, Trouble), With({f1}, Trouble),
            With({f1, f2}, {"crash"}), With({l1, f1, g1}, {"cancel"})}
TwoFills == {With({f1, f2}, {})}

Settings == {[research |-> 2, workers |-> 1], [research |-> 2, workers |-> 2],
             [research |-> 3, workers |-> 2], [research |-> 4, workers |-> 2]}
=============================================================================
