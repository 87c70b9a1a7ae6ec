---------------------------- MODULE MCEngagement ----------------------------
\* Two claimants and two requests in flight, on workflows with a phase of each
\* kind; one step is to be run twice.
EXTENDS Engagement, TLC

CONSTANTS plan, sum, probe, g1, e1, e2, p, a, b, k1, k2, v1, f1

MCWorkflows ==
    {[kinds |-> <<"endpoint">>, steps |-> << <<sum>> >>],
     [kinds |-> <<"checklist", "step">>, steps |-> << <<sum>>, <<plan>> >>],
     [kinds |-> <<"step">>, steps |-> << <<probe>> >>]}
MCRuns == [w \in Works |-> IF w = probe THEN 2 ELSE 1]
MCMinimum == [w \in Works |-> 0]
Perms ==
    Permutations({a, b}) \cup Permutations({k1, k2})
    \cup Permutations({e1, e2})
\* States alike in all that later steps can tell apart: revisions only matter
\* by being equal, a copy that is out of date is only ever refused by the write,
\* one that is up to date is the record, and what a claimant was told only
\* counts while it holds the item.
Unnumbered ==
    [[record EXCEPT !.rev = 0] EXCEPT
        !.work = [w \in Works |-> [record.work[w] EXCEPT !.rev = 0]]]
Informed ==
    {w \in Works : Claimed(record, w) /\
        told[record.work[w].by] = [work |-> w, rev |-> record.work[w].rev]}
Alike ==
    <<Unnumbered, Informed, clock,
      [k \in Callers |-> IF calls[k] = Nothing THEN "idle"
                         ELSE IF calls[k].copy # record THEN "stale"
                         ELSE <<calls[k].at>>]>>
=============================================================================
