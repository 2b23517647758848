---------------------------- MODULE AlertingProps ----------------------------
EXTENDS Alerting

\* alerting.ts:85, storeFindings returns what is new: at most one evaluation tells of an alert, whatever
\* the tick, requests, failures and a restart repeat.  Its mail goes out again only when the answer
\* to the one before was lost, and no oftener than the client tries; an alert is marked as notified
\* only when a mail was answered.
MailOnce ==
    \A p \in DOMAIN alerts :
        LET a == alerts[p]
        IN  /\ a.tellers <= 1
            /\ a.mails <= a.lost + 1 /\ a.mails <= Attempts
            /\ a.notified => a.mails = a.lost + 1

\* The failures that make a burst at x, u's failed attempts
BurstAt(x, u) == {i \in DOMAIN log : log[i].user = u /\ log[i].outcome = "failure" /\ log[i].at \in x..(x + FailedWindow)}

\* No window that holds time x has more sign-ins than one request asks for
OnePage(x) == \A t \in x..(x + Window) : Cardinality({i \in DOMAIN log : log[i].at \in (t - Window)..t}) <= Top

\* A burst that begins at x and has left the window, and the evaluations that could have seen it are over.
\* Failures of the same user shortly before it make the rule name those.
BurstOver(u, x) ==
    /\ Cardinality(BurstAt(x, u)) >= FailedPerUser
    /\ \E i \in BurstAt(x, u) : log[i].at = x
    /\ \A i \in DOMAIN log : log[i].user = u /\ log[i].at < x => log[i].at < x - Window

\* alerting.ts:21, "Fenster grosszuegiger als der Takt": a burst of failures is not lost though
\* sign-ins come late, an evaluation fails or the process is restarted.  Once it has left the
\* window and the last evaluation that saw it is over, it has an alert of the day it began, unless
\* failures of its user came shortly before it (the rule names only the first burst of a window), or
\* the tenant had more sign-ins in a window than one request asks for.
BurstIsStored ==
    \A u \in Users : \A x \in 0..(now - Window - 2) :
        BurstOver(u, x) /\ OnePage(x) => <<"failed-burst", u, Day(x)>> \in DOMAIN alerts

\* The evaluator has read the row before it was resolved
Holds(e, p) ==
    evals[e].pc = "write" /\ evals[e].finding.print = p /\ evals[e].seen # Absent /\ evals[e].seen.status # "resolved"

\* operational-rules.ts:8-10, monitor-rules.ts:8, "damit ein geschlossener Alert nicht sofort
\* wiederkommt": while it is resolved no evaluation opens, changes or mails an alert again, unless it
\* had read the row, or made it, before.
ResolvedStaysQuiet ==
    [][\A p \in DOMAIN alerts :
          alerts[p].status = "resolved" /\ (\A e \in Evaluators : ~Holds(e, p))
          /\ (\A e \in Evaluators : p \notin evals[e].created) /\ evals' # evals => alerts'[p] = alerts[p]]_alertingVars
=============================================================================
