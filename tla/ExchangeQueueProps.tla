------------------------- MODULE ExchangeQueueProps -------------------------
EXTENDS ExchangeQueue

\* exchange.ts:80, "atomar dem Worker zuweisen": a row is carried out at most
\* once and by its worker only, whoever dies or falls silent, and a job has at
\* most one row for each run of its handler.
OnceForEachRun ==
    /\ \A i \in Rows : effects[i] <= 1 /\ (effects[i] = 1 => rows[i].worker # None)
    /\ \A j \in Jobs : Cardinality({i \in Rows : rows[i].job = j}) <= jobs[j].runs /\ jobs[j].runs <= 2

\* exchange-job-handlers.ts:228: a job that ends as succeeded had its operation
\* carried out in its own row, and a collection that succeeded left facts.
SuccessIsEarned ==
    \A j \in Jobs : jobs[j].result = "succeeded" =>
       /\ effects[jobs[j].row] = 1 /\ rows[jobs[j].row].job = j
       /\ jobs[j].collect => facts # None

\* exchange.ts:60-64: what a job was told of its row stays true.  The row keeps
\* its result, and an operation reported as failed is not carried out later;
\* only a job that gave up waiting may see its effect afterwards.
ToldIsFinal ==
    [][\A j \in Jobs : jobs[j].result \in Closed =>
          LET i == jobs[j].row
          IN  rows[i].status = jobs[j].result /\ rows'[i].status = rows[i].status /\ effects'[i] = effects[i]]_vars

\* exchange.ts:70-82: with one worker that keeps polling every row is closed,
\* also the rows of workers that died and of claims whose answer was lost.
RowsClose == \A i \in Rows : rows[i].status # "absent" ~> rows[i].status \in Closed

=============================================================================
