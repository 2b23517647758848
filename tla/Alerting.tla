------------------------------ MODULE Alerting ------------------------------
(***************************************************************************)
(* Alerts of one tenant.  A tick, and an engineer's "evaluate now", fetch  *)
(* the sign-ins of a window or look at the tenant's devices and machines,  *)
(* store what the rules find by fingerprint, and mail what is new.  Sign-  *)
(* ins reach the log late and are read one page at most, answers are lost  *)
(* and requests sent again, requests fail, the process ends between steps. *)
(***************************************************************************)
EXTENDS SignInRules

CONSTANTS
    Cases,        \* the sign-ins and the conditions of the tenant that come together
    Evaluators,   \* tick: the worker of the queue; the others are requests
    Ticker, Absent,
    Window,       \* WINDOW_MS
    MinInterval,  \* MIN_INTERVAL_MS
    Top,          \* SAMPLE: the sign-ins that one request asks for
    Attempts,     \* retries + 1 of GraphClient
    MaxDelay      \* bound: how late a sign-in comes into the log

ASSUME AlertingAssumption ==
    /\ Ticker \in Evaluators
    /\ {Window, MinInterval, MaxDelay} \subseteq Nat
    /\ {Top, Attempts} \subseteq Nat \ {0}

VARIABLES
    now, due,     \* due: the scheduler has put a tick into the queue
    coming,       \* sign-ins that are still to come, each with its number
    log,          \* sign-ins in the order of their times
    conditions,   \* what is wrong with devices and machines, and whether it is so at present
    alerts,       \* the table alerts, by fingerprint
    lastRun,      \* of the operational rules, in memory
    evals,
    left          \* bounds: the ticks, requests, changes and faults of the case that are left

alertingVars == <<now, due, coming, log, conditions, alerts, lastRun, evals, left>>

\* tries: the requests for the mail so far; told: history, whether one of them was carried out
Idle == [pc |-> "idle", phase |-> "none", todo |-> {}, finding |-> Absent, seen |-> Absent, created |-> {}, tries |-> 0, told |-> FALSE]
Spend(what) == left[what] > 0 /\ left' = [left EXCEPT ![what] = @ - 1]

NoRows == [p \in {} |-> Absent]

AlertingInit ==
    /\ now = 0 /\ due = TRUE /\ lastRun = -MinInterval
    /\ \E c \in Cases : coming = c.signIns /\ left = c.bounds /\ conditions = [x \in c.conditions |-> FALSE]
    /\ log = <<>> /\ alerts = NoRows
    /\ evals = [e \in Evaluators |-> Idle]

-----------------------------------------------------------------------------
(* What happens in the tenant *)

\* A tick that is still waiting holds the clock: an evaluation takes less than two ticks
Advance ==
    /\ Spend("ticks") /\ ~due
    /\ now' = now + 1 /\ due' = TRUE
    /\ UNCHANGED <<coming, log, conditions, alerts, lastRun, evals>>

Insert(s, e) ==
    LET before == SelectSeq(s, LAMBDA x : x.at <= e.at)
    IN  before \o <<e>> \o SubSeq(s, Len(before) + 1, Len(s))

\* A sign-in comes into the log, up to MaxDelay after it happened
SignIn ==
    /\ \E k \in {x \in DOMAIN coming : coming[x] > 0}, d \in 0..MaxDelay :
          /\ d <= now
          /\ coming' = [coming EXCEPT ![k] = @ - 1]
          /\ log' = Insert(log, [k EXCEPT !.at = now - d])
    /\ UNCHANGED <<now, due, conditions, alerts, lastRun, evals, left>>

\* A disk fills up or is cleaned, a machine is started or stopped
ConditionChanges ==
    /\ Spend("changes")
    /\ \E x \in DOMAIN conditions : conditions' = [conditions EXCEPT ![x] = ~@]
    /\ UNCHANGED <<now, due, coming, log, alerts, lastRun, evals>>

-----------------------------------------------------------------------------
(* The operational rules *)

Daily == {"vm-outside-hours", "device-heartbeat", "service-stopped", "system-events", "defender-stale"}

\* Of the day, or of the object only; month, catalogue version and week of running stay the same for the time looked at
ConditionPrint(x) == <<x.rule, x.subject, IF x.rule \in Daily THEN Day(now) ELSE 0>>

OperationalFindings ==
    {[print |-> ConditionPrint(x), first |-> now, last |-> now, count |-> 1] : x \in {y \in DOMAIN conditions : conditions[y]}}

-----------------------------------------------------------------------------
(* One evaluation *)

In(e, pc) == evals[e].pc = pc
Becomes(e, x) == evals' = [evals EXCEPT ![e] = x]

\* Mutant: the window of the rules
RecentOfRule == SelectSeq(log, LAMBDA x : x.at >= now - FailedWindow)

Recent == SelectSeq(log, LAMBDA x : x.at >= now - Window)

Smaller(a, b) == IF a < b THEN a ELSE b

\* What one request may answer of s: the code asks for no order and follows no link to a further page
Pages(s) ==
    LET n == Smaller(Top, Len(s))
        Picks == {g \in [1..n -> DOMAIN s] : \A i, k \in 1..n : i < k => g[i] < g[k]}
    IN  {[i \in 1..n |-> s[g[i]]] : g \in Picks}

\* evaluateTenant, for the tick or for a request
Evaluate(e) ==
    /\ In(e, "idle")
    /\ IF e = Ticker THEN due /\ due' = FALSE /\ UNCHANGED left
       ELSE Spend("requests") /\ UNCHANGED due
    /\ \E page \in Pages(Recent) :
          Becomes(e, [Idle EXCEPT !.pc = "store", !.phase = "signIns", !.todo = Findings(page)])
    /\ UNCHANGED <<now, coming, log, conditions, alerts, lastRun>>

\* evaluateOperationalAlerts; a request forces it, the tick has to wait for its turn
BeginOperational(e) ==
    /\ In(e, "next")
    /\ IF e # Ticker \/ now - lastRun >= MinInterval
       THEN /\ lastRun' = now
            /\ Becomes(e, [Idle EXCEPT !.pc = "store", !.phase = "operational", !.todo = OperationalFindings])
       ELSE UNCHANGED lastRun /\ Becomes(e, Idle)
    /\ UNCHANGED <<now, due, coming, log, conditions, alerts, left>>

\* storeFindings: is the fingerprint known?
Look(e) ==
    /\ In(e, "store")
    /\ \E f \in evals[e].todo :
          LET p == f.print IN
          Becomes(e, [evals[e] EXCEPT !.pc = "write", !.todo = @ \ {f}, !.finding = f,
                                      !.seen = IF p \in DOMAIN alerts THEN alerts[p] ELSE Absent])
    /\ UNCHANGED <<now, due, coming, log, conditions, alerts, lastRun, left>>

\* History: the mails that name the alert, those of them whose answer was lost, the evaluations that sent them
NewRow(f) == [status |-> "open", first |-> f.first, last |-> f.last, count |-> f.count, notified |-> FALSE,
              mails |-> 0, lost |-> 0, tellers |-> 0]
WithRow(p, r) == [q \in DOMAIN alerts \cup {p} |-> IF q = p THEN r ELSE alerts[q]]
Larger(a, b) == IF a > b THEN a ELSE b

\* Mutant: an insert that met a conflict counts as a new alert
WriteAndTell(e) ==
    LET f == evals[e].finding
        seen == evals[e].seen
    IN  /\ In(e, "write")
        /\ Becomes(e, [evals[e] EXCEPT !.pc = "store", !.finding = Absent, !.seen = Absent,
                                       !.created = IF seen = Absent THEN @ \cup {f.print} ELSE @])
        /\ alerts' = IF f.print \in DOMAIN alerts THEN alerts ELSE WithRow(f.print, NewRow(f))
        /\ UNCHANGED <<now, due, coming, log, conditions, lastRun, left>>

\* Mutant: a known alert is brought up to date whatever its status
WriteAlways(e) ==
    LET f == evals[e].finding
    IN  /\ In(e, "write")
        /\ Becomes(e, [evals[e] EXCEPT !.pc = "store", !.finding = Absent, !.seen = Absent])
        /\ alerts' = WithRow(f.print, IF f.print \in DOMAIN alerts THEN [alerts[f.print] EXCEPT !.last = f.last] ELSE NewRow(f))
        /\ UNCHANGED <<now, due, coming, log, conditions, lastRun, left>>

Write(e) ==
    LET f == evals[e].finding
        seen == evals[e].seen
        inserted == seen = Absent /\ f.print \notin DOMAIN alerts
    IN  /\ In(e, "write")
        /\ Becomes(e, [evals[e] EXCEPT !.pc = "store", !.finding = Absent, !.seen = Absent,
                                       !.created = IF inserted THEN @ \cup {f.print} ELSE @])
        /\ alerts' = CASE inserted -> WithRow(f.print, NewRow(f))
                     [] seen # Absent /\ seen.status # "resolved" ->
                           [alerts EXCEPT ![f.print].last = f.last, ![f.print].count = Larger(seen.count, f.count)]
                     [] OTHER -> alerts
        /\ UNCHANGED <<now, due, coming, log, conditions, lastRun, left>>

\* The operational rules come after the sign-ins
After(e) == IF evals[e].phase = "signIns" THEN [Idle EXCEPT !.pc = "next"] ELSE Idle

Stored(e) == In(e, "store") /\ evals[e].todo = {}

NothingNew(e) ==
    /\ Stored(e) /\ evals[e].created = {}
    /\ Becomes(e, After(e))
    /\ UNCHANGED <<now, due, coming, log, conditions, alerts, lastRun, left>>

\* One mail for all that is new; lost: 1 if its answer does not come
Mailed(x, lost) ==
    [p \in DOMAIN alerts |->
        IF p \in x.created
        THEN [alerts[p] EXCEPT !.mails = @ + 1, !.lost = @ + lost, !.tellers = IF x.told THEN @ ELSE @ + 1]
        ELSE alerts[p]]

Mail(e) ==
    /\ Stored(e) /\ evals[e].created # {}
    /\ alerts' = Mailed(evals[e], 0)
    /\ Becomes(e, [evals[e] EXCEPT !.pc = "stamp"])
    /\ UNCHANGED <<now, due, coming, log, conditions, lastRun, left>>

\* A timeout, a broken connection or a server's error: the mail may be out or not, and is sent again
MailUnanswered(e) ==
    LET x == evals[e]
    IN  /\ Stored(e) /\ x.created # {} /\ Spend("faults")
        /\ \E out \in BOOLEAN :
              /\ alerts' = IF out THEN Mailed(x, 1) ELSE alerts
              /\ Becomes(e, IF x.tries + 1 < Attempts THEN [x EXCEPT !.tries = @ + 1, !.told = @ \/ out] ELSE After(e))
        /\ UNCHANGED <<now, due, coming, log, conditions, lastRun>>

Stamp(e) ==
    /\ In(e, "stamp")
    /\ alerts' = [p \in DOMAIN alerts |-> IF p \in evals[e].created THEN [alerts[p] EXCEPT !.notified = TRUE] ELSE alerts[p]]
    /\ Becomes(e, After(e))
    /\ UNCHANGED <<now, due, coming, log, conditions, lastRun, left>>

\* Mail and stamp fail quietly; an error before that ends the phase, and a request altogether
Fails(e) ==
    LET quiet == In(e, "stamp") \/ (Stored(e) /\ evals[e].created # {})
    IN  /\ evals[e].pc \in {"store", "write", "stamp"} /\ Spend("faults")
        /\ Becomes(e, IF e = Ticker \/ quiet THEN After(e) ELSE Idle)
        /\ UNCHANGED <<now, due, coming, log, conditions, alerts, lastRun>>

\* The process ends: lastRun is lost; the queue may give the tick that was running to the next process
ProcessEnds ==
    /\ Spend("faults")
    /\ evals' = [e \in Evaluators |-> Idle] /\ lastRun' = -MinInterval
    /\ due' \in {due, due \/ evals[Ticker].pc # "idle"}
    /\ UNCHANGED <<now, coming, log, conditions, alerts>>

\* An engineer acknowledges, resolves or opens again
SetStatus ==
    /\ Spend("changes")
    /\ \E p \in DOMAIN alerts, s \in {"open", "acknowledged", "resolved"} : alerts' = [alerts EXCEPT ![p].status = s]
    /\ UNCHANGED <<now, due, coming, log, conditions, lastRun, evals>>

AlertingNext ==
    \/ Advance \/ SignIn \/ ConditionChanges \/ SetStatus \/ ProcessEnds
    \/ \E e \in Evaluators :
          Evaluate(e) \/ BeginOperational(e) \/ Look(e) \/ Write(e) \/ NothingNew(e) \/ Mail(e) \/ MailUnanswered(e)
          \/ Stamp(e) \/ Fails(e)

AlertingSpec == AlertingInit /\ [][AlertingNext]_alertingVars

=============================================================================
