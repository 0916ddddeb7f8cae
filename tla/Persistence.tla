---------------------------- MODULE Persistence ----------------------------
(***************************************************************************)
(* Database and its repositories (monitor/persistence).  Every statement is *)
(* a transaction of its own: execute runs it and commits.  Either may fail; *)
(* when only the commit fails (another process reads the file), the         *)
(* statement stays in the open transaction of the connection and goes out   *)
(* with the next commit, although its caller was told that it failed.       *)
(*                                                                         *)
(* A method is the script of its statements.  An exception ends it.         *)
(***************************************************************************)
EXTENDS Integers, Sequences

CONSTANTS
    None,
    AlertIds, Statuses, \* of alerts
    Rankings,           \* the orders the candidates may come in
    Retention,          \* the retention, in units of time
    MaxTime, MaxCalls   \* bounds on time and on the calls of the methods

SnapshotTables ==
    {"market_snapshots", "funding_snapshots", "quality_reports", "metrics",
     "signal_decisions"}
CleanedTables == SnapshotTables \cup {"alerts"}
UniverseTables == {"active_universe", "universe_history"}
Tables == CleanedTables \cup UniverseTables

VARIABLES
    now,                \* utc_now_ms()
    matches,            \* whether the universe tables of the file have the
                        \* columns of the repository; those of _SCHEMA do not
    db,                 \* the rows of each table that are committed
    view,               \* the rows as the connection sees them
    script,             \* the statements the running method has left
    calls,              \* the calls so far
    saved               \* history: the rows whose insert succeeded and that
                        \* no DELETE has taken away since

vars == <<now, matches, db, view, script, calls, saved>>

Empty == [t \in Tables |-> {}]

Init ==
    /\ now = 0
    /\ matches \in BOOLEAN
    /\ db = Empty /\ view = Empty
    /\ script = << >>
    /\ calls = 0
    /\ saved = {}

-----------------------------------------------------------------------------
(* Statements. *)
Insert(table, row) == [op |-> "insert", table |-> table, row |-> row]
DeleteAll(table) == [op |-> "delete", table |-> table, cutoff |-> None]
DeleteOld(table, cutoff) == [op |-> "delete", table |-> table, cutoff |-> cutoff]

(* INSERT OR IGNORE: an alert_id that is there stays as it is. *)
Ignored(stmt) ==
    /\ stmt.table = "alerts"
    /\ \E r \in view.alerts : r.id = stmt.row.id

Doomed(stmt) ==
    {r \in view[stmt.table] :
        IF stmt.cutoff = None THEN TRUE ELSE r.at < stmt.cutoff}

Effect(stmt) ==
    IF stmt.op = "delete"
       THEN [view EXCEPT ![stmt.table] = @ \ Doomed(stmt)]
       ELSE IF Ignored(stmt) THEN view
       ELSE [view EXCEPT ![stmt.table] = @ \cup {stmt.row}]

StillSaved(stmt) ==
    IF stmt.op = "delete" THEN saved \ Doomed(stmt) ELSE saved

(* No such column. *)
Refused(stmt) ==
    stmt.op = "insert" /\ stmt.table \in UniverseTables /\ ~matches

Acknowledged(stmt) ==
    IF stmt.op = "insert" /\ ~Ignored(stmt)
       THEN saved \cup {stmt.row} ELSE StillSaved(stmt)

(* Mutant: execute leaves the commit to someone else. *)
ExecuteUncommitted ==
    /\ script # << >> /\ ~Refused(Head(script))
    /\ view' = Effect(Head(script)) /\ UNCHANGED db
    /\ saved' = Acknowledged(Head(script))
    /\ script' = Tail(script)
    /\ UNCHANGED <<now, matches, calls>>

Execute ==
    /\ script # << >> /\ ~Refused(Head(script))
    /\ view' = Effect(Head(script)) /\ db' = view'
    /\ saved' = Acknowledged(Head(script))
    /\ script' = Tail(script)
    /\ UNCHANGED <<now, matches, calls>>

(* DatabaseError: the statement itself failed, or its commit. *)
ExecuteFails ==
    /\ script # << >>
    /\ \/ UNCHANGED <<view, saved>>
       \/ /\ ~Refused(Head(script))
          /\ view' = Effect(Head(script))
          /\ saved' = StillSaved(Head(script))
    /\ script' = << >>
    /\ UNCHANGED <<now, matches, db, calls>>

-----------------------------------------------------------------------------
(* The repositories.  Their callers await one method after the other. *)
Start(statements) ==
    /\ script = << >> /\ script' = statements
    /\ calls < MaxCalls /\ calls' = calls + 1
    /\ UNCHANGED <<now, matches, db, view, saved>>

Save(table) ==
    Start(<<Insert(table, [id |-> calls, table |-> table, at |-> now])>>)

SaveMarketSnapshot == Save("market_snapshots")
SaveFundingSnapshot == Save("funding_snapshots")
SaveQualityReport == Save("quality_reports")
SaveMetrics == Save("metrics")
SaveSignalDecision == Save("signal_decisions")

(* save_alert; sent is sent_at_ms. *)
SaveAlert(id, status) ==
    Start(<<Insert("alerts",
        [id |-> id, table |-> "alerts", at |-> now, status |-> status,
         sent |-> IF status = "sent" THEN now ELSE None])>>)

(* Mutant: the comparison of the status is the wrong way round. *)
LastSentAnyStatus == {r.sent : r \in {a \in view.alerts : a.status # "sent"}}

(* The sent_at_ms get_last_sent_alert_ms takes the largest of. *)
LastSent == {r.sent : r \in {a \in view.alerts : a.status = "sent"}}

WasRecentAlert(window) ==
    /\ window > 0
    /\ \E sent \in LastSent :
          (\A other \in LastSent : other <= sent) /\ now - sent < window

CleanupOldRecords ==
    LET delete(table) == DeleteOld(table, now - Retention)
    IN  Start(<<delete("market_snapshots"), delete("funding_snapshots"),
                delete("quality_reports"), delete("metrics"),
                delete("signal_decisions"), delete("alerts")>>)

UniverseRow(table, name) ==
    [id |-> name, table |-> table, at |-> now]

Rank(order) == [i \in 1 .. Len(order) |->
                   Insert("active_universe",
                          UniverseRow("active_universe", order[i]))]

(* Mutant: the rows of the last refresh stay. *)
ReplaceActiveKeepsOld(selected) == Rank(selected)

ReplaceActive(selected) == <<DeleteAll("active_universe")>> \o Rank(selected)

AppendHistory(candidates) ==
    [i \in 1 .. Len(candidates) |->
        Insert("universe_history",
               UniverseRow("universe_history", candidates[i]))]

(* replace_active and append_history, called in one try by whoever          *)
(* refreshes the pool; the selected ones are the first of the candidates.   *)
PersistUniverse(candidates, n) ==
    Start(ReplaceActive(SubSeq(candidates, 1, n)) \o AppendHistory(candidates))

-----------------------------------------------------------------------------
(* A method reads the clock once, so time need only pass between methods.   *)
Tick ==
    /\ script = << >>
    /\ now < MaxTime /\ now' = now + 1
    /\ UNCHANGED <<matches, db, view, script, calls, saved>>

(* The process dies; what was not committed is rolled back. *)
Crash ==
    /\ view' = db /\ script' = << >>
    /\ UNCHANGED <<now, matches, db, calls, saved>>

Next ==
    \/ Execute \/ ExecuteFails
    \/ SaveMarketSnapshot \/ SaveFundingSnapshot \/ SaveQualityReport
    \/ SaveMetrics \/ SaveSignalDecision
    \/ \E id \in AlertIds, status \in Statuses :
          SaveAlert(id, status)
    \/ CleanupOldRecords
    \/ \E ranking \in Rankings : \E n \in 0 .. Len(ranking) :
          PersistUniverse(ranking, n)
    \/ Tick \/ Crash

Spec == Init /\ [][Next]_vars

-----------------------------------------------------------------------------
(* A row whose save returned is on disk, and stays there through failures   *)
(* of later statements and through a crash, until a DELETE takes it         *)
(* (Database.execute).                                                      *)
SavedIsDurable == \A r \in saved : r \in db[r.table]

(* The stored pool is of one refresh: whatever statement of a refresh       *)
(* fails, and wherever the process dies, the rows of two refreshes are      *)
(* never mixed (replace_active).                                            *)
PoolOfOneRefresh ==
    \A r, s \in db.active_universe : r.at = s.at

(* An alert that was saved as sent is found by was_recent_alert as long as  *)
(* its window lasts, for every window within the retention.                 *)
RecentAlertFound ==
    \A r \in saved : \A window \in 1 .. Retention :
        (r.table = "alerts" /\ r.status = "sent" /\ now - r.sent < window)
            => WasRecentAlert(window)
=============================================================================
