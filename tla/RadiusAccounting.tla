-------------------------- MODULE RadiusAccounting --------------------------
(***************************************************************************)
(* The accounting sessions (table radacct): FreeRADIUS writes them, jobs   *)
(* of the program close the ones that were never stopped and put the       *)
(* access point in front of the called station, and old ones are deleted.  *)
(*                                                                         *)
(* A job selects rows, then computes from its copies and saves row after   *)
(* row the columns it changed.  The house keeper runs one job at a time;   *)
(* rake runs the same jobs in processes of their own, also "each time a    *)
(* user authenticates".  Time is counted in days.                          *)
(***************************************************************************)
EXTENDS Integers

CONSTANTS
  Session, Process,
  Worker,         \* the process of the house keeper
  Untimed,        \* sessions whose AcctSessionTime FreeRADIUS leaves NULL
  NoValue,           \* NULL, or no AcctStopTime
  LocalOffset,    \* Time.now.utc_offset if local_time_radius_accounting, else 0
  StaleAfter, AwareWithin, KeepFor,   \* 3 days, 2 days, 1 year
  MaxTime         \* bound: the last day

ASSUME WorkerAssumption == Worker \in Process /\ Untimed \subseteq Session
ASSUME TimeAssumption ==
  /\ LocalOffset \in Int
  /\ StaleAfter \in Nat /\ AwareWithin \in Nat /\ KeepFor \in Nat /\ MaxTime \in Nat
ASSUME NullAssumption == NoValue \notin Int

VARIABLES
  now,
  row,       \* row[s]: "none" yet, "kept" or "deleted"
  start,     \* AcctStartTime
  stop,      \* AcctStopTime, NoValue while the session is open
  time,      \* AcctSessionTime
  longest,   \* the longest time FreeRADIUS has reported of the session
  cause,     \* AcctTerminateCause
  prefixes,  \* access points in front of the original CalledStationId
  doing,     \* doing[p]: the job of process p, or "idle"
  todo,      \* todo[p]: the selected rows not treated yet
  copied     \* copied[p]: the column the job computes from, as selected, for
             \* the rows in todo[p]

session == <<row, start, stop, time, longest, cause, prefixes>>
job == <<doing, todo, copied>>
accountingVars == <<now, row, start, stop, time, longest, cause, prefixes, doing, todo, copied>>

Blank == [s \in Session |-> NoValue]

AccountingInit ==
  /\ now = 0
  /\ row = [s \in Session |-> "none"]
  /\ start = [s \in Session |-> 0]
  /\ stop = [s \in Session |-> NoValue]
  /\ time = [s \in Session |-> NoValue]
  /\ longest = [s \in Session |-> 0]
  /\ cause = [s \in Session |-> "none"]
  /\ prefixes = [s \in Session |-> 0]
  /\ doing = [p \in Process |-> "idle"]
  /\ todo = [p \in Process |-> {}]
  /\ copied = [p \in Process |-> Blank]

Tick == now < MaxTime /\ now' = now + 1 /\ UNCHANGED <<session, job>>

-----------------------------------------------------------------------------
(* FreeRADIUS.  Its packets are lost, repeated and late, and neither       *)
(* Interim nor Stop looks at what the row says.                            *)

Start(s) ==
  /\ row[s] = "none"
  /\ row' = [row EXCEPT ![s] = "kept"]
  /\ start' = [start EXCEPT ![s] = now]
  /\ time' = [time EXCEPT ![s] = IF s \in Untimed THEN NoValue ELSE 0]
  /\ UNCHANGED <<now, stop, longest, cause, prefixes, job>>

Report(s, d) ==
  /\ row[s] = "kept" /\ d <= now - start[s]
  /\ time' = [time EXCEPT ![s] = d]
  /\ longest' = [longest EXCEPT ![s] = IF d > @ THEN d ELSE @]
  /\ UNCHANGED <<now, row, start, prefixes, job>>

Interim(s, d) == s \notin Untimed /\ Report(s, d) /\ UNCHANGED <<stop, cause>>

Stop(s, d) ==
  /\ Report(s, d)
  /\ stop' = [stop EXCEPT ![s] = start[s] + d]
  /\ cause' = [cause EXCEPT ![s] = "nas"]

-----------------------------------------------------------------------------
(* The jobs.                                                               *)

Open(s) == row[s] = "kept" /\ stop[s] = NoValue
Stale(s) == Open(s) /\ start[s] <= now - StaleAfter
Unaware(s) == Open(s) /\ prefixes[s] = 0 /\ start[s] >= now - AwareWithin

Select(p, kind, rows, column) ==
  /\ doing[p] = "idle"
  /\ doing' = [doing EXCEPT ![p] = kind]
  /\ todo' = [todo EXCEPT ![p] = rows]
  /\ copied' = [copied EXCEPT ![p] = [s \in Session |-> IF s \in rows THEN column[s] ELSE NoValue]]
  /\ UNCHANGED <<now, session>>

SelectStale(p) == Select(p, "cleanup", {s \in Session : Stale(s)}, time)

SelectUnaware(p) == Select(p, "convert", {s \in Session : Unaware(s)}, prefixes)

\* The job goes on with its next row.
Treated(p, s) ==
  /\ todo' = [todo EXCEPT ![p] = @ \ {s}]
  /\ copied' = [copied EXCEPT ![p] = [@ EXCEPT ![s] = NoValue]]
  /\ UNCHANGED doing

\* The job ends, or an exception ends it; the rows left stay as they are.
EndJob(p) ==
  /\ doing' = [doing EXCEPT ![p] = "idle"]
  /\ todo' = [todo EXCEPT ![p] = {}]
  /\ copied' = [copied EXCEPT ![p] = Blank]
  /\ UNCHANGED <<now, session>>

\* The row is changed unless it was deleted meanwhile.
Closed(p, s, at, why) ==
  /\ doing[p] = "cleanup" /\ s \in todo[p]
  /\ stop' = IF row[s] = "kept" THEN [stop EXCEPT ![s] = at] ELSE stop
  /\ cause' = IF row[s] = "kept" THEN [cause EXCEPT ![s] = why] ELSE cause
  /\ Treated(p, s)
  /\ UNCHANGED <<now, row, start, time, longest, prefixes>>

\* Mutant: the session time is counted from now.
RecalculateFromNow(p, s) ==
  /\ copied[p][s] # NoValue /\ copied[p][s] > 0
  /\ Closed(p, s, now + copied[p][s], "recalculated")

Recalculate(p, s) ==
  /\ copied[p][s] # NoValue /\ copied[p][s] > 0
  /\ Closed(p, s, start[s] - LocalOffset + copied[p][s], "recalculated")

\* Mutant: an invalid session is marked and not closed.
InvalidateOpen(p, s) ==
  /\ copied[p][s] # NoValue /\ copied[p][s] <= 0
  /\ Closed(p, s, NoValue, "invalid")

Invalidate(p, s) ==
  /\ copied[p][s] # NoValue /\ copied[p][s] <= 0
  /\ Closed(p, s, start[s], "invalid")

\* nil > 0
Raise(p, s) ==
  /\ doing[p] = "cleanup" /\ s \in todo[p]
  /\ copied[p][s] = NoValue
  /\ EndJob(p)

\* Mutant: all columns of the copy are saved, not only the changed one.
ConvertAllColumns(p, s) ==
  /\ doing[p] = "convert" /\ s \in todo[p]
  /\ prefixes' = IF row[s] = "kept" THEN [prefixes EXCEPT ![s] = copied[p][s] + 1] ELSE prefixes
  /\ stop' = IF row[s] = "kept" THEN [stop EXCEPT ![s] = NoValue] ELSE stop
  /\ Treated(p, s)
  /\ UNCHANGED <<now, row, start, time, longest, cause>>

\* The access point of the user is asked for outside and found.
Convert(p, s) ==
  /\ doing[p] = "convert" /\ s \in todo[p]
  /\ prefixes' = IF row[s] = "kept" THEN [prefixes EXCEPT ![s] = copied[p][s] + 1] ELSE prefixes
  /\ Treated(p, s)
  /\ UNCHANGED <<now, row, start, stop, time, longest, cause>>

\* It is not known, or the question raises and is notified.
Skip(p, s) ==
  /\ doing[p] = "convert" /\ s \in todo[p]
  /\ Treated(p, s)
  /\ UNCHANGED <<now, session>>

\* The middleware refuses the credentials or has no network.
Break(p) == doing[p] = "convert" /\ todo[p] # {} /\ EndJob(p)

Done(p) == doing[p] # "idle" /\ todo[p] = {} /\ EndJob(p)

\* A rake task is interrupted.
Kill(p) == p # Worker /\ doing[p] # "idle" /\ EndJob(p)

\* delete_1y_old_sessions, one DELETE.
DeleteOld ==
  LET old == {s \in Session : row[s] = "kept" /\ start[s] < now - KeepFor} IN
  /\ old # {}
  /\ row' = [s \in Session |-> IF s \in old THEN "deleted" ELSE row[s]]
  /\ UNCHANGED <<now, start, stop, time, longest, cause, prefixes, job>>

-----------------------------------------------------------------------------
Treat(p) ==
  \/ \E s \in Session : Recalculate(p, s) \/ Invalidate(p, s) \/ Raise(p, s)
  \/ \E s \in Session : Convert(p, s) \/ Skip(p, s)
  \/ Break(p) \/ Done(p)

AccountingNext ==
  \/ Tick \/ DeleteOld
  \/ \E s \in Session : Start(s) \/ \E d \in 0..MaxTime : Interim(s, d) \/ Stop(s, d)
  \/ \E p \in Process : SelectStale(p) \/ SelectUnaware(p) \/ Treat(p) \/ Kill(p)

\* The house keeper runs what backgroundrb.yml schedules: the cleanup comes
\* however often other jobs do, and each job runs to its end.
Fairness == SF_accountingVars(SelectStale(Worker)) /\ WF_accountingVars(Treat(Worker))

AccountingSpec == AccountingInit /\ [][AccountingNext]_accountingVars /\ Fairness

-----------------------------------------------------------------------------
(* Correctness.                                                            *)

\* Type correctness; only sessions that were stopped or marked are closed.
AccountingTypeOK ==
  /\ now \in 0..MaxTime
  /\ row \in [Session -> {"none", "kept", "deleted"}]
  /\ start \in [Session -> 0..MaxTime]
  /\ stop \in [Session -> Int \cup {NoValue}]
  /\ time \in [Session -> 0..MaxTime \cup {NoValue}]
  /\ longest \in [Session -> 0..MaxTime]
  /\ cause \in [Session -> {"none", "nas", "recalculated", "invalid"}]
  /\ prefixes \in [Session -> Nat]
  /\ doing \in [Process -> {"idle", "cleanup", "convert"}]
  /\ todo \in [Process -> SUBSET Session]
  /\ copied \in [Process -> [Session -> Nat \cup {NoValue}]]
  /\ \A s \in Session : cause[s] = "none" <=> stop[s] = NoValue

\* A session is never closed with a length FreeRADIUS did not report, though
\* late packets, a Stop and other jobs change its row under the job that
\* closes it.  Only if AcctStartTime is not shifted to local time.
NeverOverstated ==
  LocalOffset = 0 =>
    \A s \in Session :
      stop[s] # NoValue =>
        /\ start[s] <= stop[s] /\ stop[s] <= start[s] + longest[s]
        /\ cause[s] = "invalid" => stop[s] = start[s]

\* However many conversions run at once ("each time a user authenticates"),
\* one access point at most is put in front of the called station.
PrefixedOnce == \A s \in Session : prefixes[s] <= 1

\* A session that is closed is not opened again by a job that selected it
\* while it was open.
ClosedStays == [][\A s \in Session : stop[s] # NoValue => stop'[s] # NoValue]_accountingVars

\* The rows implement the sessions of AccountedSessions.
State(s) ==
  IF row[s] = "none" THEN "absent"
  ELSE IF row[s] = "deleted" THEN "deleted"
  ELSE IF stop[s] = NoValue THEN "open" ELSE "closed"

SessionLength(s) == IF stop[s] = NoValue THEN 0 ELSE stop[s] - start[s]

Sessions == INSTANCE AccountedSessions WITH
  Length   <- 0..MaxTime,
  state    <- [s \in Session |-> State(s)],
  reported <- longest,
  length   <- [s \in Session |-> SessionLength(s)]

\* Late packets, several jobs at once and their stale copies do together what
\* AccountedSessions says.
ImplementsSessions == Sessions!Spec

\* Every stale session is closed or deleted in the end, unless one without
\* AcctSessionTime makes the cleanup raise.
StaleClosed ==
  \A s \in Session : Stale(s) ~> (~Stale(s) \/ \E u \in Untimed : Stale(u))
=============================================================================
