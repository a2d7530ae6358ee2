---------------------------- MODULE RadiusProofs ----------------------------
(***************************************************************************)
(* What holds of the tables FreeRADIUS shares with the program, for any    *)
(* number of sessions, jobs, periods, requests, accounts, groups and       *)
(* attributes.                                                             *)
(*                                                                         *)
(* Accounting: no time, in the table or in a copy a job made, is longer    *)
(* than the longest FreeRADIUS has reported (Reported), and a conversion   *)
(* copies only called stations without an access point (Bare).             *)
(*                                                                         *)
(* Authorization: the arguments rest on ids that are given out once, so    *)
(* that what is gone stays gone, and on what a request may still believe   *)
(* when it writes: a key that was found free is free unless there is a     *)
(* rival (Free), the groups an edit has seen are those of the account      *)
(* unless it was edited by two (EditsAlone), the attributes a removal has  *)
(* seen are all there are unless it was written to (RowsInHand), and the   *)
(* links that are left are on somebody's list (Leftovers).                 *)
(***************************************************************************)
EXTENDS RadiusAccounting, RadiusAuthorization, TLAPS

-----------------------------------------------------------------------------
(* Accounting sessions.                                                    *)

\* A row that FreeRADIUS has not inserted is not closed.
NotYetClosed == \A s \in Session : row[s] = "none" => stop[s] = NoValue

\* No time, in the table or in a copy, is longer than the longest reported.
Reported ==
  /\ \A s \in Session : time[s] # NoValue => time[s] <= longest[s]
  /\ \A p \in Process, s \in Session :
       doing[p] = "cleanup" /\ copied[p][s] # NoValue => copied[p][s] <= longest[s]

\* A conversion starts from called stations without access point.
Bare ==
  \A p \in Process, s \in Session : doing[p] = "convert" /\ s \in todo[p] => copied[p][s] = 0

AccountingInv == AccountingTypeOK /\ NotYetClosed /\ Reported /\ Bare /\ NeverOverstated /\ PrefixedOnce

\* What a job does to a row it closes.
Close(p, s) ==
  \/ \E at \in Int : /\ at = start[s] - LocalOffset + copied[p][s]
                     /\ copied[p][s] # NoValue /\ copied[p][s] > 0
                     /\ Closed(p, s, at, "recalculated")
  \/ Closed(p, s, start[s], "invalid")

LEMMA NextCases ==
  ASSUME AccountingTypeOK, AccountingNext
  PROVE  \/ Tick \/ DeleteOld
         \/ \E s \in Session : Start(s)
         \/ \E s \in Session, d \in 0..MaxTime : Interim(s, d) \/ Stop(s, d)
         \/ \E p \in Process : SelectStale(p) \/ SelectUnaware(p) \/ EndJob(p)
         \/ \E p \in Process, s \in Session : Close(p, s) \/ Convert(p, s) \/ Skip(p, s)
<1>1. ASSUME NEW p \in Process, NEW s \in Session, Recalculate(p, s)
      PROVE  Close(p, s)
  <2>1. copied[p][s] \in Int /\ start[s] \in Int
    BY <1>1 DEF Recalculate, AccountingTypeOK
  <2>2. start[s] - LocalOffset + copied[p][s] \in Int
    BY <2>1, TimeAssumption
  <2> QED
    BY <1>1, <2>2 DEF Recalculate, Close
<1>2. ASSUME NEW p \in Process, NEW s \in Session, Invalidate(p, s)
      PROVE  Close(p, s)
  BY <1>2 DEF Invalidate, Close
<1>3. ASSUME NEW p \in Process, Treat(p)
      PROVE  \/ EndJob(p)
             \/ \E s \in Session : Close(p, s) \/ Convert(p, s) \/ Skip(p, s)
  BY <1>1, <1>2, <1>3 DEF Treat, Raise, Break, Done
<1> QED
  BY <1>3 DEF AccountingNext, Kill

-----------------------------------------------------------------------------
(* Types.                                                                  *)

LEMMA JobTypes ==
  ASSUME AccountingTypeOK, [AccountingNext]_accountingVars
  PROVE  /\ doing' \in [Process -> {"idle", "cleanup", "convert"}]
         /\ todo' \in [Process -> SUBSET Session]
         /\ copied' \in [Process -> [Session -> Nat \cup {NoValue}]]
<1> DEFINE Goal == /\ doing' \in [Process -> {"idle", "cleanup", "convert"}]
                   /\ todo' \in [Process -> SUBSET Session]
                   /\ copied' \in [Process -> [Session -> Nat \cup {NoValue}]]
<1>0. /\ doing \in [Process -> {"idle", "cleanup", "convert"}]
      /\ todo \in [Process -> SUBSET Session]
      /\ copied \in [Process -> [Session -> Nat \cup {NoValue}]]
      /\ Blank \in [Session -> Nat \cup {NoValue}]
  BY DEF AccountingTypeOK, Blank
<1>1. CASE UNCHANGED job
  BY <1>0, <1>1 DEF job
<1>2. ASSUME NEW p \in Process, SelectStale(p) \/ SelectUnaware(p)
      PROVE  Goal
  <2>1. time \in [Session -> Nat \cup {NoValue}] /\ prefixes \in [Session -> Nat \cup {NoValue}]
    BY TimeAssumption DEF AccountingTypeOK
  <2>2. ASSUME NEW kind \in {"cleanup", "convert"}, NEW rows \in SUBSET Session,
               NEW column \in [Session -> Nat \cup {NoValue}], Select(p, kind, rows, column)
        PROVE  Goal
    <3> DEFINE c == [s \in Session |-> IF s \in rows THEN column[s] ELSE NoValue]
    <3>1. c \in [Session -> Nat \cup {NoValue}]
      OBVIOUS
    <3>2. copied' = [copied EXCEPT ![p] = c] /\ doing' = [doing EXCEPT ![p] = kind]
          /\ todo' = [todo EXCEPT ![p] = rows]
      BY <2>2 DEF Select
    <3> HIDE DEF c
    <3> QED
      BY <1>0, <3>1, <3>2
  <2>3. {s \in Session : Stale(s)} \in SUBSET Session
        /\ {s \in Session : Unaware(s)} \in SUBSET Session
    OBVIOUS
  <2> QED
    BY <1>2, <2>1, <2>2, <2>3 DEF SelectStale, SelectUnaware
<1>3. ASSUME NEW p \in Process, NEW s \in Session, Treated(p, s)
      PROVE  Goal
  <2> DEFINE c == [copied[p] EXCEPT ![s] = NoValue]
  <2>1. c \in [Session -> Nat \cup {NoValue}]
    BY <1>0
  <2>2. copied' = [copied EXCEPT ![p] = c] /\ doing' = doing
        /\ todo' = [todo EXCEPT ![p] = @ \ {s}]
    BY <1>3 DEF Treated
  <2> HIDE DEF c
  <2> QED
    BY <1>0, <2>1, <2>2
<1>4. ASSUME NEW p \in Process, EndJob(p)
      PROVE  Goal
  BY <1>0, <1>4 DEF EndJob
<1>5. CASE UNCHANGED accountingVars
  BY <1>1, <1>5 DEF accountingVars, job
<1>6. CASE AccountingNext
  <2>1. CASE \/ Tick \/ DeleteOld \/ \E s \in Session : Start(s)
             \/ \E s \in Session, d \in 0..MaxTime : Interim(s, d) \/ Stop(s, d)
    BY <1>1, <2>1 DEF Tick, DeleteOld, Start, Interim, Stop, Report
  <2>2. ASSUME NEW p \in Process, NEW s \in Session, Close(p, s) \/ Convert(p, s) \/ Skip(p, s)
        PROVE  Goal
    BY <1>3, <2>2 DEF Close, Closed, Convert, Skip
  <2> QED
    BY <1>2, <1>4, <1>6, <2>1, <2>2, NextCases
<1> QED
  BY <1>5, <1>6

LEMMA TypeStep ==
  ASSUME AccountingInv, [AccountingNext]_accountingVars
  PROVE  AccountingTypeOK'
<1> USE DEF AccountingInv
<1> DEFINE Rows ==
      /\ now' \in 0..MaxTime
      /\ row' \in [Session -> {"none", "kept", "deleted"}]
      /\ start' \in [Session -> 0..MaxTime]
      /\ stop' \in [Session -> Int \cup {NoValue}]
      /\ time' \in [Session -> 0..MaxTime \cup {NoValue}]
      /\ longest' \in [Session -> 0..MaxTime]
      /\ cause' \in [Session -> {"none", "nas", "recalculated", "invalid"}]
      /\ prefixes' \in [Session -> Nat]
      /\ \A s \in Session : cause'[s] = "none" <=> stop'[s] = NoValue
<1>0. AccountingTypeOK
  OBVIOUS
<1>1. ASSUME UNCHANGED <<now, session>> PROVE Rows
  BY <1>0, <1>1 DEF session, AccountingTypeOK
<1>2. ASSUME Tick PROVE Rows
  BY <1>0, <1>2, TimeAssumption DEF Tick, session, AccountingTypeOK
<1>3. ASSUME DeleteOld PROVE Rows
  BY <1>0, <1>3 DEF DeleteOld, AccountingTypeOK
<1>4. ASSUME NEW s \in Session, Start(s)
      PROVE  Rows
  BY <1>0, <1>4, TimeAssumption DEF Start, AccountingTypeOK
<1>5. ASSUME NEW s \in Session, NEW d \in 0..MaxTime, Interim(s, d)
      PROVE  Rows
  BY <1>0, <1>5 DEF Interim, Report, AccountingTypeOK
<1>6. ASSUME NEW s \in Session, NEW d \in 0..MaxTime, Stop(s, d)
      PROVE  Rows
  <2>1. start[s] + d \in Int /\ start[s] + d # NoValue
    <3>1. start[s] \in 0..MaxTime
      BY <1>0 DEF AccountingTypeOK
    <3> QED
      BY <3>1, NullAssumption
  <2> DEFINE at == start[s] + d
  <2>2. stop' = [stop EXCEPT ![s] = at] /\ Report(s, d) /\ cause' = [cause EXCEPT ![s] = "nas"]
    BY <1>6 DEF Stop
  <2>3. at \in Int /\ at # NoValue
    BY <2>1
  <2> HIDE DEF at
  <2> QED
    BY <1>0, <2>2, <2>3 DEF Report, AccountingTypeOK
<1>7. ASSUME NEW p \in Process, NEW s \in Session, NEW at \in Int,
             NEW why \in {"recalculated", "invalid"}, Closed(p, s, at, why)
      PROVE  Rows
  <2>1. at # NoValue
    BY NullAssumption
  <2> QED
    BY <1>0, <1>7, <2>1 DEF Closed, AccountingTypeOK
<1>8. ASSUME NEW p \in Process, NEW s \in Session, Close(p, s)
      PROVE  Rows
  <2>1. start[s] \in Int
    BY <1>0 DEF AccountingTypeOK
  <2> QED
    BY <1>7, <1>8, <2>1 DEF Close
<1>9. ASSUME NEW p \in Process, NEW s \in Session, Convert(p, s)
      PROVE  Rows
  <2>1. copied[p][s] = 0
    BY <1>9 DEF Convert, Bare
  <2> QED
    BY <1>0, <1>9, <2>1 DEF Convert, AccountingTypeOK
<1>10. ASSUME NEW p \in Process, NEW s \in Session, Skip(p, s)
       PROVE  Rows
  BY <1>1, <1>10 DEF Skip
<1>11. ASSUME NEW p \in Process, SelectStale(p) \/ SelectUnaware(p) \/ EndJob(p)
       PROVE  Rows
  BY <1>1, <1>11 DEF SelectStale, SelectUnaware, Select, EndJob
<1>12. ASSUME UNCHANGED accountingVars PROVE Rows
  BY <1>1, <1>12 DEF accountingVars, session
<1>13. Rows
  <2>1. CASE AccountingNext
    BY <1>0, <1>2, <1>3, <1>4, <1>5, <1>6, <1>8, <1>9, <1>10, <1>11, <2>1, NextCases
  <2> QED
    BY <1>12, <2>1
<1> QED
  BY <1>13, JobTypes DEF AccountingTypeOK

-----------------------------------------------------------------------------
(* The parts of the invariant.                                             *)

LEMMA FreshStep ==
  ASSUME AccountingInv, [AccountingNext]_accountingVars
  PROVE  NotYetClosed'
<1> USE DEF AccountingInv
<1>0. /\ row \in [Session -> {"none", "kept", "deleted"}]
      /\ stop \in [Session -> Int \cup {NoValue}]
      /\ \A s \in Session : row[s] = "none" => stop[s] = NoValue
  BY DEF AccountingTypeOK, NotYetClosed
<1>1. \A s \in Session : row'[s] = "none" => row[s] = "none"
  BY <1>0, NextCases DEF Tick, DeleteOld, Start, Interim, Stop, Report, SelectStale, SelectUnaware,
     Select, EndJob, Close, Closed, Convert, Skip, session, accountingVars
<1>2. \A s \in Session : row[s] # "kept" => stop'[s] = stop[s]
  BY <1>0, NextCases DEF Tick, DeleteOld, Start, Interim, Stop, Report, SelectStale, SelectUnaware,
     Select, EndJob, Close, Closed, Convert, Skip, session, accountingVars
<1> QED
  BY <1>0, <1>1, <1>2 DEF NotYetClosed

LEMMA LongestGrows ==
  ASSUME AccountingTypeOK, [AccountingNext]_accountingVars
  PROVE  /\ \A s \in Session : longest[s] <= longest'[s]
         /\ \A s \in Session : time'[s] # time[s] /\ time'[s] # NoValue => time'[s] <= longest'[s]
<1>0. longest \in [Session -> 0..MaxTime] /\ time \in [Session -> 0..MaxTime \cup {NoValue}]
  BY DEF AccountingTypeOK
<1> DEFINE Goal == /\ \A s \in Session : longest[s] <= longest'[s]
                   /\ \A s \in Session :
                        time'[s] # time[s] /\ time'[s] # NoValue => time'[s] <= longest'[s]
<1>1. ASSUME NEW s \in Session, NEW d \in 0..MaxTime, Report(s, d)
      PROVE  Goal
  BY <1>0, <1>1 DEF Report
<1>2. ASSUME NEW s \in Session, Start(s)
      PROVE  Goal
  BY <1>0, <1>2 DEF Start
<1>3. ASSUME UNCHANGED <<time, longest>>
      PROVE  Goal
  BY <1>0, <1>3
<1> QED
  BY <1>1, <1>2, <1>3, NextCases DEF Tick, DeleteOld, Interim, Stop, SelectStale, SelectUnaware,
     Select, EndJob, Close, Closed, Convert, Skip, session, accountingVars

\* What the copies of a process can have become in a step.
LEMMA CopyCases ==
  ASSUME AccountingTypeOK, [AccountingNext]_accountingVars, NEW p \in Process, NEW s \in Session
  PROVE  \/ doing'[p] = doing[p] /\ todo'[p] \subseteq todo[p]
            /\ (s \in todo'[p] => copied'[p][s] = copied[p][s])
            /\ copied'[p][s] \in {copied[p][s], NoValue}
         \/ doing'[p] = "cleanup" /\ copied'[p][s] \in {time[s], NoValue} /\ UNCHANGED session
         \/ doing'[p] = "convert" /\ todo'[p] = {r \in Session : Unaware(r)}
            /\ (s \in todo'[p] => copied'[p][s] = prefixes[s]) /\ UNCHANGED session
         \/ doing'[p] = "idle"
<1> DEFINE Same == doing'[p] = doing[p] /\ todo'[p] \subseteq todo[p]
                   /\ (s \in todo'[p] => copied'[p][s] = copied[p][s])
                   /\ copied'[p][s] \in {copied[p][s], NoValue}
           Cleanup == doing'[p] = "cleanup" /\ copied'[p][s] \in {time[s], NoValue} /\ UNCHANGED session
           Conversion == doing'[p] = "convert" /\ todo'[p] = {r \in Session : Unaware(r)}
                         /\ (s \in todo'[p] => copied'[p][s] = prefixes[s]) /\ UNCHANGED session
<1>0. /\ doing \in [Process -> {"idle", "cleanup", "convert"}]
      /\ todo \in [Process -> SUBSET Session]
      /\ copied \in [Process -> [Session -> Nat \cup {NoValue}]]
  BY DEF AccountingTypeOK
<1>1. ASSUME UNCHANGED job
      PROVE  Same
  BY <1>1 DEF job
<1>2. ASSUME NEW q \in Process, NEW r \in Session, Treated(q, r)
      PROVE  Same
  <2> DEFINE c == [copied[q] EXCEPT ![r] = NoValue]
  <2>1. \A x \in Session : c[x] = IF x = r THEN NoValue ELSE copied[q][x]
    BY <1>0
  <2>2. copied' = [copied EXCEPT ![q] = c] /\ doing' = doing
        /\ todo' = [todo EXCEPT ![q] = @ \ {r}]
    BY <1>2 DEF Treated
  <2> HIDE DEF c
  <2>3. CASE q = p
    BY <1>0, <2>1, <2>2, <2>3
  <2>4. CASE q # p
    BY <1>0, <2>2, <2>4
  <2> QED
    BY <2>3, <2>4
<1>3. ASSUME NEW q \in Process, EndJob(q)
      PROVE  Same \/ doing'[p] = "idle"
  BY <1>0, <1>3 DEF EndJob
<1>4. ASSUME NEW q \in Process, SelectStale(q)
      PROVE  Same \/ Cleanup
  BY <1>0, <1>4 DEF SelectStale, Select
<1>5. ASSUME NEW q \in Process, SelectUnaware(q)
      PROVE  Same \/ Conversion
  BY <1>0, <1>5 DEF SelectUnaware, Select
<1>6. CASE UNCHANGED accountingVars
  BY <1>1, <1>6 DEF accountingVars, job
<1>7. CASE \/ Tick \/ DeleteOld \/ \E r \in Session : Start(r)
           \/ \E r \in Session, d \in 0..MaxTime : Interim(r, d) \/ Stop(r, d)
  <2>1. UNCHANGED job
    BY <1>7 DEF Tick, DeleteOld, Start, Interim, Stop, Report
  <2> QED
    BY <1>1, <2>1
<1>8. ASSUME NEW q \in Process, NEW r \in Session, Close(q, r) \/ Convert(q, r) \/ Skip(q, r)
      PROVE  Same
  BY <1>2, <1>8 DEF Close, Closed, Convert, Skip
<1>9. Same \/ Cleanup \/ Conversion \/ doing'[p] = "idle"
  BY <1>3, <1>4, <1>5, <1>6, <1>7, <1>8, NextCases
<1> QED
  BY <1>9

LEMMA ReportedStep ==
  ASSUME AccountingInv, [AccountingNext]_accountingVars
  PROVE  Reported'
<1> USE DEF AccountingInv
<1>0. /\ \A s \in Session : longest[s] \in Int /\ longest'[s] \in Int
      /\ \A s \in Session : time[s] # NoValue => time[s] \in Int
      /\ \A p \in Process, s \in Session : copied[p][s] # NoValue => copied[p][s] \in Int
  BY TypeStep DEF AccountingTypeOK
<1>1. ASSUME NEW s \in Session, time'[s] # NoValue
      PROVE  time'[s] <= longest'[s]
  BY <1>0, <1>1, LongestGrows DEF Reported
<1>2. ASSUME NEW p \in Process, NEW s \in Session, doing'[p] = "cleanup", copied'[p][s] # NoValue
      PROVE  copied'[p][s] <= longest'[s]
  <2>1. longest[s] <= longest'[s]
    BY LongestGrows
  <2>2. CASE doing[p] = "cleanup" /\ copied'[p][s] = copied[p][s]
    BY <1>0, <1>2, <2>1, <2>2 DEF Reported
  <2>3. CASE copied'[p][s] = time[s]
    BY <1>0, <1>2, <2>1, <2>3 DEF Reported
  <2> QED
    BY <1>2, <2>2, <2>3, CopyCases
<1> QED
  BY <1>1, <1>2 DEF Reported

LEMMA BareStep ==
  ASSUME AccountingInv, [AccountingNext]_accountingVars
  PROVE  Bare'
<1> SUFFICES ASSUME NEW p \in Process, NEW s \in Session, doing'[p] = "convert", s \in todo'[p]
             PROVE  copied'[p][s] = 0
  BY DEF Bare
<1>1. CASE doing'[p] = doing[p] /\ todo'[p] \subseteq todo[p] /\ copied'[p][s] = copied[p][s]
  BY <1>1 DEF AccountingInv, Bare
<1>2. CASE todo'[p] = {r \in Session : Unaware(r)} /\ copied'[p][s] = prefixes[s]
  BY <1>2 DEF Unaware
<1> QED
  BY <1>1, <1>2, CopyCases DEF AccountingInv

LEMMA PrefixStep ==
  ASSUME AccountingInv, [AccountingNext]_accountingVars
  PROVE  PrefixedOnce'
<1> USE DEF AccountingInv
<1>0. prefixes \in [Session -> Nat] /\ \A s \in Session : prefixes[s] <= 1
  BY DEF AccountingTypeOK, PrefixedOnce
<1>1. ASSUME NEW p \in Process, NEW s \in Session, Convert(p, s)
      PROVE  PrefixedOnce'
  <2>1. copied[p][s] = 0
    BY <1>1 DEF Convert, Bare
  <2> QED
    BY <1>0, <1>1, <2>1 DEF Convert, PrefixedOnce
<1>2. ASSUME UNCHANGED prefixes
      PROVE  PrefixedOnce'
  BY <1>0, <1>2 DEF PrefixedOnce
<1> QED
  BY <1>1, <1>2, NextCases DEF Tick, DeleteOld, Start, Interim, Stop, Report, SelectStale,
     SelectUnaware, Select, EndJob, Close, Closed, Skip, session, accountingVars

LEMMA LengthStep ==
  ASSUME AccountingInv, [AccountingNext]_accountingVars
  PROVE  NeverOverstated'
<1> USE DEF AccountingInv
<1> SUFFICES ASSUME LocalOffset = 0, NEW s \in Session, stop'[s] # NoValue
             PROVE  /\ start'[s] <= stop'[s] /\ stop'[s] <= start'[s] + longest'[s]
                    /\ cause'[s] = "invalid" => stop'[s] = start'[s]
  BY DEF NeverOverstated
<1> DEFINE Goal == /\ start'[s] <= stop'[s] /\ stop'[s] <= start'[s] + longest'[s]
                   /\ cause'[s] = "invalid" => stop'[s] = start'[s]
<1>0. /\ start[s] \in Nat /\ longest[s] \in Nat /\ stop[s] \in Int \cup {NoValue}
      /\ longest'[s] \in Nat /\ longest[s] <= longest'[s]
      /\ row \in [Session -> {"none", "kept", "deleted"}]
      /\ stop \in [Session -> Int \cup {NoValue}]
      /\ start \in [Session -> 0..MaxTime] /\ longest \in [Session -> 0..MaxTime]
      /\ cause \in [Session -> {"none", "nas", "recalculated", "invalid"}]
  BY TimeAssumption, TypeStep, LongestGrows DEF AccountingTypeOK
<1>1. ASSUME start'[s] = start[s], stop'[s] = stop[s], cause'[s] = cause[s]
      PROVE  Goal
  BY <1>0, <1>1 DEF NeverOverstated
<1>2. CASE UNCHANGED <<start, stop, cause>>
  BY <1>1, <1>2
<1>3. ASSUME NEW r \in Session, Start(r)
      PROVE  Goal
  <2>1. CASE r = s
    BY <1>3, <2>1 DEF Start, NotYetClosed
  <2>2. CASE r # s
    BY <1>0, <1>1, <1>3, <2>2 DEF Start
  <2> QED
    BY <2>1, <2>2
<1>4. ASSUME NEW r \in Session, NEW d \in 0..MaxTime, Stop(r, d)
      PROVE  Goal
  <2>1. CASE r = s
    <3>1. longest'[s] >= d
      BY <1>0, <1>4, <2>1 DEF Stop, Report
    <3>2. stop'[s] = start[s] + d /\ start'[s] = start[s] /\ cause'[s] = "nas"
      BY <1>0, <1>4, <2>1 DEF Stop, Report
    <3> QED
      BY <1>0, <3>1, <3>2
  <2>2. CASE r # s
    BY <1>0, <1>1, <1>4, <2>2 DEF Stop, Report
  <2> QED
    BY <2>1, <2>2
<1>5. ASSUME NEW p \in Process, NEW r \in Session, Close(p, r)
      PROVE  Goal
  <2>1. UNCHANGED <<start, longest>>
    BY <1>5 DEF Close, Closed
  <2>2. CASE r = s /\ row[s] = "kept"
    <3>1. ASSUME Closed(p, s, start[s], "invalid")
          PROVE  Goal
      <4>1. stop'[s] = start[s]
        BY <1>0, <2>2, <3>1 DEF Closed
      <4> QED
        BY <1>0, <2>1, <4>1
    <3>2. ASSUME NEW at \in Int, at = start[s] - LocalOffset + copied[p][s],
                 copied[p][s] # NoValue, copied[p][s] > 0, Closed(p, s, at, "recalculated")
          PROVE  Goal
      <4>1. stop'[s] = at /\ cause'[s] = "recalculated"
        BY <1>0, <2>2, <3>2 DEF Closed
      <4>2. copied[p][s] <= longest[s] /\ copied[p][s] \in Nat
        BY <3>2 DEF Closed, Reported, AccountingTypeOK
      <4> QED
        BY <1>0, <2>1, <3>2, <4>1, <4>2
    <3> QED
      BY <1>5, <2>2, <3>1, <3>2 DEF Close
  <2>3. CASE r # s \/ row[s] # "kept"
    <3>1. stop'[s] = stop[s] /\ cause'[s] = cause[s]
      BY <1>0, <1>5, <2>3 DEF Close, Closed
    <3> QED
      BY <1>1, <2>1, <3>1
  <2> QED
    BY <2>2, <2>3
<1> QED
  BY <1>2, <1>3, <1>4, <1>5, NextCases DEF Tick, DeleteOld, Interim, Report, SelectStale,
     SelectUnaware, Select, EndJob, Convert, Skip, session, accountingVars

-----------------------------------------------------------------------------
(* The theorems.                                                           *)

LEMMA InitAccountingInv == AccountingInit => AccountingInv
<1> SUFFICES ASSUME AccountingInit
             PROVE  AccountingInv
  OBVIOUS
<1>1. AccountingTypeOK
  BY TimeAssumption DEF AccountingInit, AccountingTypeOK, Blank
<1>2. NotYetClosed /\ Reported /\ Bare /\ PrefixedOnce
  BY DEF AccountingInit, NotYetClosed, Reported, Bare, PrefixedOnce
<1>3. NeverOverstated
  BY DEF AccountingInit, NeverOverstated
<1> QED
  BY <1>1, <1>2, <1>3 DEF AccountingInv

\* The inductive invariant of the sessions and of the jobs.
LEMMA AccountingInvariant == AccountingSpec => []AccountingInv
<1>1. AccountingInv /\ [AccountingNext]_accountingVars => AccountingInv'
  BY TypeStep, FreshStep, ReportedStep, BareStep, PrefixStep, LengthStep DEF AccountingInv
<1> QED
  BY InitAccountingInv, <1>1, PTL DEF AccountingSpec

\* Type correctness of the sessions and of the copies the jobs compute from;
\* a session is closed exactly if it was stopped or marked.
THEOREM AccountingTypeCorrect == AccountingSpec => []AccountingTypeOK
<1>1. AccountingInv => AccountingTypeOK
  BY DEF AccountingInv
<1> QED
  BY AccountingInvariant, <1>1, PTL

\* Whatever packets are late and whatever jobs run at once, no session is
\* closed with a length FreeRADIUS did not report.
THEOREM LengthsReported == AccountingSpec => []NeverOverstated
<1>1. AccountingInv => NeverOverstated
  BY DEF AccountingInv
<1> QED
  BY AccountingInvariant, <1>1, PTL

\* Any number of conversions at once put one access point at most in front
\* of a called station.
THEOREM OnePrefix == AccountingSpec => []PrefixedOnce
<1>1. AccountingInv => PrefixedOnce
  BY DEF AccountingInv
<1> QED
  BY AccountingInvariant, <1>1, PTL

\* No job opens a session again that was closed after the job selected it.
THEOREM ClosedStay == AccountingSpec => ClosedStays
<1>1. ASSUME AccountingInv, [AccountingNext]_accountingVars
      PROVE  [\A s \in Session : stop[s] # NoValue => stop'[s] # NoValue]_accountingVars
  <2>0. AccountingTypeOK /\ AccountingTypeOK'
    BY <1>1, TypeStep DEF AccountingInv
  <2>1. \A s \in Session : cause[s] # "none" => cause'[s] # "none"
    <3>0. cause \in [Session -> {"none", "nas", "recalculated", "invalid"}]
      BY <2>0 DEF AccountingTypeOK
    <3> QED
      BY <1>1, <2>0, <3>0, NextCases DEF Tick, DeleteOld, Start, Interim, Stop, Report, SelectStale,
         SelectUnaware, Select, EndJob, Close, Closed, Convert, Skip, session, accountingVars
  <2> QED
    BY <2>0, <2>1 DEF AccountingTypeOK
<1> QED
  BY AccountingInvariant, <1>1, PTL DEF AccountingSpec, ClosedStays

-----------------------------------------------------------------------------
(* The rows implement AccountedSessions.                                   *)

\* Each step is one of a session, or shows nothing of it.
LEMMA SessionStep ==
  ASSUME LocalOffset = 0, AccountingInv, [AccountingNext]_accountingVars
  PROVE  [Sessions!Next]_(Sessions!vars)
<1> DEFINE state == [s \in Session |-> State(s)]
           length == [s \in Session |-> SessionLength(s)]
<1>0. /\ AccountingTypeOK /\ AccountingTypeOK' /\ NeverOverstated /\ NeverOverstated'
      /\ NotYetClosed
  BY TypeStep, LengthStep DEF AccountingInv
<1>1. /\ row \in [Session -> {"none", "kept", "deleted"}]
      /\ stop \in [Session -> Int \cup {NoValue}]
      /\ start \in [Session -> 0..MaxTime] /\ longest \in [Session -> 0..MaxTime]
      /\ MaxTime \in Nat /\ NoValue \notin Int
  BY <1>0, TimeAssumption, NullAssumption DEF AccountingTypeOK
<1>2. ASSUME UNCHANGED <<row, start, stop, longest>>
      PROVE  UNCHANGED Sessions!vars
  BY <1>2 DEF State, SessionLength, Sessions!vars
<1>3. ASSUME NEW s \in Session, Start(s)
      PROVE  Sessions!Begin(s)
  <2>1. /\ row[s] = "none" /\ stop[s] = NoValue /\ stop' = stop /\ longest' = longest
        /\ row'[s] = "kept" /\ \A r \in Session \ {s} : row'[r] = row[r] /\ start'[r] = start[r]
    BY <1>0, <1>1, <1>3 DEF Start, NotYetClosed
  <2>2. state[s] = "absent" /\ state' = [state EXCEPT ![s] = "open"]
    BY <2>1 DEF State
  <2>3. length' = length
    BY <2>1 DEF SessionLength
  <2> QED
    BY <2>1, <2>2, <2>3 DEF Sessions!Begin
<1>4. ASSUME NEW s \in Session, NEW d \in 0..MaxTime, Report(s, d)
      PROVE  /\ row' = row /\ start' = start /\ Sessions!Kept(s) /\ Sessions!Hear(s, d)
  BY <1>4 DEF Report, State, Sessions!Kept, Sessions!Hear
<1>5. ASSUME NEW s \in Session, NEW d \in 0..MaxTime, Interim(s, d)
      PROVE  Sessions!Update(s, d)
  <2>1. row' = row /\ start' = start /\ stop' = stop /\ Sessions!Kept(s) /\ Sessions!Hear(s, d)
    BY <1>4, <1>5 DEF Interim
  <2>2. state' = state /\ length' = length
    BY <2>1 DEF State, SessionLength
  <2> QED
    BY <2>1, <2>2 DEF Sessions!Update
<1>6. ASSUME NEW s \in Session, NEW at \in Int, row[s] = "kept", row' = row, start' = start,
             stop' = [stop EXCEPT ![s] = at]
      PROVE  Sessions!CloseAt(s, at - start[s])
  <2>1. stop'[s] # NoValue /\ stop'[s] = at /\ \A r \in Session \ {s} : stop'[r] = stop[r]
    BY <1>1, <1>6
  <2>2. state' = [state EXCEPT ![s] = "closed"]
    BY <1>6, <2>1 DEF State
  <2>3. length' = [length EXCEPT ![s] = at - start[s]]
    <3>1. SessionLength(s)' = at - start[s]
      BY <1>6, <2>1 DEF SessionLength
    <3>2. \A r \in Session \ {s} : SessionLength(r)' = SessionLength(r)
      BY <1>6, <2>1 DEF SessionLength
    <3>3. /\ length \in [Session -> {SessionLength(r) : r \in Session}]
          /\ \A r \in Session : length[r] = SessionLength(r)
      OBVIOUS
    <3>4. \A r \in Session : SessionLength(r)' = [length EXCEPT ![s] = at - start[s]][r]
      BY <3>1, <3>2, <3>3
    <3>5. length' = [r \in Session |-> SessionLength(r)']
      OBVIOUS
    <3> HIDE DEF length
    <3>6. [length EXCEPT ![s] = at - start[s]]
            = [r \in Session |-> [length EXCEPT ![s] = at - start[s]][r]]
      BY <3>3
    <3> QED
      BY <3>4, <3>5, <3>6, Zenon
  <2> QED
    BY <2>2, <2>3 DEF Sessions!CloseAt
<1>7. ASSUME NEW s \in Session, NEW d \in 0..MaxTime, Stop(s, d)
      PROVE  Sessions!End(s, d)
  <2>1. /\ row[s] = "kept" /\ row' = row /\ start' = start
        /\ stop' = [stop EXCEPT ![s] = start[s] + d]
        /\ Sessions!Kept(s) /\ Sessions!Hear(s, d)
    BY <1>4, <1>7 DEF Stop, Report
  <2>2. start[s] + d \in Int /\ (start[s] + d) - start[s] = d
    BY <1>1
  <2>3. Sessions!CloseAt(s, (start[s] + d) - start[s])
    BY <1>6, <2>1, <2>2
  <2> QED
    BY <2>1, <2>2, <2>3 DEF Sessions!End
<1>8. ASSUME NEW p \in Process, NEW s \in Session, Close(p, s), row[s] = "kept"
      PROVE  \E d \in 0..MaxTime : Sessions!Settle(s, d)
  <2>1. /\ row' = row /\ start' = start /\ longest' = longest
        /\ \E at \in Int : stop' = [stop EXCEPT ![s] = at]
    BY <1>1, <1>8 DEF Close, Closed
  <2>2. PICK at \in Int : stop' = [stop EXCEPT ![s] = at]
    BY <2>1
  <2>3. stop'[s] = at /\ stop'[s] # NoValue
    BY <1>1, <2>2
  <2>4. start[s] <= at /\ at <= start[s] + longest[s]
    BY <1>0, <2>1, <2>3 DEF NeverOverstated
  <2>5. at - start[s] \in 0..MaxTime /\ at - start[s] <= longest[s]
    BY <1>1, <2>4
  <2>6. Sessions!CloseAt(s, at - start[s])
    BY <1>6, <1>8, <2>1, <2>2
  <2>7. Sessions!Kept(s)
    BY <1>8 DEF State, Sessions!Kept
  <2> QED
    BY <2>1, <2>5, <2>6, <2>7 DEF Sessions!Settle
<1>9. ASSUME NEW p \in Process, NEW s \in Session, Close(p, s), row[s] # "kept"
      PROVE  UNCHANGED Sessions!vars
  BY <1>2, <1>9 DEF Close, Closed
<1>10. ASSUME DeleteOld
       PROVE  \E old \in SUBSET Session : Sessions!Delete(old)
  <2> DEFINE old == {s \in Session : row[s] = "kept" /\ start[s] < now - KeepFor}
  <2>1. /\ row' = [s \in Session |-> IF s \in old THEN "deleted" ELSE row[s]]
        /\ UNCHANGED <<start, stop, longest>> /\ \A s \in old : row[s] = "kept"
    BY <1>10 DEF DeleteOld
  <2> HIDE DEF old
  <2>2. old \in SUBSET Session
    BY DEF old
  <2>3. \A s \in old : Sessions!Kept(s)
    BY <2>1, <2>2 DEF State, Sessions!Kept
  <2>4. state' = [s \in Session |-> IF s \in old THEN "deleted" ELSE state[s]]
    BY <2>1 DEF State
  <2>5. length' = length
    BY <2>1 DEF SessionLength
  <2> QED
    BY <2>1, <2>2, <2>3, <2>4, <2>5 DEF Sessions!Delete
<1> HIDE DEF state, length
<1>11. ASSUME NEW p \in Process, NEW s \in Session, Close(p, s)
       PROVE  [Sessions!Next]_(Sessions!vars)
  BY <1>8, <1>9, <1>11 DEF Sessions!Next
<1>12. CASE \/ Tick \/ \E p \in Process : SelectStale(p) \/ SelectUnaware(p) \/ EndJob(p)
            \/ \E p \in Process, s \in Session : Convert(p, s) \/ Skip(p, s)
            \/ UNCHANGED accountingVars
  BY <1>2, <1>12 DEF Tick, SelectStale, SelectUnaware, Select, EndJob, Convert, Skip, session,
     accountingVars
<1> QED
  BY <1>0, <1>3, <1>5, <1>7, <1>10, <1>11, <1>12, NextCases DEF Sessions!Next

\* Packets that are late, any number of jobs at once and their stale copies
\* show only as sessions that begin, are reported, closed with a length that was
\* reported, and deleted.
THEOREM RowsImplementSessions == ASSUME LocalOffset = 0  PROVE AccountingSpec => ImplementsSessions
<1>1. AccountingInit => Sessions!Init
  BY DEF AccountingInit, State, SessionLength, Sessions!Init
<1>2. AccountingInv /\ [AccountingNext]_accountingVars => [Sessions!Next]_(Sessions!vars)
  BY SessionStep
<1> QED
  BY <1>1, <1>2, AccountingInvariant, PTL DEF AccountingSpec, ImplementsSessions, Sessions!Spec

-----------------------------------------------------------------------------
(* Groups, links, checks and replies.                                      *)

\* What a request holds has been given out; a removal that looks for links is
\* of a subject that is gone.
Sound(q) ==
  /\ q.at \in {"validate", "write"} =>
       /\ q.k \in Key
       /\ q.x # Null =>
            /\ q.x \in Record \cap used
            /\ key[q.x] # Null => key[q.x].table = q.k.table /\ key[q.x].of = q.k.of
  /\ q.at = "cascade" => q.s \in Subject \cap used /\ q.saw \subseteq Row
  /\ q.at \in {"list", "clear"} => q.s \in (Subject \cap used) \ Live
  /\ q.at = "edit" => q.s \in User \cap used /\ q.saw \subseteq used
  /\ q.at \in {"register", "edit"} => q.ask \subseteq used

Fields == \A r \in Request : Sound(req[r])

Born ==
  /\ \A u \in User, g \in Group : member[<<u, g>>] > 0 => u \in used /\ g \in used
  /\ \A u \in User : due[u] \subseteq used

Free ==
  \A r \in Request :
    req[r].at = "write" /\ ~req[r].rival =>
      /\ \A y \in Record : key[y] = req[r].k => y = req[r].x
      /\ \A p \in Request \ {r} : req[p].at = "write" => req[p].k # req[r].k

EditsAlone ==
  \A r \in Request :
    req[r].at = "edit" /\ req[r].s \in users \ coedited =>
      /\ \A p \in Request \ {r} : req[p].at = "edit" => req[p].s # req[r].s
      /\ \A g \in LiveGroups : g \in req[r].saw <=> member[<<req[r].s, g>>] > 0
      /\ \A g \in req[r].ask \ req[r].saw : member[<<req[r].s, g>>] = 0

RowsInHand ==
  /\ \A x \in Row : key[x] # Null => key[x].of \in Live \cup late
  /\ \A r \in Request :
       req[r].at = "cascade" /\ req[r].s \notin late => Attributes(req[r].s) \subseteq req[r].saw

\* Somebody is about to delete the link of s, which is gone, with o.
OnList(s, o) ==
  \E r \in Request :
    /\ req[r].s = s
    /\ req[r].at \in {"list", "clear"}
    /\ req[r].at = "clear" => o \in req[r].saw

Leftovers ==
  \A u \in User, g \in Group :
    member[<<u, g>>] > 0 =>
      /\ u \in users /\ g \notin LiveGroups => g \in late \/ OnList(g, u)
      /\ u \notin users /\ g \in LiveGroups => u \in late \/ OnList(u, g)

AuthorizationInv ==
  /\ AuthorizationTypeOK /\ Fields /\ Born /\ Free /\ EditsAlone
  /\ ListedAsDue /\ RowsInHand /\ Leftovers

-----------------------------------------------------------------------------
(* Types.                                                                  *)

LEMMA IdleFact ==
  /\ Idle \in Load /\ Idle.at = "idle" /\ Idle.x = Null /\ Idle.k = Null
  /\ Idle.s = Null /\ Idle.saw = {} /\ Idle.ask = {} /\ Idle.rival = FALSE
  BY DEF Idle, Load, At

LEMMA GotoFact ==
  ASSUME AuthorizationTypeOK, NEW r \in Request, NEW q \in Load, Goto(r, q)
  PROVE  /\ req' \in [Request -> Load]
         /\ req'[r] = q
         /\ \A p \in Request \ {r} : req'[p] = req[p]
  BY DEF AuthorizationTypeOK, Goto

LEMMA EndFact ==
  ASSUME AuthorizationTypeOK, NEW r \in Request, End(r)
  PROVE  /\ req' \in [Request -> Load]
         /\ req'[r].at = "idle"
         /\ \A p \in Request \ {r} : req'[p] = req[p]
  BY GotoFact, IdleFact DEF End

LEMMA ReqFact ==
  ASSUME AuthorizationTypeOK, NEW r \in Request
  PROVE  req[r] \in Load
  BY DEF AuthorizationTypeOK

LEMMA KeyFact ==
  /\ Null \notin Key /\ Null \notin Record /\ Null \notin Subject
  /\ User \cap Group = {} /\ User \cap Row = {} /\ Group \cap Row = {}
  /\ \A k \in Key : k.table = "radius_groups" <=> k.of = Null
  /\ \A k \in Key : k.of = Null \/ k.of \in Subject
  BY IdAssumption DEF Key

-----------------------------------------------------------------------------
(* The steps that only load: nothing changes but where one request is.     *)

LEMMA LoadKeeps ==
  ASSUME AuthorizationInv, NEW r \in Request, NEW q \in Load, Goto(r, q), Sound(q),
         q.at \in {"validate", "cascade", "register"},
         q.at = "cascade" => Attributes(q.s) \subseteq q.saw,
         req[r].at = "idle",
         UNCHANGED <<key, users, used, member, coedited, late, due>>
  PROVE  AuthorizationInv'
<1>1. /\ req' \in [Request -> Load] /\ req'[r] = q
      /\ \A p \in Request \ {r} : req'[p] = req[p]
  BY GotoFact DEF AuthorizationInv
<1>2. AuthorizationTypeOK'
  BY <1>1 DEF AuthorizationInv, AuthorizationTypeOK, LiveGroups
<1>3. Fields'
  BY <1>1 DEF AuthorizationInv, Fields, Sound, Live, LiveGroups
<1>4. Born'
  BY DEF AuthorizationInv, Born
<1>5. Free'
  BY <1>1 DEF AuthorizationInv, Free, Taken
<1>6. EditsAlone'
  BY <1>1 DEF AuthorizationInv, EditsAlone, LiveGroups
<1>7. ListedAsDue'
  BY DEF AuthorizationInv, ListedAsDue, Listed, LiveGroups
<1>8. RowsInHand'
  BY <1>1 DEF AuthorizationInv, RowsInHand, Attributes, Live, LiveGroups
<1>9. Leftovers'
  <2>1. \A s, o : OnList(s, o) => OnList(s, o)'
    BY <1>1 DEF OnList
  <2> QED
    BY <2>1 DEF AuthorizationInv, Leftovers, LiveGroups
<1> QED
  BY <1>2, <1>3, <1>4, <1>5, <1>6, <1>7, <1>8, <1>9 DEF AuthorizationInv

LEMMA UsedFact ==
  ASSUME AuthorizationTypeOK
  PROVE  Live \subseteq used
  BY DEF AuthorizationTypeOK, Live, LiveGroups, Record

LEMMA CreationKeeps ==
  ASSUME AuthorizationInv, NEW r \in Request, NEW k \in Key, Creation(r, k)
  PROVE  AuthorizationInv'
<1> DEFINE q == Validating(Null, k)
<1>1. q \in Load /\ q.at = "validate" /\ q.k = k /\ q.x = Null
  BY DEF Validating, Idle, Load, At
<1>2. Sound(q)
  BY <1>1 DEF Sound
<1>3. req[r].at = "idle"
  BY IdleFact DEF Creation
<1> QED
  BY <1>1, <1>2, <1>3, LoadKeeps DEF Creation

LEMMA ChangeKeeps ==
  ASSUME AuthorizationInv, NEW r \in Request, NEW x \in Record, NEW k \in Key, Change(r, x, k)
  PROVE  AuthorizationInv'
<1> DEFINE q == Validating(x, k)
<1>1. q \in Load /\ q.at = "validate" /\ q.k = k /\ q.x = x
  BY DEF Validating, Idle, Load, At
<1>2. x \in used
  BY DEF Change, AuthorizationInv, AuthorizationTypeOK
<1>3. Sound(q)
  BY <1>1, <1>2 DEF Sound, Change
<1>4. req[r].at = "idle"
  BY IdleFact DEF Change
<1> QED
  BY <1>1, <1>3, <1>4, LoadKeeps DEF Change

LEMMA DestroyKeeps ==
  ASSUME AuthorizationInv, NEW r \in Request, NEW s \in Subject, Destroy(r, s)
  PROVE  AuthorizationInv'
<1> DEFINE q == Destroying("cascade", s, Attributes(s))
<1>1. Attributes(s) \subseteq Row
  BY DEF Attributes
<1>2. q \in Load /\ q.at = "cascade" /\ q.s = s /\ q.saw = Attributes(s)
  BY <1>1 DEF Destroying, Idle, Load, At, Record
<1>3. s \in used
  BY UsedFact DEF Destroy, AuthorizationInv
<1>4. Sound(q)
  BY <1>1, <1>2, <1>3 DEF Sound
<1>5. req[r].at = "idle"
  BY IdleFact DEF Destroy
<1> QED
  BY <1>2, <1>4, <1>5, LoadKeeps DEF Destroy

LEMMA RegisteringKeeps ==
  ASSUME AuthorizationInv, NEW r \in Request, NEW S \in SUBSET Group, S \subseteq LiveGroups,
         req[r] = Idle, Goto(r, Registering(S)),
         UNCHANGED <<key, users, used, member, coedited, late, due>>
  PROVE  AuthorizationInv'
<1> DEFINE q == Registering(S)
<1>1. q \in Load /\ q.at = "register" /\ q.ask = S
  BY DEF Registering, Idle, Load, At
<1>2. S \subseteq used
  BY UsedFact DEF AuthorizationInv, Live
<1>3. Sound(q)
  BY <1>1, <1>2 DEF Sound
<1>4. req[r].at = "idle"
  BY IdleFact
<1> QED
  BY <1>1, <1>3, <1>4, LoadKeeps

LEMMA SignUpKeeps ==
  ASSUME AuthorizationInv, NEW r \in Request, SignUp(r)
  PROVE  AuthorizationInv'
<1>1. PICK g \in Group : key[g] = GroupKey(Default) /\ Goto(r, Registering({g}))
  BY DEF SignUp
<1>2. GroupKey(Default) \in Key
  BY SeedAssumption DEF GroupKey, Key
<1>3. g \in LiveGroups
  BY <1>1, <1>2, KeyFact DEF LiveGroups
<1> QED
  BY <1>1, <1>3, RegisteringKeeps DEF SignUp

LEMMA OperatorCreateKeeps ==
  ASSUME AuthorizationInv, NEW r \in Request, NEW S \in SUBSET Group, OperatorCreate(r, S)
  PROVE  AuthorizationInv'
  BY RegisteringKeeps DEF OperatorCreate

LEMMA EditKeeps ==
  ASSUME AuthorizationInv, NEW r \in Request, NEW u \in User, NEW S \in SUBSET Group, Edit(r, u, S)
  PROVE  AuthorizationInv'
<1> DEFINE q == [Idle EXCEPT !.at = "edit", !.s = u, !.saw = Listed(u), !.ask = S]
<1>1. Listed(u) \subseteq Group /\ Listed(u) \subseteq LiveGroups /\ LiveGroups \subseteq Group
  BY DEF Listed, LiveGroups
<1>2. q \in Load /\ q.at = "edit" /\ q.s = u /\ q.saw = Listed(u) /\ q.ask = S
  BY <1>1 DEF Idle, Load, At, Subject, Record
<1>3. /\ req' \in [Request -> Load] /\ req'[r] = q
      /\ \A p \in Request \ {r} : req'[p] = req[p]
      /\ req[r].at = "idle"
  BY <1>2, GotoFact, IdleFact DEF AuthorizationInv, Edit
<1>4. /\ UNCHANGED <<key, users, used, member, late>>
      /\ coedited' \in SUBSET User /\ coedited \subseteq coedited'
      /\ \A v \in User \ {u} : v \in coedited' <=> v \in coedited
      /\ due' \in [User -> SUBSET Group]
      /\ \A v \in User : due'[v] = due[v] \/ due'[v] = {}
      /\ \A v \in User : v \notin coedited' => due'[v] = due[v]
      /\ (\E p \in Request : req[p].at = "edit" /\ req[p].s = u) => u \in coedited'
  BY DEF Edit, AuthorizationInv, AuthorizationTypeOK
<1>5. u \in used /\ S \subseteq used /\ Listed(u) \subseteq used
  BY UsedFact, <1>1 DEF Edit, AuthorizationInv, Live
<1>6. AuthorizationTypeOK'
  BY <1>3, <1>4 DEF AuthorizationInv, AuthorizationTypeOK
<1>7. Fields'
  <2>1. Sound(q)
    BY <1>2, <1>5 DEF Sound
  <2>2. \A p \in Request : Sound(req'[p])
    BY <2>1, <1>3 DEF AuthorizationInv, Fields
  <2> QED
    BY <2>2, <1>4 DEF Fields, Sound, Live, LiveGroups
<1>8. Born'
  BY <1>4 DEF AuthorizationInv, Born
<1>9. Free'
  <2>1. req'[r].at # "write"
    BY <1>2, <1>3
  <2> QED
    <3> SUFFICES ASSUME NEW p \in Request, req'[p].at = "write", ~req'[p].rival
                 PROVE  /\ \A y \in Record : key'[y] = req'[p].k => y = req'[p].x
                        /\ \A o \in Request \ {p} : req'[o].at = "write" => req'[o].k # req'[p].k
      BY DEF Free
    <3>1. p # r /\ req'[p] = req[p]
      BY <2>1, <1>3
    <3>2. \A o \in Request \ {p} : req'[o].at = "write" => req[o].at = "write" /\ req'[o].k = req[o].k
      BY <2>1, <1>3
    <3> QED
      BY <3>1, <3>2, <1>4 DEF AuthorizationInv, Free
<1>10. EditsAlone'
  <2> SUFFICES ASSUME NEW p \in Request, req'[p].at = "edit", req'[p].s \in users' \ coedited'
               PROVE  /\ \A o \in Request \ {p} : req'[o].at = "edit" => req'[o].s # req'[p].s
                      /\ \A g \in LiveGroups' : g \in req'[p].saw <=> member'[<<req'[p].s, g>>] > 0
                      /\ \A g \in req'[p].ask \ req'[p].saw : member'[<<req'[p].s, g>>] = 0
    BY DEF EditsAlone
  <2>1. CASE p = r
    <3>1. /\ req'[p].s = u /\ req'[p].saw = Listed(u) /\ req'[p].ask = S /\ u \notin coedited'
          /\ LiveGroups' = LiveGroups /\ member' = member
      BY <2>1, <1>2, <1>3, <1>4 DEF LiveGroups
    <3>2. \A o \in Request \ {p} : req'[o].at = "edit" => req'[o].s # u
      BY <2>1, <3>1, <1>3, <1>4
    <3>3. \A g \in LiveGroups : g \in Listed(u) <=> member[<<u, g>>] > 0
      BY DEF Listed
    <3>4. \A g \in S : g \in LiveGroups /\ member[<<u, g>>] \in Nat
      BY DEF Edit, AuthorizationInv, AuthorizationTypeOK
    <3>5. \A g \in S \ Listed(u) : member[<<u, g>>] = 0
      BY <3>3, <3>4
    <3> QED
      BY <3>1, <3>2, <3>3, <3>5
  <2>2. CASE p # r
    <3>1. req'[p] = req[p] /\ req[p].s # u
      BY <2>2, <1>3, <1>4
    <3>2. /\ req[p].at = "edit" /\ req[p].s \in users \ coedited
          /\ LiveGroups' = LiveGroups /\ member' = member
      BY <3>1, <1>4 DEF LiveGroups
    <3>3. /\ \A o \in Request \ {p} : req[o].at = "edit" => req[o].s # req[p].s
          /\ \A g \in LiveGroups : g \in req[p].saw <=> member[<<req[p].s, g>>] > 0
          /\ \A g \in req[p].ask \ req[p].saw : member[<<req[p].s, g>>] = 0
      BY <3>2 DEF AuthorizationInv, EditsAlone
    <3> QED
      BY <3>1, <3>2, <3>3, <1>2, <1>3
  <2> QED
    BY <2>1, <2>2
<1>11. ListedAsDue'
  <2>1. users \subseteq User
    BY DEF AuthorizationInv, AuthorizationTypeOK
  <2> QED
    BY <2>1, <1>4 DEF AuthorizationInv, ListedAsDue, Listed, LiveGroups
<1>12. RowsInHand'
  BY <1>2, <1>3, <1>4 DEF AuthorizationInv, RowsInHand, Attributes, Live, LiveGroups
<1>13. Leftovers'
  <2>1. \A s, o : OnList(s, o) => OnList(s, o)'
    BY <1>3 DEF OnList
  <2> QED
    BY <2>1, <1>4 DEF AuthorizationInv, Leftovers, LiveGroups
<1> QED
  BY <1>6, <1>7, <1>8, <1>9, <1>10, <1>11, <1>12, <1>13 DEF AuthorizationInv

-----------------------------------------------------------------------------
(* A request that stops, and one that has validated.                       *)

LEMMA StopKeeps ==
  ASSUME AuthorizationInv, NEW r \in Request, End(r),
         UNCHANGED <<key, users, used, member, coedited, due>>,
         late' \in SUBSET Subject, late \subseteq late',
         req[r].at \in {"list", "clear"} => req[r].s \in late'
  PROVE  AuthorizationInv'
<1>1. /\ req' \in [Request -> Load] /\ req'[r].at = "idle"
      /\ \A p \in Request \ {r} : req'[p] = req[p]
  BY EndFact DEF AuthorizationInv
<1>2. LiveGroups' = LiveGroups /\ Live' = Live
  BY DEF LiveGroups, Live
<1>3. AuthorizationTypeOK'
  BY <1>1 DEF AuthorizationInv, AuthorizationTypeOK
<1>4. Fields'
  <2>1. \A p \in Request : req'[p].at # "idle" => Sound(req'[p])
    BY <1>1 DEF AuthorizationInv, Fields
  <2> QED
    BY <2>1, <1>2 DEF Fields, Sound
<1>5. Born'
  BY DEF AuthorizationInv, Born
<1>6. Free'
  BY <1>1 DEF AuthorizationInv, Free
<1>7. EditsAlone'
  BY <1>1, <1>2 DEF AuthorizationInv, EditsAlone
<1>8. ListedAsDue'
  BY <1>2 DEF AuthorizationInv, ListedAsDue, Listed
<1>9. RowsInHand'
  BY <1>1, <1>2 DEF AuthorizationInv, RowsInHand, Attributes
<1>10. Leftovers'
  <2>1. \A s, o : OnList(s, o) => s \in late' \/ OnList(s, o)'
    BY <1>1 DEF OnList
  <2> QED
    BY <2>1, <1>2 DEF AuthorizationInv, Leftovers
<1> QED
  BY <1>3, <1>4, <1>5, <1>6, <1>7, <1>8, <1>9, <1>10 DEF AuthorizationInv

LEMMA FailKeeps ==
  ASSUME AuthorizationInv, NEW r \in Request, Fail(r)
  PROVE  AuthorizationInv'
<1>1. late \in SUBSET Subject
  BY DEF AuthorizationInv, AuthorizationTypeOK
<1>2. req[r].at \in {"list", "clear"} => req[r].s \in Subject
  BY DEF AuthorizationInv, Fields, Sound
<1> QED
  BY <1>1, <1>2, StopKeeps DEF Fail

LEMMA ValidateKeeps ==
  ASSUME AuthorizationInv, NEW r \in Request, Validate(r)
  PROVE  AuthorizationInv'
<1>1. CASE Taken(req[r].x, req[r].k)
  <2>1. End(r) /\ req[r].at = "validate"
    BY <1>1 DEF Validate, End, Goto
  <2>2. late \in SUBSET Subject
    BY DEF AuthorizationInv, AuthorizationTypeOK
  <2> QED
    BY <2>1, <2>2, StopKeeps DEF Validate
<1>2. CASE ~Taken(req[r].x, req[r].k)
  <2> DEFINE q == req[r]
  <2>1. /\ q \in Load /\ q.at = "validate"
        /\ \A p \in Request : req[p] \in Load
        /\ req' = [p \in Request |->
                    IF p = r THEN [q EXCEPT !.at = "write", !.rival = Rivals(q.k) # {}]
                    ELSE IF p \in Rivals(q.k) THEN [req[p] EXCEPT !.rival = TRUE]
                    ELSE req[p]]
        /\ UNCHANGED <<key, users, used, member, coedited, late, due>>
    BY <1>2, ReqFact DEF Validate, AuthorizationInv
  <2>2. /\ req'[r] = [q EXCEPT !.at = "write", !.rival = Rivals(q.k) # {}]
        /\ req'[r].at = "write" /\ req'[r].x = q.x /\ req'[r].k = q.k
        /\ req'[r].rival = (Rivals(q.k) # {})
    BY <2>1 DEF Load
  <2>3. \A p \in Request \ {r} :
          /\ req'[p] \in Load
          /\ req'[p].at = req[p].at /\ req'[p].x = req[p].x /\ req'[p].k = req[p].k
          /\ req'[p].s = req[p].s /\ req'[p].saw = req[p].saw /\ req'[p].ask = req[p].ask
          /\ p \in Rivals(q.k) => req'[p].rival
          /\ p \notin Rivals(q.k) => req'[p].rival = req[p].rival
    BY <2>1 DEF Load
  <2>4. req' \in [Request -> Load]
    <3>1. req'[r] \in Load
      BY <2>1, <2>2 DEF Load, At
    <3> QED
      BY <3>1, <2>1, <2>3
  <2>5. LiveGroups' = LiveGroups /\ Live' = Live
    BY <2>1 DEF LiveGroups, Live
  <2>6. AuthorizationTypeOK'
    BY <2>1, <2>4 DEF AuthorizationInv, AuthorizationTypeOK
  <2>7. Fields'
    <3>1. Sound(req[r]) /\ \A p \in Request \ {r} : Sound(req[p])
      BY DEF AuthorizationInv, Fields
    <3>2. Sound(req'[r])
      BY <3>1, <2>1, <2>2 DEF Sound
    <3>3. \A p \in Request \ {r} : Sound(req'[p])
      BY <3>1, <2>3 DEF Sound
    <3>4. UNCHANGED <<key, used>>
      BY <2>1
    <3> QED
      BY <3>2, <3>3, <3>4, <2>5 DEF Fields, Sound
  <2>8. Born'
    BY <2>1 DEF AuthorizationInv, Born
  <2>9. Free'
    <3> SUFFICES ASSUME NEW p \in Request, req'[p].at = "write", ~req'[p].rival
                 PROVE  /\ \A y \in Record : key[y] = req'[p].k => y = req'[p].x
                        /\ \A o \in Request \ {p} : req'[o].at = "write" => req'[o].k # req'[p].k
      BY <2>1 DEF Free
    <3>1. CASE p = r
      <4>1. Rivals(q.k) = {}
        BY <3>1, <2>2
      <4>2. \A o \in Request \ {r} : req[o].at = "write" => req[o].k # q.k
        BY <4>1 DEF Rivals
      <4> QED
        BY <3>1, <4>2, <1>2, <2>2, <2>3 DEF Taken
    <3>2. CASE p # r
      <4>1. /\ req[p].at = "write" /\ ~req[p].rival /\ req[p].k # q.k
        BY <3>2, <2>3 DEF Rivals
      <4>2. /\ \A y \in Record : key[y] = req[p].k => y = req[p].x
            /\ \A o \in Request \ {p} : req[o].at = "write" => req[o].k # req[p].k
        BY <4>1 DEF AuthorizationInv, Free
      <4>3. req'[p].k = req[p].k /\ req'[p].x = req[p].x
        BY <3>2, <2>3
      <4>4. \A o \in Request \ {p} : req'[o].at = "write" => req'[o].k # req[p].k
        <5> SUFFICES ASSUME NEW o \in Request \ {p}, req'[o].at = "write"
                     PROVE  req'[o].k # req[p].k
          OBVIOUS
        <5>1. CASE o = r
          BY <5>1, <4>1, <2>2
        <5>2. CASE o # r
          <6>1. req[o].at = "write" /\ req'[o].k = req[o].k
            BY <5>2, <2>3
          <6> QED
            BY <6>1, <4>2
        <5> QED
          BY <5>1, <5>2
      <4> QED
        BY <4>2, <4>3, <4>4
    <3> QED
      BY <3>1, <3>2
  <2>10. EditsAlone'
    <3>1. \A p \in Request : req'[p].at = "edit" =>
            /\ req[p].at = "edit" /\ req'[p].s = req[p].s
            /\ req'[p].saw = req[p].saw /\ req'[p].ask = req[p].ask
      BY <2>2, <2>3
    <3>2. UNCHANGED <<member, users, coedited>>
      BY <2>1
    <3> SUFFICES ASSUME NEW p \in Request, req'[p].at = "edit", req'[p].s \in users \ coedited
                 PROVE  /\ \A o \in Request \ {p} : req'[o].at = "edit" => req'[o].s # req'[p].s
                        /\ \A g \in LiveGroups : g \in req'[p].saw <=> member[<<req'[p].s, g>>] > 0
                        /\ \A g \in req'[p].ask \ req'[p].saw : member[<<req'[p].s, g>>] = 0
      BY <3>2, <2>5 DEF EditsAlone
    <3>3. /\ \A o \in Request \ {p} : req[o].at = "edit" => req[o].s # req[p].s
          /\ \A g \in LiveGroups : g \in req[p].saw <=> member[<<req[p].s, g>>] > 0
          /\ \A g \in req[p].ask \ req[p].saw : member[<<req[p].s, g>>] = 0
      BY <3>1 DEF AuthorizationInv, EditsAlone
    <3> QED
      BY <3>1, <3>3
  <2>11. ListedAsDue'
    BY <2>1, <2>5 DEF AuthorizationInv, ListedAsDue, Listed
  <2>12. RowsInHand'
    <3>1. \A p \in Request : req'[p].at = "cascade" =>
            req[p].at = "cascade" /\ req'[p].s = req[p].s /\ req'[p].saw = req[p].saw
      BY <2>2, <2>3
    <3>2. \A x \in Row : key[x] # Null => key[x].of \in Live \cup late
      BY DEF AuthorizationInv, RowsInHand
    <3>3. \A p \in Request : req[p].at = "cascade" /\ req[p].s \notin late
            => Attributes(req[p].s) \subseteq req[p].saw
      BY DEF AuthorizationInv, RowsInHand
    <3>4. \A x \in Row : key'[x] # Null => key'[x].of \in Live' \cup late'
      BY <3>2, <2>1, <2>5
    <3>5. ASSUME NEW p \in Request, req'[p].at = "cascade", req'[p].s \notin late'
          PROVE  \A x \in Row : key'[x] # Null /\ key'[x].of = req'[p].s => x \in req'[p].saw
      <4>1. /\ req[p].at = "cascade" /\ req'[p].s = req[p].s /\ req'[p].saw = req[p].saw
        BY <3>1, <3>5
      <4>2. late' = late
        BY <2>1
      <4>3. \A x \in Row : key[x] # Null /\ key[x].of = req[p].s => x \in req[p].saw
        BY <4>1, <4>2, <3>3, <3>5 DEF Attributes
      <4> QED
        BY <4>1, <4>3, <2>1
    <3> QED
      BY <3>4, <3>5 DEF RowsInHand, Attributes
  <2>13. Leftovers'
    <3>1. q.at = "validate"
      BY <2>1
    <3>2. \A s, o : OnList(s, o) => OnList(s, o)'
      BY <3>1, <2>3 DEF OnList
    <3>3. UNCHANGED <<member, users, late>>
      BY <2>1
    <3> QED
      BY <3>2, <3>3, <2>5 DEF AuthorizationInv, Leftovers
  <2> QED
    BY <2>6, <2>7, <2>8, <2>9, <2>10, <2>11, <2>12, <2>13 DEF AuthorizationInv
<1> QED
  BY <1>1, <1>2

-----------------------------------------------------------------------------
(* Records that are removed, updated and created.                          *)

LEMMA DestroyRowKeeps ==
  ASSUME AuthorizationInv, NEW r \in Request, NEW x \in Row, DestroyRow(r, x)
  PROVE  AuthorizationInv'
<1>1. /\ key \in [Record -> Key \cup {Null}] /\ x \in Record /\ x \notin Group
      /\ \A y \in Record : key'[y] = IF y = x THEN Null ELSE key[y]
      /\ key' \in [Record -> Key \cup {Null}]
      /\ UNCHANGED <<users, used, member, req, coedited, late, due>>
  BY KeyFact DEF DestroyRow, AuthorizationInv, AuthorizationTypeOK, Record
<1>2. LiveGroups' = LiveGroups /\ Live' = Live
  BY <1>1 DEF LiveGroups, Live, Record
<1>3. AuthorizationTypeOK'
  BY <1>1 DEF AuthorizationInv, AuthorizationTypeOK
<1>4. Fields'
  BY <1>1, <1>2 DEF AuthorizationInv, Fields, Sound
<1>5. Born'
  BY <1>1 DEF AuthorizationInv, Born
<1>6. Free'
  <2>1. \A p \in Request : req[p].at = "write" => req[p].k # Null
    BY KeyFact DEF AuthorizationInv, Fields, Sound
  <2> QED
    BY <2>1, <1>1 DEF AuthorizationInv, Free
<1>7. EditsAlone'
  BY <1>1, <1>2 DEF AuthorizationInv, EditsAlone
<1>8. ListedAsDue'
  BY <1>1, <1>2 DEF AuthorizationInv, ListedAsDue, Listed
<1>9. RowsInHand'
  BY <1>1, <1>2 DEF AuthorizationInv, RowsInHand, Attributes, Record
<1>10. Leftovers'
  <2>1. \A s, o : OnList(s, o)' <=> OnList(s, o)
    BY <1>1 DEF OnList
  <2> QED
    BY <2>1, <1>1, <1>2 DEF AuthorizationInv, Leftovers
<1> QED
  BY <1>3, <1>4, <1>5, <1>6, <1>7, <1>8, <1>9, <1>10 DEF AuthorizationInv

LEMMA UpdateKeeps ==
  ASSUME AuthorizationInv, NEW r \in Request, Update(r)
  PROVE  AuthorizationInv'
<1> DEFINE x == req[r].x
           k == req[r].k
<1>1. /\ req[r].at = "write" /\ End(r) /\ x # Null
      /\ UNCHANGED <<users, used, member, coedited, late, due>>
      /\ key' = IF key[x] = Null THEN key ELSE [key EXCEPT ![x] = k]
  BY DEF Update
<1>2. x \in Record \cap used /\ k \in Key /\ late \in SUBSET Subject
  BY <1>1 DEF AuthorizationInv, Fields, Sound, AuthorizationTypeOK
<1>3. CASE key[x] = Null
  <2>1. key' = key
    BY <1>1, <1>3
  <2> QED
    BY <2>1, <1>1, <1>2, StopKeeps
<1>4. CASE key[x] # Null
  <2>1. key[x].table = k.table /\ key[x].of = k.of
    BY <1>1, <1>4 DEF AuthorizationInv, Fields, Sound
  <2>2. /\ key \in [Record -> Key \cup {Null}]
        /\ key' \in [Record -> Key \cup {Null}]
        /\ \A y \in Record : key'[y] = IF y = x THEN k ELSE key[y]
        /\ k # Null
    BY <1>1, <1>2, <1>4, KeyFact DEF AuthorizationInv, AuthorizationTypeOK
  <2>3. \A y \in Record :
          /\ key'[y] = Null <=> key[y] = Null
          /\ key[y] # Null => key'[y].table = key[y].table /\ key'[y].of = key[y].of
    BY <2>1, <2>2, <1>4
  <2>4. /\ req' \in [Request -> Load] /\ req'[r].at = "idle"
        /\ \A p \in Request \ {r} : req'[p] = req[p]
    BY <1>1, EndFact DEF AuthorizationInv
  <2>5. LiveGroups' = LiveGroups /\ Live' = Live
    BY <1>1, <2>3 DEF LiveGroups, Live, Record
  <2>6. AuthorizationTypeOK'
    BY <1>1, <2>2, <2>3, <2>4 DEF AuthorizationInv, AuthorizationTypeOK
  <2>7. Fields'
    <3> SUFFICES ASSUME NEW p \in Request
                 PROVE  Sound(req[p])' 
      BY DEF Fields
    <3>1. CASE p = r
      BY <3>1, <2>4 DEF Sound
    <3>2. CASE p # r
      BY <3>2, <1>1, <2>3, <2>4, <2>5 DEF AuthorizationInv, Fields, Sound
    <3> QED
      BY <3>1, <3>2
  <2>8. Born'
    BY <1>1 DEF AuthorizationInv, Born
  <2>9. Free'
    <3>1. \A p \in Request \ {r} : req[p].at = "write" /\ ~req[p].rival => req[p].k # k
      BY <1>1 DEF AuthorizationInv, Free
    <3>2. \A p \in Request : req'[p].at = "write" => p # r /\ req'[p] = req[p]
      BY <2>4
    <3> SUFFICES ASSUME NEW p \in Request, req'[p].at = "write", ~req'[p].rival
                 PROVE  /\ \A y \in Record : key'[y] = req'[p].k => y = req'[p].x
                        /\ \A o \in Request \ {p} : req'[o].at = "write" => req'[o].k # req'[p].k
      BY DEF Free
    <3>3. /\ \A y \in Record : key[y] = req[p].k => y = req[p].x
          /\ \A o \in Request \ {p} : req[o].at = "write" => req[o].k # req[p].k
      BY <3>2 DEF AuthorizationInv, Free
    <3> QED
      BY <3>1, <3>2, <3>3, <2>2
  <2>10. EditsAlone'
    <3>1. member' = member /\ users' = users /\ coedited' = coedited
      BY <1>1
    <3> QED
      BY <3>1, <2>4, <2>5 DEF AuthorizationInv, EditsAlone
  <2>11. ListedAsDue'
    BY <1>1, <2>5 DEF AuthorizationInv, ListedAsDue, Listed
  <2>12. RowsInHand'
    BY <1>1, <2>3, <2>4, <2>5 DEF AuthorizationInv, RowsInHand, Attributes, Record
  <2>13. Leftovers'
    <3>1. \A s, o : OnList(s, o) => OnList(s, o)'
      BY <1>1, <2>4 DEF OnList
    <3> QED
      BY <3>1, <1>1, <2>5 DEF AuthorizationInv, Leftovers
  <2> QED
    BY <2>6, <2>7, <2>8, <2>9, <2>10, <2>11, <2>12, <2>13 DEF AuthorizationInv
<1> QED
  BY <1>3, <1>4

LEMMA InsertKeeps ==
  ASSUME AuthorizationInv, NEW r \in Request, Insert(r)
  PROVE  AuthorizationInv'
<1> DEFINE k == req[r].k
<1>1. /\ req[r].at = "write" /\ req[r].x = Null /\ End(r)
      /\ late' = IF k.of # Null
                    /\ (k.of \notin Live \/ \E p \in Request : req[p].at = "cascade" /\ req[p].s = k.of)
                 THEN late \cup {k.of} ELSE late
      /\ UNCHANGED <<users, member, coedited, due>>
  BY DEF Insert
<1>2. PICK x \in Fresh(k) : key' = [key EXCEPT ![x] = k] /\ used' = used \cup {x}
  BY DEF Insert
<1>3. k \in Key /\ k # Null /\ (k.of = Null \/ k.of \in Subject)
      /\ (k.table = "radius_groups" <=> k.of = Null)
  BY <1>1, KeyFact DEF AuthorizationInv, Fields, Sound
<1>4. /\ x \in Record \ used
      /\ x \in Group <=> k.table = "radius_groups"
      /\ x \notin User
  BY <1>2, KeyFact DEF Fresh, Record
<1>5. /\ key \in [Record -> Key \cup {Null}] /\ key' \in [Record -> Key \cup {Null}]
      /\ key[x] = Null
      /\ \A y \in Record : key'[y] = IF y = x THEN k ELSE key[y]
  BY <1>2, <1>3, <1>4 DEF AuthorizationInv, AuthorizationTypeOK
<1>6. /\ req' \in [Request -> Load] /\ req'[r].at = "idle"
      /\ \A p \in Request \ {r} : req'[p] = req[p]
  BY <1>1, EndFact DEF AuthorizationInv
<1>7. /\ used' = used \cup {x} /\ users' = users /\ member' = member
      /\ coedited' = coedited /\ due' = due
      /\ late' \in SUBSET Subject /\ late \subseteq late'
  BY <1>1, <1>2, <1>3 DEF AuthorizationInv, AuthorizationTypeOK
<1>8. /\ \A g \in LiveGroups' : g \in LiveGroups \/ g = x
      /\ LiveGroups \subseteq LiveGroups' /\ LiveGroups' \subseteq Group
      /\ \A s \in used : s \in Live' <=> s \in Live
      /\ Live \subseteq Live'
      /\ \A g \in Group \ {x} : g \in LiveGroups' <=> g \in LiveGroups
  BY <1>3, <1>4, <1>5, <1>7 DEF LiveGroups, Live, Record
<1>9. \A u \in User : x \in Group => ~(member[<<u, x>>] > 0) /\ x \notin due[u]
  BY <1>4 DEF AuthorizationInv, Born
<1>10. AuthorizationTypeOK'
  BY <1>3, <1>4, <1>5, <1>6, <1>7 DEF AuthorizationInv, AuthorizationTypeOK
<1>11. Fields'
  <2> SUFFICES ASSUME NEW p \in Request
               PROVE  Sound(req[p])'
    BY DEF Fields
  <2>1. CASE p = r
    BY <2>1, <1>6 DEF Sound
  <2>2. CASE p # r
    <3>1. Sound(req[p]) /\ req'[p] = req[p]
      BY <2>2, <1>6 DEF AuthorizationInv, Fields
    <3>2. req[p].at \in {"validate", "write"} /\ req[p].x # Null =>
            /\ req[p].x \in used' /\ key'[req[p].x] = key[req[p].x]
      BY <3>1, <1>4, <1>5, <1>7 DEF Sound
    <3> QED
      BY <3>1, <3>2, <1>7, <1>8 DEF Sound
  <2> QED
    BY <2>1, <2>2
<1>12. Born'
  BY <1>7 DEF AuthorizationInv, Born
<1>13. Free'
  <2> SUFFICES ASSUME NEW p \in Request, req'[p].at = "write", ~req'[p].rival
               PROVE  /\ \A y \in Record : key'[y] = req'[p].k => y = req'[p].x
                      /\ \A o \in Request \ {p} : req'[o].at = "write" => req'[o].k # req'[p].k
    BY DEF Free
  <2>1. p # r /\ req'[p] = req[p]
    BY <1>6
  <2>2. /\ \A y \in Record : key[y] = req[p].k => y = req[p].x
        /\ \A o \in Request \ {p} : req[o].at = "write" => req[o].k # req[p].k
    BY <2>1 DEF AuthorizationInv, Free
  <2>3. k # req[p].k
    BY <2>1, <2>2, <1>1
  <2>4. \A o \in Request : req'[o].at = "write" => req'[o] = req[o]
    BY <1>6
  <2> QED
    BY <2>1, <2>2, <2>3, <2>4, <1>5
<1>14. EditsAlone'
  <2> SUFFICES ASSUME NEW p \in Request, req'[p].at = "edit", req'[p].s \in users \ coedited
               PROVE  /\ \A o \in Request \ {p} : req'[o].at = "edit" => req'[o].s # req'[p].s
                      /\ \A g \in LiveGroups' : g \in req'[p].saw <=> member[<<req'[p].s, g>>] > 0
                      /\ \A g \in req'[p].ask \ req'[p].saw : member[<<req'[p].s, g>>] = 0
    BY <1>7 DEF EditsAlone
  <2>1. p # r /\ req'[p] = req[p]
    BY <1>6
  <2>2. /\ \A o \in Request \ {p} : req[o].at = "edit" => req[o].s # req[p].s
        /\ \A g \in LiveGroups : g \in req[p].saw <=> member[<<req[p].s, g>>] > 0
        /\ \A g \in req[p].ask \ req[p].saw : member[<<req[p].s, g>>] = 0
    BY <2>1 DEF AuthorizationInv, EditsAlone
  <2>3. req[p].saw \subseteq used /\ req[p].s \in User
    BY <2>1 DEF AuthorizationInv, Fields, Sound
  <2>4. \A g \in LiveGroups' : g \in req[p].saw <=> member[<<req[p].s, g>>] > 0
    BY <2>2, <2>3, <1>4, <1>8, <1>9
  <2>5. \A o \in Request : req'[o].at = "edit" => req'[o] = req[o]
    BY <1>6
  <2> QED
    BY <2>1, <2>2, <2>4, <2>5
<1>15. ListedAsDue'
  <2> SUFFICES ASSUME NEW u \in users \ coedited
               PROVE  /\ \A g \in LiveGroups' : member[<<u, g>>] > 0 <=> g \in due[u]
                      /\ \A g \in Group : member[<<u, g>>] <= 1
    <3>1. \A u \in users : due[u] \subseteq Group
      BY DEF AuthorizationInv, AuthorizationTypeOK
    <3> QED
      BY <3>1, <1>7, <1>8 DEF ListedAsDue, Listed
  <2>1. /\ u \in User
        /\ Listed(u) = due[u] \cap LiveGroups /\ \A g \in Group : member[<<u, g>>] <= 1
    BY DEF AuthorizationInv, ListedAsDue, AuthorizationTypeOK
  <2> QED
    BY <2>1, <1>8, <1>9 DEF Listed
<1>16. RowsInHand'
  <2>1. ASSUME NEW y \in Row, key'[y] # Null
        PROVE  key'[y].of \in Live' \cup late'
    <3>1. CASE y = x
      <4>1. key'[y] = k /\ k.of # Null
        BY <3>1, <1>3, <1>4, <1>5, KeyFact DEF Record
      <4> QED
        BY <4>1, <1>1, <1>8
    <3>2. CASE y # x
      BY <2>1, <3>2, <1>5, <1>7, <1>8 DEF AuthorizationInv, RowsInHand, Record
    <3> QED
      BY <3>1, <3>2
  <2>2. ASSUME NEW p \in Request, req'[p].at = "cascade", req'[p].s \notin late',
               NEW y \in Row, key'[y] # Null, key'[y].of = req'[p].s
        PROVE  y \in req'[p].saw
    <3>1. p # r /\ req'[p] = req[p] /\ req[p].s \in Subject
      BY <2>2, <1>6 DEF AuthorizationInv, Fields, Sound
    <3>2. y # x
      BY <2>2, <3>1, <1>1, <1>5, KeyFact
    <3>3. key[y] # Null /\ key[y].of = req[p].s /\ req[p].s \notin late
      BY <2>2, <3>1, <3>2, <1>5, <1>7 DEF Record
    <3> QED
      BY <2>2, <3>1, <3>3 DEF AuthorizationInv, RowsInHand, Attributes
  <2> QED
    BY <2>1, <2>2 DEF RowsInHand, Attributes
<1>17. Leftovers'
  <2>1. \A s, o : OnList(s, o) => OnList(s, o)'
    BY <1>1, <1>6 DEF OnList
  <2> QED
    BY <2>1, <1>7, <1>8, <1>9 DEF AuthorizationInv, Leftovers
<1> QED
  BY <1>10, <1>11, <1>12, <1>13, <1>14, <1>15, <1>16, <1>17 DEF AuthorizationInv

-----------------------------------------------------------------------------
(* Removing a subject.                                                     *)

LEMMA CascadeKeeps ==
  ASSUME AuthorizationInv, NEW r \in Request, Cascade(r)
  PROVE  AuthorizationInv'
<1> DEFINE s == req[r].s
           q == Destroying("list", s, {})
<1>1. /\ req[r].at = "cascade" /\ Goto(r, q)
      /\ key' = [x \in Record |-> IF x \in Gone(req[r]) THEN Null ELSE key[x]]
      /\ users' = users \ {s}
      /\ due' = [u \in User |-> IF u = s THEN {} ELSE due[u]]
      /\ UNCHANGED <<used, member, coedited, late>>
  BY DEF Cascade
<1>2. s \in Subject \cap used /\ req[r].saw \subseteq Row
  BY <1>1 DEF AuthorizationInv, Fields, Sound
<1>3. q \in Load /\ q.at = "list" /\ q.s = s
  BY <1>2 DEF Destroying, Idle, Load, At
<1>4. /\ req' \in [Request -> Load] /\ req'[r] = q
      /\ \A p \in Request \ {r} : req'[p] = req[p]
  BY <1>1, <1>3, GotoFact DEF AuthorizationInv
<1>5. /\ key' \in [Record -> Key \cup {Null}]
      /\ \A x \in Record : key'[x] = Null \/ key'[x] = key[x]
      /\ \A g \in Group : key'[g] = IF g = s THEN Null ELSE key[g]
      /\ \A x \in Row : x \in req[r].saw => key'[x] = Null
  BY <1>1, <1>2, KeyFact DEF Gone, AuthorizationInv, AuthorizationTypeOK, Record
<1>6. /\ LiveGroups' = LiveGroups \ {s} /\ users' = users \ {s} /\ Live' = Live \ {s}
  BY <1>1, <1>2, <1>5 DEF LiveGroups, Live
<1>7. users' \subseteq users /\ users' \subseteq User
  BY <1>6 DEF AuthorizationInv, AuthorizationTypeOK
<1>8. AuthorizationTypeOK'
  BY <1>1, <1>4, <1>5, <1>7 DEF AuthorizationInv, AuthorizationTypeOK
<1>9. Fields'
  <2> SUFFICES ASSUME NEW p \in Request
               PROVE  Sound(req[p])'
    BY DEF Fields
  <2>1. CASE p = r
    BY <2>1, <1>1, <1>2, <1>3, <1>4, <1>6 DEF Sound
  <2>2. CASE p # r
    <3>1. Sound(req[p]) /\ req'[p] = req[p]
      BY <2>2, <1>4 DEF AuthorizationInv, Fields
    <3> QED
      BY <3>1, <1>1, <1>5, <1>6 DEF Sound
  <2> QED
    BY <2>1, <2>2
<1>10. Born'
  <2>1. \A u \in User : due'[u] \subseteq due[u]
    BY <1>1
  <2> QED
    BY <2>1, <1>1 DEF AuthorizationInv, Born
<1>11. Free'
  <2>1. \A p \in Request : req'[p].at = "write" => req'[p] = req[p] /\ req[p].k \in Key
    BY <1>3, <1>4 DEF AuthorizationInv, Fields, Sound
  <2> QED
    BY <2>1, <1>5, KeyFact DEF AuthorizationInv, Free
<1>12. EditsAlone'
  <2>1. \A p \in Request : req'[p].at = "edit" => req'[p] = req[p]
    BY <1>3, <1>4
  <2> QED
    BY <2>1, <1>1, <1>6 DEF AuthorizationInv, EditsAlone
<1>13. ListedAsDue'
  <2> SUFFICES ASSUME NEW u \in users' \ coedited
               PROVE  /\ Listed(u)' = due[u] \cap (LiveGroups \ {s})
                      /\ \A g \in Group : member[<<u, g>>] <= 1
    BY <1>1, <1>6, <1>7 DEF ListedAsDue
  <2>1. Listed(u) = due[u] \cap LiveGroups /\ \A g \in Group : member[<<u, g>>] <= 1
    BY <1>7 DEF AuthorizationInv, ListedAsDue
  <2>2. Listed(u)' = Listed(u) \ {s}
    BY <1>1, <1>6 DEF Listed
  <2> QED
    BY <2>1, <2>2
<1>14. RowsInHand'
  <2>1. ASSUME NEW x \in Row, key'[x] # Null
        PROVE  key'[x].of \in Live' \cup late'
    <3>1. key'[x] = key[x] /\ key[x].of \in Live \cup late /\ x \notin req[r].saw
      BY <2>1, <1>5 DEF AuthorizationInv, RowsInHand, Record
    <3>2. s \in late \/ key[x].of # s
      BY <2>1, <3>1, <1>1 DEF AuthorizationInv, RowsInHand, Attributes
    <3> QED
      BY <3>1, <3>2, <1>1, <1>6
  <2>2. ASSUME NEW p \in Request, req'[p].at = "cascade", req'[p].s \notin late',
               NEW x \in Row, key'[x] # Null, key'[x].of = req'[p].s
        PROVE  x \in req'[p].saw
    <3>1. p # r /\ req'[p] = req[p] /\ key'[x] = key[x]
      BY <2>2, <1>3, <1>4, <1>5 DEF Record
    <3> QED
      BY <2>2, <3>1, <1>1 DEF AuthorizationInv, RowsInHand, Attributes
  <2> QED
    BY <2>1, <2>2 DEF RowsInHand, Attributes
<1>15. Leftovers'
  <2>1. \A t, o : OnList(t, o) => OnList(t, o)'
    BY <1>1, <1>4 DEF OnList
  <2> SUFFICES ASSUME NEW u \in User, NEW g \in Group, member[<<u, g>>] > 0
               PROVE  /\ u \in users' /\ g \notin LiveGroups' => g \in late \/ OnList(g, u)'
                      /\ u \notin users' /\ g \in LiveGroups' => u \in late \/ OnList(u, g)'
    BY <1>1 DEF Leftovers
  <2>2. /\ u \in users /\ g \notin LiveGroups => g \in late \/ OnList(g, u)
        /\ u \notin users /\ g \in LiveGroups => u \in late \/ OnList(u, g)
    BY DEF AuthorizationInv, Leftovers
  <2>3. /\ u \in users' <=> u \in users /\ u # s
        /\ g \in LiveGroups' <=> g \in LiveGroups /\ g # s
    BY <1>6
  <2>4. ASSUME u \in users', g \notin LiveGroups'
        PROVE  g \in late \/ OnList(g, u)'
    <3>1. CASE g = s
      BY <3>1, <1>3, <1>4 DEF OnList
    <3>2. CASE g # s
      BY <3>2, <2>1, <2>2, <2>3, <2>4
    <3> QED
      BY <3>1, <3>2
  <2>5. ASSUME u \notin users', g \in LiveGroups'
        PROVE  u \in late \/ OnList(u, g)'
    <3>1. CASE u = s
      BY <3>1, <1>3, <1>4 DEF OnList
    <3>2. CASE u # s
      BY <3>2, <2>1, <2>2, <2>3, <2>5
    <3> QED
      BY <3>1, <3>2
  <2> QED
    BY <2>4, <2>5
<1> QED
  BY <1>8, <1>9, <1>10, <1>11, <1>12, <1>13, <1>14, <1>15 DEF AuthorizationInv

\* What two steps of a removal share: links that were on the list of the
\* request still are, or are gone.
LEMMA RemovalKeeps ==
  ASSUME AuthorizationInv, NEW r \in Request, NEW q \in Load, Goto(r, q), Sound(q),
         q.at \in {"idle", "clear"},
         req[r].at \in {"list", "clear"},
         UNCHANGED <<key, users, used, coedited, late, due>>,
         member' \in [User \X Group -> Nat],
         \A u \in User, g \in Group : member'[<<u, g>>] = member[<<u, g>>] \/ member'[<<u, g>>] = 0,
         \A u \in users, g \in LiveGroups : member'[<<u, g>>] = member[<<u, g>>],
         \A u \in User, g \in Group :
           member'[<<u, g>>] > 0 =>
             /\ u \in users /\ g \notin LiveGroups /\ req[r].s = g /\ (req[r].at = "clear" => u \in req[r].saw)
                  => q.at = "clear" /\ q.s = g /\ u \in q.saw
             /\ u \notin users /\ g \in LiveGroups /\ req[r].s = u /\ (req[r].at = "clear" => g \in req[r].saw)
                  => q.at = "clear" /\ q.s = u /\ g \in q.saw
  PROVE  AuthorizationInv'
<1>1. /\ req' \in [Request -> Load] /\ req'[r] = q
      /\ \A p \in Request \ {r} : req'[p] = req[p]
  BY GotoFact DEF AuthorizationInv
<1>2. LiveGroups' = LiveGroups /\ Live' = Live
  BY DEF LiveGroups, Live
<1>3. users \subseteq User /\ LiveGroups \subseteq Group
  BY DEF AuthorizationInv, AuthorizationTypeOK, LiveGroups
<1>4. AuthorizationTypeOK'
  BY <1>1 DEF AuthorizationInv, AuthorizationTypeOK
<1>5. Fields'
  <2>1. \A p \in Request : Sound(req'[p])
    BY <1>1 DEF AuthorizationInv, Fields
  <2> QED
    BY <2>1, <1>2 DEF Fields, Sound
<1>6. Born'
  <2>1. \A u \in User, g \in Group : member'[<<u, g>>] > 0 => member[<<u, g>>] > 0
    <3> SUFFICES ASSUME NEW u \in User, NEW g \in Group, member'[<<u, g>>] > 0
                 PROVE  member[<<u, g>>] > 0
      OBVIOUS
    <3>1. member'[<<u, g>>] = member[<<u, g>>] \/ member'[<<u, g>>] = 0
      OBVIOUS
    <3> QED
      BY <3>1
  <2> QED
    BY <2>1 DEF AuthorizationInv, Born
<1>7. Free'
  BY <1>1 DEF AuthorizationInv, Free
<1>8. \A u \in users, g \in LiveGroups : member'[<<u, g>>] = member[<<u, g>>]
  OBVIOUS
<1>9. EditsAlone'
  <2> SUFFICES ASSUME NEW p \in Request, req'[p].at = "edit", req'[p].s \in users \ coedited
               PROVE  /\ \A o \in Request \ {p} : req'[o].at = "edit" => req'[o].s # req'[p].s
                      /\ \A g \in LiveGroups : g \in req'[p].saw <=> member'[<<req'[p].s, g>>] > 0
                      /\ \A g \in req'[p].ask \ req'[p].saw : member'[<<req'[p].s, g>>] = 0
    BY <1>2 DEF EditsAlone
  <2>1. \A o \in Request : req'[o].at = "edit" => req'[o] = req[o]
    BY <1>1
  <2>2. /\ \A o \in Request \ {p} : req[o].at = "edit" => req[o].s # req[p].s
        /\ \A g \in LiveGroups : g \in req[p].saw <=> member[<<req[p].s, g>>] > 0
        /\ \A g \in req[p].ask \ req[p].saw : member[<<req[p].s, g>>] = 0
    BY <2>1 DEF AuthorizationInv, EditsAlone
  <2>3. req[p].s \in users /\ req[p].s \in User /\ req[p].ask \subseteq Group
    BY <2>1, <1>3, ReqFact DEF AuthorizationInv, Load
  <2>4. \A g \in req[p].ask \ req[p].saw : member'[<<req[p].s, g>>] = 0
    BY <2>2, <2>3
  <2> QED
    BY <2>1, <2>2, <2>3, <2>4, <1>8
<1>10. ListedAsDue'
  <2>1. \A u \in users : Listed(u)' = Listed(u)
    BY <1>2, <1>8 DEF Listed
  <2>2. \A u \in User, g \in Group : member[<<u, g>>] <= 1 => member'[<<u, g>>] <= 1
    BY DEF AuthorizationInv, AuthorizationTypeOK
  <2> QED
    BY <2>1, <2>2, <1>2, <1>3 DEF AuthorizationInv, ListedAsDue
<1>11. RowsInHand'
  BY <1>1, <1>2 DEF AuthorizationInv, RowsInHand, Attributes
<1>12. Leftovers'
  <2> SUFFICES ASSUME NEW u \in User, NEW g \in Group, member'[<<u, g>>] > 0
               PROVE  /\ u \in users /\ g \notin LiveGroups => g \in late \/ OnList(g, u)'
                      /\ u \notin users /\ g \in LiveGroups => u \in late \/ OnList(u, g)'
    BY <1>2 DEF Leftovers
  <2>1. member[<<u, g>>] > 0
    OBVIOUS
  <2>2. ASSUME u \in users, g \notin LiveGroups, OnList(g, u)
        PROVE  OnList(g, u)'
    BY <2>2, <1>1 DEF OnList
  <2>3. ASSUME u \notin users, g \in LiveGroups, OnList(u, g)
        PROVE  OnList(u, g)'
    BY <2>3, <1>1 DEF OnList
  <2> QED
    BY <2>1, <2>2, <2>3 DEF AuthorizationInv, Leftovers
<1> QED
  BY <1>4, <1>5, <1>6, <1>7, <1>9, <1>10, <1>11, <1>12 DEF AuthorizationInv

LEMMA ListKeeps ==
  ASSUME AuthorizationInv, NEW r \in Request, List(r)
  PROVE  AuthorizationInv'
<1> DEFINE s == req[r].s
           q == IF Linked(s) = {} THEN Idle ELSE Destroying("clear", s, Linked(s))
<1>1. /\ req[r].at = "list" /\ Goto(r, q)
      /\ UNCHANGED <<key, users, used, member, coedited, late, due>>
  BY DEF List, End
<1>2. s \in (Subject \cap used) \ Live
  BY <1>1 DEF AuthorizationInv, Fields, Sound
<1>3. Linked(s) \subseteq User \cup Record
  BY DEF Linked, Listed, LiveGroups, AuthorizationInv, AuthorizationTypeOK, Record
<1>4. /\ Destroying("clear", s, Linked(s)) \in Load
      /\ Destroying("clear", s, Linked(s)).at = "clear"
      /\ Destroying("clear", s, Linked(s)).s = s
      /\ Destroying("clear", s, Linked(s)).saw = Linked(s)
  BY <1>2, <1>3 DEF Destroying, Idle, Load, At
<1>5. /\ q \in Load /\ q.at \in {"idle", "clear"}
      /\ q.at = "clear" => q.s = s
      /\ \A o \in Linked(s) : q.at = "clear" /\ q.s = s /\ o \in q.saw
  BY <1>4, IdleFact
<1>6. Sound(q)
  BY <1>2, <1>5 DEF Sound
<1>7. member' \in [User \X Group -> Nat] /\ member' = member
  BY <1>1 DEF AuthorizationInv, AuthorizationTypeOK
<1>8. ASSUME NEW u \in User, NEW g \in Group, member'[<<u, g>>] > 0
      PROVE  /\ u \in users /\ g \notin LiveGroups /\ s = g => u \in Linked(s)
             /\ u \notin users /\ g \in LiveGroups /\ s = u => g \in Linked(s)
  BY <1>7, <1>8, KeyFact DEF Linked, Listed
<1>9. ASSUME NEW u \in User, NEW g \in Group, member'[<<u, g>>] > 0
      PROVE  /\ u \in users /\ g \notin LiveGroups /\ req[r].s = g
                  /\ (req[r].at = "clear" => u \in req[r].saw)
                  => q.at = "clear" /\ q.s = g /\ u \in q.saw
             /\ u \notin users /\ g \in LiveGroups /\ req[r].s = u
                  /\ (req[r].at = "clear" => g \in req[r].saw)
                  => q.at = "clear" /\ q.s = u /\ g \in q.saw
  BY <1>5, <1>8, <1>9
<1> QED
  BY <1>1, <1>5, <1>6, <1>7, <1>9, RemovalKeeps

LEMMA ClearKeeps ==
  ASSUME AuthorizationInv, NEW r \in Request, Clear(r)
  PROVE  AuthorizationInv'
<1>1. /\ req[r].at = "clear" /\ Goto(r, Idle)
      /\ member' = [m \in User \X Group |-> IF Ours(req[r], m) THEN 0 ELSE member[m]]
      /\ UNCHANGED <<key, users, used, coedited, late, due>>
  BY DEF Clear, End
<1>2. req[r].s \in (Subject \cap used) \ Live
  BY <1>1 DEF AuthorizationInv, Fields, Sound
<1>3. Idle \in Load /\ Idle.at = "idle" /\ Sound(Idle)
  BY IdleFact DEF Sound
<1>4. member \in [User \X Group -> Nat] /\ users \subseteq User /\ LiveGroups \subseteq Group
  BY DEF AuthorizationInv, AuthorizationTypeOK, LiveGroups
<1>5. member' \in [User \X Group -> Nat]
  BY <1>1, <1>4
<1>6. \A u \in User, g \in Group :
        member'[<<u, g>>] =
          IF (req[r].s = u /\ g \in req[r].saw) \/ (req[r].s = g /\ u \in req[r].saw)
          THEN 0 ELSE member[<<u, g>>]
  BY <1>1 DEF Ours
<1>7. \A u \in User, g \in Group :
        member'[<<u, g>>] = member[<<u, g>>] \/ member'[<<u, g>>] = 0
  BY <1>6
<1>8. \A u \in users, g \in LiveGroups : member'[<<u, g>>] = member[<<u, g>>]
  BY <1>2, <1>4, <1>6 DEF Live
<1>9. ASSUME NEW u \in User, NEW g \in Group, member'[<<u, g>>] > 0
      PROVE  /\ ~(req[r].s = g /\ u \in req[r].saw)
             /\ ~(req[r].s = u /\ g \in req[r].saw)
  BY <1>6, <1>9
<1>10. ASSUME NEW u \in User, NEW g \in Group, member'[<<u, g>>] > 0
      PROVE  /\ u \in users /\ g \notin LiveGroups /\ req[r].s = g
                  /\ (req[r].at = "clear" => u \in req[r].saw)
                  => Idle.at = "clear" /\ Idle.s = g /\ u \in Idle.saw
             /\ u \notin users /\ g \in LiveGroups /\ req[r].s = u
                  /\ (req[r].at = "clear" => g \in req[r].saw)
                  => Idle.at = "clear" /\ Idle.s = u /\ g \in Idle.saw
  BY <1>1, <1>9, <1>10
<1> QED
  BY <1>1, <1>3, <1>5, <1>7, <1>8, <1>10, RemovalKeeps

-----------------------------------------------------------------------------
(* Accounts and their groups.                                              *)

LEMMA RegisterKeeps ==
  ASSUME AuthorizationInv, NEW r \in Request, Register(r)
  PROVE  AuthorizationInv'
<1> DEFINE S == req[r].ask
<1>1. /\ req[r].at = "register" /\ End(r)
      /\ late' = late \cup (S \ LiveGroups)
      /\ UNCHANGED <<key, coedited>>
  BY DEF Register
<1>2. PICK u \in User \ used :
        /\ users' = users \cup {u}
        /\ used' = used \cup {u}
        /\ member' = [m \in User \X Group |-> IF m[1] = u /\ m[2] \in S THEN 1 ELSE member[m]]
        /\ due' = [due EXCEPT ![u] = S]
  BY DEF Register
<1>3. /\ req' \in [Request -> Load] /\ req'[r].at = "idle"
      /\ \A p \in Request \ {r} : req'[p] = req[p]
  BY <1>1, EndFact DEF AuthorizationInv
<1>4. S \subseteq Group /\ S \subseteq used
  BY <1>1, ReqFact DEF AuthorizationInv, Fields, Sound, Load
<1>5. /\ LiveGroups' = LiveGroups /\ LiveGroups \subseteq Group /\ Live' = Live \cup {u}
      /\ u \notin users /\ u \notin Group /\ u \notin Record
      /\ users \subseteq User
  BY <1>1, <1>2, KeyFact DEF LiveGroups, Live, AuthorizationInv, AuthorizationTypeOK, Record
<1>6. /\ member \in [User \X Group -> Nat] /\ due \in [User -> SUBSET Group]
      /\ late \in SUBSET Subject
  BY DEF AuthorizationInv, AuthorizationTypeOK
<1>7. /\ member' \in [User \X Group -> Nat]
      /\ \A v \in User \ {u}, g \in Group : member'[<<v, g>>] = member[<<v, g>>]
      /\ \A g \in Group : g \in S => member'[<<u, g>>] = 1
      /\ \A g \in Group : g \notin S => member'[<<u, g>>] = member[<<u, g>>]
  BY <1>2, <1>6
<1>8. \A g \in Group : member[<<u, g>>] = 0
  <2>1. \A g \in Group : member[<<u, g>>] \in Nat /\ ~(member[<<u, g>>] > 0)
    BY <1>2, <1>6 DEF AuthorizationInv, Born
  <2> QED
    BY <2>1
<1>9. /\ due' \in [User -> SUBSET Group] /\ due'[u] = S
      /\ \A v \in User \ {u} : due'[v] = due[v]
  BY <1>2, <1>4, <1>6
<1>10. AuthorizationTypeOK'
  BY <1>1, <1>2, <1>3, <1>4, <1>6, <1>7, <1>9 DEF AuthorizationInv, AuthorizationTypeOK, Subject
<1>11. Fields'
  <2> SUFFICES ASSUME NEW p \in Request
               PROVE  Sound(req[p])'
    BY DEF Fields
  <2>1. CASE p = r
    BY <2>1, <1>3 DEF Sound
  <2>2. CASE p # r
    <3>1. Sound(req[p]) /\ req'[p] = req[p]
      BY <2>2, <1>3 DEF AuthorizationInv, Fields
    <3> QED
      BY <3>1, <1>1, <1>2, <1>5 DEF Sound
  <2> QED
    BY <2>1, <2>2
<1>12. Born'
  <2>1. \A v \in User, g \in Group : member'[<<v, g>>] > 0 => v \in used' /\ g \in used'
    <3> SUFFICES ASSUME NEW v \in User, NEW g \in Group, member'[<<v, g>>] > 0
                 PROVE  v \in used' /\ g \in used'
      OBVIOUS
    <3>1. CASE v = u
      BY <3>1, <1>2, <1>4, <1>7, <1>8
    <3>2. CASE v # u
      BY <3>2, <1>2, <1>7 DEF AuthorizationInv, Born
    <3> QED
      BY <3>1, <3>2
  <2>2. \A v \in User : due'[v] \subseteq used'
    BY <1>2, <1>4, <1>9 DEF AuthorizationInv, Born
  <2> QED
    BY <2>1, <2>2 DEF Born
<1>13. Free'
  BY <1>1, <1>3 DEF AuthorizationInv, Free
<1>14. EditsAlone'
  <2> SUFFICES ASSUME NEW p \in Request, req'[p].at = "edit", req'[p].s \in users' \ coedited
               PROVE  /\ \A o \in Request \ {p} : req'[o].at = "edit" => req'[o].s # req'[p].s
                      /\ \A g \in LiveGroups : g \in req'[p].saw <=> member'[<<req'[p].s, g>>] > 0
                      /\ \A g \in req'[p].ask \ req'[p].saw : member'[<<req'[p].s, g>>] = 0
    BY <1>1, <1>5 DEF EditsAlone
  <2>1. \A o \in Request : req'[o].at = "edit" =>
          req'[o] = req[o] /\ req[o].s \in User \ {u}
    BY <1>2, <1>3 DEF AuthorizationInv, Fields, Sound
  <2>2. /\ \A o \in Request \ {p} : req[o].at = "edit" => req[o].s # req[p].s
        /\ \A g \in LiveGroups : g \in req[p].saw <=> member[<<req[p].s, g>>] > 0
        /\ \A g \in req[p].ask \ req[p].saw : member[<<req[p].s, g>>] = 0
    BY <2>1, <1>2 DEF AuthorizationInv, EditsAlone
  <2>3. req[p].ask \subseteq Group
    BY ReqFact DEF AuthorizationInv, Load
  <2> QED
    BY <2>1, <2>2, <2>3, <1>5, <1>7
<1>15. ListedAsDue'
  <2> SUFFICES ASSUME NEW v \in users' \ coedited
               PROVE  /\ Listed(v)' = due'[v] \cap LiveGroups
                      /\ \A g \in Group : member'[<<v, g>>] <= 1
    BY <1>1, <1>5 DEF ListedAsDue
  <2>1. Listed(v)' = {g \in LiveGroups : member'[<<v, g>>] > 0}
    BY <1>5 DEF Listed
  <2>2. CASE v = u
    BY <2>1, <2>2, <1>4, <1>5, <1>7, <1>8, <1>9
  <2>3. CASE v # u
    <3>1. /\ v \in users \ coedited /\ v \in User
          /\ Listed(v) = due[v] \cap LiveGroups /\ \A g \in Group : member[<<v, g>>] <= 1
      BY <2>3, <1>2, <1>5 DEF AuthorizationInv, ListedAsDue
    <3>2. Listed(v)' = Listed(v)
      BY <2>1, <2>3, <3>1, <1>5, <1>7 DEF Listed
    <3>3. due'[v] = due[v]
      BY <2>3, <3>1, <1>9
    <3> QED
      BY <2>3, <3>1, <3>2, <3>3, <1>7
  <2> QED
    BY <2>2, <2>3
<1>16. RowsInHand'
  BY <1>1, <1>3, <1>5 DEF AuthorizationInv, RowsInHand, Attributes
<1>17. Leftovers'
  <2>1. \A t, o : OnList(t, o) => OnList(t, o)'
    BY <1>1, <1>3 DEF OnList
  <2> SUFFICES ASSUME NEW v \in User, NEW g \in Group, member'[<<v, g>>] > 0
               PROVE  /\ v \in users' /\ g \notin LiveGroups => g \in late' \/ OnList(g, v)'
                      /\ v \notin users' /\ g \in LiveGroups => v \in late' \/ OnList(v, g)'
    BY <1>5 DEF Leftovers
  <2>2. CASE v = u
    BY <2>2, <1>1, <1>2, <1>7, <1>8
  <2>3. CASE v # u
    BY <2>1, <2>3, <1>1, <1>2, <1>7 DEF AuthorizationInv, Leftovers
  <2> QED
    BY <2>2, <2>3
<1> QED
  BY <1>10, <1>11, <1>12, <1>13, <1>14, <1>15, <1>16, <1>17 DEF AuthorizationInv

LEMMA EditCommitKeeps ==
  ASSUME AuthorizationInv, NEW r \in Request, EditCommit(r)
  PROVE  AuthorizationInv'
<1> DEFINE q == req[r]
           u == q.s
<1>1. /\ q.at = "edit" /\ End(r)
      /\ member' = [m \in User \X Group |-> Edited(q, m)]
      /\ due' = IF u \in users \ coedited THEN [due EXCEPT ![u] = q.ask] ELSE due
      /\ late' = late \cup ({u} \ users) \cup (q.ask \ LiveGroups)
      /\ UNCHANGED <<key, users, used, coedited>>
  BY DEF EditCommit
<1>2. /\ req' \in [Request -> Load] /\ req'[r].at = "idle"
      /\ \A p \in Request \ {r} : req'[p] = req[p]
  BY <1>1, EndFact DEF AuthorizationInv
<1>3. /\ u \in User \cap used /\ q.saw \subseteq used
      /\ q.ask \subseteq used /\ q.ask \subseteq Group
  BY <1>1, ReqFact DEF AuthorizationInv, Fields, Sound, Load
<1>4. /\ LiveGroups' = LiveGroups /\ LiveGroups \subseteq Group /\ Live' = Live
      /\ users \subseteq User
      /\ member \in [User \X Group -> Nat] /\ due \in [User -> SUBSET Group]
      /\ late \in SUBSET Subject
  BY <1>1 DEF LiveGroups, Live, AuthorizationInv, AuthorizationTypeOK
<1>5. /\ member' \in [User \X Group -> Nat]
      /\ \A v \in User \ {u}, g \in Group : member'[<<v, g>>] = member[<<v, g>>]
      /\ \A g \in Group : g \in q.saw /\ g \notin q.ask => member'[<<u, g>>] = 0
      /\ \A g \in Group : g \notin q.saw /\ g \in q.ask => member'[<<u, g>>] = member[<<u, g>>] + 1
      /\ \A g \in Group : (g \in q.saw <=> g \in q.ask) => member'[<<u, g>>] = member[<<u, g>>]
  BY <1>1, <1>3, <1>4 DEF Edited
<1>6. /\ due' \in [User -> SUBSET Group]
      /\ \A v \in User \ {u} : due'[v] = due[v]
      /\ u \in users \ coedited => due'[u] = q.ask
      /\ due'[u] = due[u] \/ due'[u] = q.ask
  BY <1>1, <1>3, <1>4
<1>7. late' \in SUBSET Subject /\ late \subseteq late'
  BY <1>1, <1>3, <1>4 DEF Subject
<1>8. AuthorizationTypeOK'
  BY <1>1, <1>2, <1>5, <1>6, <1>7 DEF AuthorizationInv, AuthorizationTypeOK
<1>9. Fields'
  <2>1. \A p \in Request : Sound(req'[p])
    BY <1>2 DEF AuthorizationInv, Fields, Sound
  <2> QED
    BY <2>1, <1>1, <1>4 DEF Fields, Sound
<1>10. Born'
  <2>1. \A v \in User, g \in Group : member'[<<v, g>>] > 0 => v \in used /\ g \in used
    <3> SUFFICES ASSUME NEW v \in User, NEW g \in Group, member'[<<v, g>>] > 0
                 PROVE  v \in used /\ g \in used
      OBVIOUS
    <3>1. CASE v = u /\ (g \in q.saw \/ g \in q.ask)
      BY <3>1, <1>3
    <3>2. CASE ~(v = u /\ (g \in q.saw \/ g \in q.ask))
      <4>1. member[<<v, g>>] > 0
        BY <3>2, <1>5
      <4> QED
        BY <4>1 DEF AuthorizationInv, Born
    <3> QED
      BY <3>1, <3>2
  <2>2. \A v \in User : due'[v] \subseteq used
    BY <1>3, <1>6 DEF AuthorizationInv, Born
  <2> QED
    BY <2>1, <2>2, <1>1 DEF Born
<1>11. Free'
  BY <1>1, <1>2 DEF AuthorizationInv, Free
<1>12. EditsAlone'
  <2> SUFFICES ASSUME NEW p \in Request, req'[p].at = "edit", req'[p].s \in users \ coedited
               PROVE  /\ \A o \in Request \ {p} : req'[o].at = "edit" => req'[o].s # req'[p].s
                      /\ \A g \in LiveGroups : g \in req'[p].saw <=> member'[<<req'[p].s, g>>] > 0
                      /\ \A g \in req'[p].ask \ req'[p].saw : member'[<<req'[p].s, g>>] = 0
    BY <1>1, <1>4 DEF EditsAlone
  <2>1. p # r /\ \A o \in Request : req'[o].at = "edit" => req'[o] = req[o]
    BY <1>2
  <2>2. /\ \A o \in Request \ {p} : req[o].at = "edit" => req[o].s # req[p].s
        /\ \A g \in LiveGroups : g \in req[p].saw <=> member[<<req[p].s, g>>] > 0
        /\ \A g \in req[p].ask \ req[p].saw : member[<<req[p].s, g>>] = 0
    BY <2>1 DEF AuthorizationInv, EditsAlone
  <2>3. req[p].s \in User \ {u} /\ req[p].ask \subseteq Group
    BY <2>1, <2>2, <1>1, <1>4, ReqFact DEF AuthorizationInv, Load
  <2> QED
    BY <2>1, <2>2, <2>3, <1>4, <1>5
<1>13. ListedAsDue'
  <2> SUFFICES ASSUME NEW v \in users \ coedited
               PROVE  /\ Listed(v)' = due'[v] \cap LiveGroups
                      /\ \A g \in Group : member'[<<v, g>>] <= 1
    BY <1>1, <1>4 DEF ListedAsDue
  <2>1. Listed(v)' = {g \in LiveGroups : member'[<<v, g>>] > 0}
    BY <1>4 DEF Listed
  <2>2. /\ Listed(v) = due[v] \cap LiveGroups /\ \A g \in Group : member[<<v, g>>] <= 1
        /\ v \in User
    BY <1>4 DEF AuthorizationInv, ListedAsDue
  <2>3. CASE v = u
    <3>1. /\ \A g \in LiveGroups : g \in q.saw <=> member[<<u, g>>] > 0
          /\ \A g \in q.ask \ q.saw : member[<<u, g>>] = 0
      BY <2>3, <1>1 DEF AuthorizationInv, EditsAlone
    <3>2. \A g \in Group : member[<<u, g>>] \in Nat
      BY <1>3, <1>4
    <3>3. \A g \in LiveGroups : member'[<<u, g>>] > 0 <=> g \in q.ask
      BY <3>1, <3>2, <1>4, <1>5
    <3>4. \A g \in Group : member'[<<u, g>>] <= 1
      BY <3>1, <3>2, <2>2, <2>3, <1>5
    <3> QED
      BY <3>3, <3>4, <2>1, <2>3, <1>3, <1>6
  <2>4. CASE v # u
    <3>1. Listed(v)' = Listed(v)
      BY <2>1, <2>2, <2>4, <1>4, <1>5 DEF Listed
    <3>2. due'[v] = due[v]
      BY <2>2, <2>4, <1>6
    <3> QED
      BY <3>1, <3>2, <2>2, <2>4, <1>5
  <2> QED
    BY <2>3, <2>4
<1>14. RowsInHand'
  BY <1>1, <1>2, <1>4, <1>7 DEF AuthorizationInv, RowsInHand, Attributes
<1>15. Leftovers'
  <2>1. \A t, o : OnList(t, o) => OnList(t, o)'
    BY <1>1, <1>2 DEF OnList
  <2> SUFFICES ASSUME NEW v \in User, NEW g \in Group, member'[<<v, g>>] > 0
               PROVE  /\ v \in users /\ g \notin LiveGroups => g \in late' \/ OnList(g, v)'
                      /\ v \notin users /\ g \in LiveGroups => v \in late' \/ OnList(v, g)'
    BY <1>1, <1>4 DEF Leftovers
  <2>2. CASE v = u /\ g \in q.ask
    BY <2>2, <1>1
  <2>3. CASE ~(v = u /\ g \in q.ask)
    <3>1. member[<<v, g>>] > 0
      BY <2>3, <1>5
    <3> QED
      BY <2>1, <3>1, <1>7 DEF AuthorizationInv, Leftovers
  <2> QED
    BY <2>2, <2>3
<1> QED
  BY <1>8, <1>9, <1>10, <1>11, <1>12, <1>13, <1>14, <1>15 DEF AuthorizationInv

-----------------------------------------------------------------------------
(* The invariant, and what follows from it.                                *)

LEMMA InitIsSound ==
  ASSUME AuthorizationInit
  PROVE  AuthorizationInv
<1>1. GroupKey(Default) \in Key /\ GroupKey(Default).table = "radius_groups"
  BY SeedAssumption DEF GroupKey, Key
<1>2. /\ Seed \in Group /\ Seed \in Record /\ Seed \notin Row
      /\ key \in [Record -> Key \cup {Null}]
      /\ \A x \in Record \ {Seed} : key[x] = Null
  BY <1>1, SeedAssumption, KeyFact DEF AuthorizationInit, Record
<1>3. /\ users = {} /\ used = {Seed} /\ coedited = {} /\ late = {}
      /\ \A r \in Request : req[r] = Idle
      /\ \A u \in User, g \in Group : member[<<u, g>>] = 0
      /\ due \in [User -> SUBSET Group] /\ \A u \in User : due[u] = {}
      /\ member \in [User \X Group -> Nat]
  BY DEF AuthorizationInit
<1>4. AuthorizationTypeOK
  <2>1. req \in [Request -> Load]
    BY IdleFact DEF AuthorizationInit
  <2>2. \A x \in Record : key[x] # Null => (x \in Group <=> key[x].table = "radius_groups")
    BY <1>1, <1>2 DEF AuthorizationInit
  <2> QED
    BY <1>2, <1>3, <2>1, <2>2 DEF AuthorizationTypeOK
<1>5. Fields /\ Free /\ EditsAlone
  BY <1>3, IdleFact DEF Fields, Sound, Free, EditsAlone
<1>6. Born /\ ListedAsDue /\ Leftovers
  BY <1>3 DEF Born, ListedAsDue, Leftovers
<1>7. RowsInHand
  BY <1>2, <1>3, IdleFact, KeyFact DEF RowsInHand, Record
<1> QED
  BY <1>4, <1>5, <1>6, <1>7 DEF AuthorizationInv

LEMMA NextKeeps ==
  ASSUME AuthorizationInv, [AuthorizationNext]_authorizationVars
  PROVE  AuthorizationInv'
<1>1. ASSUME NEW r \in Request, NEW k \in Key, Creation(r, k)
      PROVE  AuthorizationInv'
  BY <1>1, CreationKeeps
<1>2. ASSUME NEW r \in Request, NEW x \in Record, NEW k \in Key, Change(r, x, k)
      PROVE  AuthorizationInv'
  BY <1>2, ChangeKeeps
<1>3. ASSUME NEW r \in Request, Validate(r) \/ Insert(r) \/ Update(r)
      PROVE  AuthorizationInv'
  BY <1>3, ValidateKeeps, InsertKeeps, UpdateKeeps
<1>4. ASSUME NEW r \in Request, NEW x \in Row, DestroyRow(r, x)
      PROVE  AuthorizationInv'
  BY <1>4, DestroyRowKeeps
<1>5. ASSUME NEW r \in Request, NEW s \in Subject, Destroy(r, s)
      PROVE  AuthorizationInv'
  BY <1>5, DestroyKeeps
<1>6. ASSUME NEW r \in Request, Cascade(r) \/ List(r) \/ Clear(r)
      PROVE  AuthorizationInv'
  BY <1>6, CascadeKeeps, ListKeeps, ClearKeeps
<1>7. ASSUME NEW r \in Request, NEW S \in SUBSET Group, OperatorCreate(r, S)
      PROVE  AuthorizationInv'
  BY <1>7, OperatorCreateKeeps
<1>8. ASSUME NEW r \in Request, SignUp(r) \/ Register(r)
      PROVE  AuthorizationInv'
  BY <1>8, SignUpKeeps, RegisterKeeps
<1>9. ASSUME NEW r \in Request, NEW u \in User, NEW S \in SUBSET Group, Edit(r, u, S)
      PROVE  AuthorizationInv'
  BY <1>9, EditKeeps
<1>10. ASSUME NEW r \in Request, EditCommit(r) \/ Fail(r)
       PROVE  AuthorizationInv'
  BY <1>10, EditCommitKeeps, FailKeeps
<1>11. CASE UNCHANGED authorizationVars
  <2>1. UNCHANGED <<key, users, used, member, req, coedited, late, due>>
    BY <1>11 DEF authorizationVars
  <2>2. LiveGroups' = LiveGroups /\ Live' = Live
    BY <2>1 DEF LiveGroups, Live
  <2>3. /\ AuthorizationTypeOK' /\ Born' /\ Free' /\ EditsAlone' /\ ListedAsDue' /\ RowsInHand'
    BY <2>1, <2>2 DEF AuthorizationInv, AuthorizationTypeOK, Born, Free, EditsAlone, ListedAsDue, Listed, RowsInHand, Attributes
  <2>4. Fields' /\ Leftovers'
    BY <2>1, <2>2 DEF AuthorizationInv, Fields, Sound, Leftovers, OnList
  <2> QED
    BY <2>3, <2>4 DEF AuthorizationInv
<1> QED
  BY <1>1, <1>2, <1>3, <1>4, <1>5, <1>6, <1>7, <1>8, <1>9, <1>10, <1>11 DEF AuthorizationNext

\* The invariant holds of every reachable state.
THEOREM Invariant == AuthorizationSpec => []AuthorizationInv
<1>1. AuthorizationInit => AuthorizationInv
  BY InitIsSound
<1>2. AuthorizationInv /\ [AuthorizationNext]_authorizationVars => AuthorizationInv'
  BY NextKeeps
<1> QED
  BY <1>1, <1>2, PTL DEF AuthorizationSpec

\* Types are kept; a group keeps to radius_groups, and no record or account
\* exists that was not given an id.
THEOREM AuthorizationTypeCorrect == AuthorizationSpec => []AuthorizationTypeOK
<1>1. AuthorizationInv => AuthorizationTypeOK
  BY DEF AuthorizationInv
<1> QED
  BY <1>1, Invariant, PTL

\* An account whose groups no two requests have edited at once is listed, once
\* each, in the groups it was last given that are still there (radusergroup).
THEOREM ListedWhereDue == AuthorizationSpec => []ListedAsDue
<1>1. AuthorizationInv => ListedAsDue
  BY DEF AuthorizationInv
<1> QED
  BY <1>1, Invariant, PTL

\* What is left of a removed subject is about to be deleted, or was written
\* late, or was left by a removal that was broken off.
THEOREM NothingLeftOver == AuthorizationSpec => []NothingLeft
<1>1. ASSUME AuthorizationInv
      PROVE  NothingLeft
  <2>1. \A x \in Row : key[x] # Null => key[x].of \in Live \cup late
    BY <1>1 DEF AuthorizationInv, RowsInHand
  <2>2. ASSUME NEW u \in User, NEW g \in Group, member[<<u, g>>] > 0,
               u \in users <=> g \notin LiveGroups
        PROVE  \E s \in {u, g} \ Live :
                 s \in late \/ \E r \in Request : req[r].at \in {"list", "clear"} /\ req[r].s = s
    <3>1. u \notin LiveGroups /\ g \notin users
      BY <1>1, KeyFact DEF AuthorizationInv, AuthorizationTypeOK, LiveGroups
    <3>2. CASE u \in users
      BY <1>1, <2>2, <3>1, <3>2 DEF AuthorizationInv, Leftovers, OnList, Live
    <3>3. CASE u \notin users
      BY <1>1, <2>2, <3>1, <3>3 DEF AuthorizationInv, Leftovers, OnList, Live
    <3> QED
      BY <3>2, <3>3
  <2> QED
    BY <2>1, <2>2 DEF NothingLeft
<1> QED
  BY <1>1, Invariant, PTL

\* A record comes to share its key with another only in a write that had a
\* rival.
LEMMA WritesAlone ==
  ASSUME AuthorizationInv, NEW r \in Request, Insert(r) \/ Update(r),
         NEW x \in Record, NEW y \in Record, x # y,
         key'[x] # Null, key'[x] = key'[y], key[x] # key[y]
  PROVE  req[r].rival /\ req[r].k = key'[x] /\ req'[r] = Idle
<1> DEFINE q == req[r]
<1>1. /\ q.at = "write" /\ key \in [Record -> Key \cup {Null}]
      /\ \E z \in Record : /\ key' = key \/ key' = [key EXCEPT ![z] = q.k]
                           /\ q.x = z \/ (q.x = Null /\ key[z] = Null)
      /\ req' = [req EXCEPT ![r] = Idle] /\ req \in [Request -> Load]
  <2>1. CASE Insert(r)
    <3>1. PICK z \in Fresh(q.k) : key' = [key EXCEPT ![z] = q.k]
      BY <2>1 DEF Insert
    <3>2. z \in Record /\ z \notin used
      BY <3>1 DEF Fresh, Record
    <3>3. key[z] = Null
      BY <3>2 DEF AuthorizationInv, AuthorizationTypeOK
    <3> QED
      BY <2>1, <3>1, <3>2, <3>3 DEF Insert, End, Goto, AuthorizationInv, AuthorizationTypeOK
  <2>2. CASE Update(r)
    <3>1. q.at = "write" /\ q.x \in Record
      BY <2>2 DEF Update, AuthorizationInv, Fields, Sound
    <3> QED
      BY <2>2, <3>1 DEF Update, End, Goto, AuthorizationInv, AuthorizationTypeOK
  <2> QED
    BY <2>1, <2>2
<1>2. PICK z \in Record : /\ key' = key \/ key' = [key EXCEPT ![z] = q.k]
                          /\ q.x = z \/ (q.x = Null /\ key[z] = Null)
  BY <1>1
<1>3. key' = [key EXCEPT ![z] = q.k] /\ (x = z \/ y = z)
  BY <1>1, <1>2
<1>4. PICK o \in {x, y} \ {z} : key[o] = q.k /\ key'[x] = q.k
  BY <1>1, <1>3
<1>5. o \in Record /\ o # q.x
  BY <1>2, <1>4, KeyFact
<1>6. q.rival
  BY <1>1, <1>4, <1>5 DEF AuthorizationInv, Free
<1> QED
  BY <1>1, <1>4, <1>6

\* A name goes to a second group, or an attribute to a second check or reply of
\* a subject, only if two requests found it free at the same time.
THEOREM KeysOnce == AuthorizationSpec => KeyOnce
<1> DEFINE Once == \A x, y \in Record :
                     x # y /\ key'[x] # Null /\ key'[x] = key'[y] /\ key[x] # key[y]
                       => \E r \in Request : req[r].rival /\ req[r].k = key'[x] /\ req'[r] = Idle
<1>1. AuthorizationInv /\ [AuthorizationNext]_authorizationVars => [Once]_authorizationVars
  <2> SUFFICES ASSUME AuthorizationInv, [AuthorizationNext]_authorizationVars,
                      NEW x \in Record, NEW y \in Record, x # y,
                      key'[x] # Null, key'[x] = key'[y], key[x] # key[y]
               PROVE  \E r \in Request : req[r].rival /\ req[r].k = key'[x] /\ req'[r] = Idle
    OBVIOUS
  <2>1. key' # key
    OBVIOUS
  <2>2. ASSUME NEW r \in Request, Cascade(r) \/ \E z \in Row : DestroyRow(r, z)
        PROVE  FALSE
    <3>1. \A z \in Record : key'[z] = Null \/ key'[z] = key[z]
      BY <2>2 DEF Cascade, DestroyRow, AuthorizationInv, AuthorizationTypeOK
    <3> QED
      BY <3>1
  <2>3. PICK r \in Request : Insert(r) \/ Update(r)
    BY <2>1, <2>2
       DEF AuthorizationNext, authorizationVars, Creation, Change, Validate, Destroy, List, Clear, SignUp,
           OperatorCreate, Register, Edit, EditCommit, Fail
  <2> QED
    BY <2>3, WritesAlone
<1> QED
  BY <1>1, Invariant, PTL DEF AuthorizationSpec, KeyOnce
=============================================================================
