------------------------- MODULE ConfigurationCache -------------------------
(***************************************************************************)
(* The settings of the program (Configuration): a table, a copy of it in   *)
(* the file Rails.cache keeps (tmp/cache, shared by all processes and left *)
(* in place when they restart), and a copy in every process, @@cache.      *)
(*                                                                         *)
(* A process reads @@cache, fills it from the file, and the file from the  *)
(* table.  A save empties both from its after_save callback, that is       *)
(* before its transaction commits.  Web workers, the house keeper and the  *)
(* console have one thread each; the threads of the SIP daemon share the   *)
(* @@cache of their process and may be interrupted between any two steps.  *)
(* Rows are never deleted.  system_key and validation are left out: a save *)
(* they refuse changes nothing.                                            *)
(***************************************************************************)
EXTENDS Naturals, FiniteSets

CONSTANTS
  Process, Thread,
  Home,          \* Home[t]: the process of thread t
  Setter,        \* threads that change settings: web workers, the console
  Key, Value,
  Stored,        \* Stored[k]: the first value of k, NoValue if it has no row
  NoValue,       \* no row; nil
  Nil,           \* no hash at all
  MaxSaves       \* bound: saves begun

ASSUME KeyAssumption == Key # {}
ASSUME HomeAssumption == Home \in [Thread -> Process] /\ Setter \subseteq Thread
ASSUME ValueAssumption == NoValue \notin Value /\ Stored \in [Key -> Value \cup {NoValue}]
ASSUME NilAssumption == Nil \notin [Key -> Value \cup {NoValue}]
ASSUME BoundAssumption == MaxSaves \in Nat

VARIABLES
  rows,     \* the table, as committed
  pending,  \* pending[k]: what an open transaction wrote to the row of k
  file,     \* Rails.cache
  cache,    \* cache[p]: @@cache in process p
  th,       \* th[t]: where the thread is, its key, the rows still to copy or
            \* the value of its answer
  saves,    \* number of saves begun
  had       \* had[k]: the committed values of k so far

vars == <<rows, pending, file, cache, th, saves, had>>

Hash == [Key -> Value \cup {NoValue}]
Empty == [k \in Key |-> NoValue]
Somewhere == CHOOSE k \in Key : TRUE

Idle == [at |-> "idle", saves |-> FALSE, key |-> Somewhere, todo |-> Empty, value |-> NoValue]

Init ==
  /\ rows = Stored
  /\ pending = Empty
  /\ file = Nil
  /\ cache = [p \in Process |-> Nil]
  /\ th = [t \in Thread |-> Idle]
  /\ saves = 0
  /\ had = [k \in Key |-> {Stored[k]}]

Goto(t, at) == th' = [th EXCEPT ![t].at = at]

-----------------------------------------------------------------------------
(* Configuration.get and Configuration.cache.                              *)

Get(t, k) ==
  /\ th[t].at = "idle"
  /\ th' = [th EXCEPT ![t] = [Idle EXCEPT !.key = k,
                                !.at = IF cache[Home[t]] = Nil THEN "fetch" ELSE "look"]]
  /\ UNCHANGED <<rows, pending, file, cache, saves, had>>

\* Mutant: the file is used, and nothing else.
FetchOnly(t) ==
  /\ th[t].at = "fetch"
  /\ cache' = [cache EXCEPT ![Home[t]] = IF @ = Nil THEN file ELSE @]
  /\ Goto(t, "look")
  /\ UNCHANGED <<rows, pending, file, saves, had>>

Fetch(t) ==
  /\ th[t].at = "fetch"
  /\ cache' = [cache EXCEPT ![Home[t]] = IF @ = Nil THEN file ELSE @]
  /\ Goto(t, "create")
  /\ UNCHANGED <<rows, pending, file, saves, had>>

\* A new hash, empty for the other threads of the process too.
Create(t) ==
  /\ th[t].at = "create"
  /\ IF cache[Home[t]] = Nil
     THEN cache' = [cache EXCEPT ![Home[t]] = Empty] /\ Goto(t, "query")
     ELSE UNCHANGED cache /\ Goto(t, "look")
  /\ UNCHANGED <<rows, pending, file, saves, had>>

Query(t) ==
  /\ th[t].at = "query"
  /\ th' = [th EXCEPT ![t] = [@ EXCEPT !.at = "copy", !.todo = rows]]
  /\ UNCHANGED <<rows, pending, file, cache, saves, had>>

\* One row after the other, into whatever @@cache is by then; nil raises.
Copy(t, k) ==
  /\ th[t].at = "copy" /\ th[t].todo[k] # NoValue
  /\ IF cache[Home[t]] = Nil
     THEN UNCHANGED cache /\ th' = [th EXCEPT ![t] = [@ EXCEPT !.at = "raised", !.todo = Empty]]
     ELSE /\ cache' = [cache EXCEPT ![Home[t]] = [@ EXCEPT ![k] = th[t].todo[k]]]
          /\ th' = [th EXCEPT ![t] = [@ EXCEPT !.todo[k] = NoValue]]
  /\ UNCHANGED <<rows, pending, file, saves, had>>

Write(t) ==
  /\ th[t].at = "copy" /\ th[t].todo = Empty
  /\ file' = cache[Home[t]]
  /\ Goto(t, "look")
  /\ UNCHANGED <<rows, pending, cache, saves, had>>

\* @@cache[key].nil?
Look(t) ==
  LET c == cache[Home[t]] IN
  /\ th[t].at = "look"
  /\ Goto(t, IF c = Nil THEN "raised" ELSE IF c[th[t].key] = NoValue THEN "find" ELSE "read")
  /\ UNCHANGED <<rows, pending, file, cache, saves, had>>

\* return @@cache[key], which is read again.
Read(t) ==
  LET c == cache[Home[t]] IN
  /\ th[t].at = "read"
  /\ th' = [th EXCEPT ![t] =
              [@ EXCEPT !.at = IF c = Nil THEN "raised" ELSE "done",
                        !.value = IF c = Nil THEN NoValue ELSE c[th[t].key]]]
  /\ UNCHANGED <<rows, pending, file, cache, saves, had>>

\* find_by_key: the default, or the row; then the caches are emptied.
Find(t) ==
  LET v == rows[th[t].key] IN
  /\ th[t].at = "find"
  /\ th' = [th EXCEPT ![t] =
              [@ EXCEPT !.at = IF v = NoValue THEN "done" ELSE "forget", !.value = v]]
  /\ UNCHANGED <<rows, pending, file, cache, saves, had>>

-----------------------------------------------------------------------------
(* invalidate_cache, Configuration.set and Configuration#set.              *)

\* Mutant: the save puts its value into @@cache instead of emptying it.
ForgetStoring(t) ==
  /\ th[t].at = "forget"
  /\ cache' = [cache EXCEPT ![Home[t]] =
                 IF @ # Nil /\ th[t].saves THEN [@ EXCEPT ![th[t].key] = pending[th[t].key]] ELSE Nil]
  /\ Goto(t, "delete")
  /\ UNCHANGED <<rows, pending, file, saves, had>>

Forget(t) ==
  /\ th[t].at = "forget"
  /\ cache' = [cache EXCEPT ![Home[t]] = Nil]
  /\ Goto(t, "delete")
  /\ UNCHANGED <<rows, pending, file, saves, had>>

Delete(t) ==
  /\ th[t].at = "delete"
  /\ file' = Nil
  /\ Goto(t, IF th[t].saves THEN "commit" ELSE "done")
  /\ UNCHANGED <<rows, pending, cache, saves, had>>

\* The UPDATE or INSERT, in a transaction that holds the row.
Set(t, k, v) ==
  /\ th[t].at = "idle" /\ t \in Setter
  /\ saves < MaxSaves
  /\ pending[k] = NoValue
  /\ pending' = [pending EXCEPT ![k] = v]
  /\ th' = [th EXCEPT ![t] = [Idle EXCEPT !.at = "forget", !.saves = TRUE, !.key = k]]
  /\ saves' = saves + 1
  /\ UNCHANGED <<rows, file, cache, had>>

Commit(t) ==
  LET k == th[t].key IN
  /\ th[t].at = "commit"
  /\ rows' = [rows EXCEPT ![k] = pending[k]]
  /\ had' = [had EXCEPT ![k] = @ \cup {pending[k]}]
  /\ pending' = [pending EXCEPT ![k] = NoValue]
  /\ th' = [th EXCEPT ![t] = Idle]
  /\ UNCHANGED <<file, cache, saves>>

\* A step of the save raises: the caches stay as they are.
Rollback(t) ==
  /\ th[t].at \in {"forget", "delete", "commit"} /\ th[t].saves
  /\ pending' = [pending EXCEPT ![th[t].key] = NoValue]
  /\ th' = [th EXCEPT ![t] = Idle]
  /\ UNCHANGED <<rows, file, cache, saves, had>>

-----------------------------------------------------------------------------
\* The answer, or the exception, has reached the caller.
Return(t) ==
  /\ th[t].at \in {"done", "raised"}
  /\ th' = [th EXCEPT ![t] = Idle]
  /\ UNCHANGED <<rows, pending, file, cache, saves, had>>

\* Whatever the process was doing ends: MySQL rolls its transactions back.
Restart(p) ==
  LET ended == {t \in Thread : Home[t] = p} IN
  /\ cache' = [cache EXCEPT ![p] = Nil]
  /\ th' = [t \in Thread |-> IF t \in ended THEN Idle ELSE th[t]]
  /\ pending' = [k \in Key |->
                   IF \E t \in ended : th[t].saves /\ th[t].key = k THEN NoValue ELSE pending[k]]
  /\ UNCHANGED <<rows, file, saves, had>>

Step(t) ==
  \/ \E k \in Key : Get(t, k) \/ Copy(t, k)
  \/ Fetch(t) \/ Create(t) \/ Query(t) \/ Write(t) \/ Look(t) \/ Read(t) \/ Find(t)
  \/ Forget(t) \/ Delete(t) \/ Commit(t) \/ Rollback(t) \/ Return(t)
  \/ \E k \in Key : \E v \in Value : Set(t, k, v)

Next ==
  \/ \E t \in Thread : Step(t)
  \/ \E p \in Process : Restart(p)

Spec == Init /\ [][Next]_vars

-----------------------------------------------------------------------------
(* Correctness.                                                            *)

\* Type correctness; only a transaction that is open has written a row.
TypeOK ==
  /\ rows \in Hash /\ pending \in Hash
  /\ file \in Hash \cup {Nil}
  /\ cache \in [Process -> Hash \cup {Nil}]
  /\ th \in [Thread ->
       [at : {"idle", "fetch", "create", "query", "copy", "look", "read", "find",
              "forget", "delete", "commit", "done", "raised"},
        saves : BOOLEAN, key : Key, todo : Hash, value : Value \cup {NoValue}]]
  /\ saves \in 0..MaxSaves
  /\ had \in [Key -> SUBSET (Value \cup {NoValue})]
  /\ \A t \in Thread : th[t].saves => pending[th[t].key] # NoValue

Of(h) == \A k \in Key : h[k] # NoValue => h[k] \in had[k]

\* Whatever is in the file, in a process or in an answer was committed: a
\* save that is rolled back is never seen, however it interleaves.
CommittedOnly ==
  /\ file # Nil => Of(file)
  /\ \A p \in Process : cache[p] # Nil => Of(cache[p])
  /\ \A t \in Thread :
       th[t].at = "done" /\ th[t].value # NoValue => th[t].value \in had[th[t].key]

Alone(t) == \A s \in Thread : Home[s] = Home[t] => s = t

\* In a process with one thread nothing comes between two reads of @@cache:
\* whatever the other processes do, get does not raise, and what it found in
\* the hash is still there when it returns it.
AloneNeverRaises ==
  \A t \in Thread :
    Alone(t) =>
      /\ th[t].at # "raised"
      /\ th[t].at = "read" => cache[Home[t]] # Nil /\ cache[Home[t]][th[t].key] # NoValue
=============================================================================
