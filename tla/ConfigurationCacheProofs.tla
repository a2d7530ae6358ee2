---------------------- MODULE ConfigurationCacheProofs ----------------------
(***************************************************************************)
(* Theorems about ConfigurationCache, for any number of processes, threads *)
(* and keys.                                                               *)
(***************************************************************************)
EXTENDS ConfigurationCache, TLAPS

ThType ==
  [at : {"idle", "fetch", "create", "query", "copy", "look", "read", "find",
         "forget", "delete", "commit", "done", "raised"},
   saves : BOOLEAN, key : Key, todo : Hash, value : Value \cup {NoValue}]

\* One transaction at most has written a row.
OneWriter ==
  \A s, t \in Thread : th[s].saves /\ th[t].saves /\ th[s].key = th[t].key => s = t

Committers == \A t \in Thread : th[t].at = "commit" => th[t].saves

\* What is read from the table is committed, and all that is copied from it.
AllCommitted ==
  /\ Of(rows)
  /\ file # Nil => Of(file)
  /\ \A p \in Process : cache[p] # Nil => Of(cache[p])
  /\ \A t \in Thread :
       Of(th[t].todo) /\ (th[t].value # NoValue => th[t].value \in had[th[t].key])

\* A thread that is alone in its process finds @@cache as it left it.
AloneKeeps ==
  \A t \in Thread :
    Alone(t) =>
      /\ th[t].at # "raised"
      /\ th[t].at \in {"query", "copy", "look", "read"} => cache[Home[t]] # Nil
      /\ th[t].at = "read" => cache[Home[t]][th[t].key] # NoValue

IInv == TypeOK /\ OneWriter /\ Committers /\ AllCommitted /\ AloneKeeps

-----------------------------------------------------------------------------
(* Types.                                                                  *)

LEMMA IdleFact ==
  /\ Idle \in ThType /\ Idle.at = "idle" /\ Idle.saves = FALSE
  /\ Idle.todo = Empty /\ Idle.value = NoValue
  /\ Empty \in Hash /\ \A k \in Key : Empty[k] = NoValue
  BY KeyAssumption DEF Idle, ThType, Empty, Hash, Somewhere

LEMMA GetFact ==
  ASSUME TypeOK, NEW t \in Thread, NEW k \in Key, Get(t, k)
  PROVE  /\ th' \in [Thread -> ThType]
         /\ \A s \in Thread : s # t => th'[s] = th[s]
         /\ th'[t].at = (IF cache[Home[t]] = Nil THEN "fetch" ELSE "look")
         /\ th'[t].saves = FALSE /\ th'[t].todo = Empty /\ th'[t].value = NoValue
<1> DEFINE at == IF cache[Home[t]] = Nil THEN "fetch" ELSE "look"
           r == [Idle EXCEPT !.key = k, !.at = at]
<1>1. at \in {"fetch", "look"}
  OBVIOUS
<1> HIDE DEF at
<1>2. r \in ThType /\ r.at = at /\ r.saves = FALSE /\ r.todo = Empty /\ r.value = NoValue
  BY <1>1, IdleFact DEF ThType
<1>3. th' = [th EXCEPT ![t] = r] /\ th \in [Thread -> ThType]
  BY DEF Get, TypeOK, ThType, at
<1> HIDE DEF r
<1> QED
  BY <1>2, <1>3 DEF at

LEMMA SetFact ==
  ASSUME TypeOK, NEW t \in Thread, NEW k \in Key, NEW v \in Value, Set(t, k, v)
  PROVE  /\ th' \in [Thread -> ThType]
         /\ \A s \in Thread : s # t => th'[s] = th[s]
         /\ th'[t].at = "forget" /\ th'[t].saves = TRUE /\ th'[t].key = k
         /\ th'[t].todo = Empty /\ th'[t].value = NoValue
<1> DEFINE r == [Idle EXCEPT !.at = "forget", !.saves = TRUE, !.key = k]
<1>1. r \in ThType /\ r.at = "forget" /\ r.saves = TRUE /\ r.key = k /\ r.todo = Empty
      /\ r.value = NoValue
  BY IdleFact DEF ThType
<1>2. th' = [th EXCEPT ![t] = r] /\ th \in [Thread -> ThType]
  BY DEF Set, TypeOK, ThType
<1> HIDE DEF r
<1> QED
  BY <1>1, <1>2

\* The steps that only move a thread.
LEMMA GotoFact ==
  ASSUME TypeOK, NEW t \in Thread, NEW at, Goto(t, at)
  PROVE  /\ \A s \in Thread : s # t => th'[s] = th[s]
         /\ th'[t].at = at /\ th'[t].saves = th[t].saves /\ th'[t].key = th[t].key
         /\ th'[t].todo = th[t].todo /\ th'[t].value = th[t].value
         /\ at \in {"create", "query", "look", "read", "find", "forget", "delete", "commit",
                    "done", "raised"} => th' \in [Thread -> ThType]
  BY DEF Goto, TypeOK, ThType

LEMMA EndFact ==
  ASSUME TypeOK, NEW t \in Thread, th' = [th EXCEPT ![t] = Idle]
  PROVE  /\ th' \in [Thread -> ThType]
         /\ \A s \in Thread : s # t => th'[s] = th[s]
         /\ th'[t] = Idle
  BY IdleFact DEF TypeOK, ThType

LEMMA RecordFact ==
  ASSUME NEW r \in ThType, NEW h \in Hash, NEW v \in Value \cup {NoValue},
         NEW at \in {"copy", "raised", "done", "forget"}
  PROVE  /\ [r EXCEPT !.at = at, !.todo = h] \in ThType
         /\ [r EXCEPT !.at = at, !.value = v] \in ThType
         /\ [r EXCEPT !.todo = h] \in ThType
<1>1. [r EXCEPT !.at = at, !.todo = h] \in ThType
  BY DEF ThType
<1>2. [r EXCEPT !.at = at, !.value = v] \in ThType
  BY DEF ThType
<1>3. [r EXCEPT !.todo = h] \in ThType
  BY DEF ThType
<1> QED
  BY <1>1, <1>2, <1>3

\* The steps that put a new record in the place of the one of a thread.
LEMMA PutFact ==
  ASSUME TypeOK, NEW t \in Thread, NEW r \in ThType, th' = [th EXCEPT ![t] = r]
  PROVE  /\ th' \in [Thread -> ThType]
         /\ \A s \in Thread : s # t => th'[s] = th[s]
         /\ th'[t] = r
  BY DEF TypeOK, ThType

LEMMA CopyFact ==
  ASSUME TypeOK, NEW t \in Thread, NEW k \in Key, Copy(t, k)
  PROVE  /\ th' \in [Thread -> ThType]
         /\ \A s \in Thread : s # t => th'[s] = th[s]
         /\ th'[t].saves = th[t].saves /\ th'[t].key = th[t].key /\ th'[t].value = th[t].value
         /\ th'[t].todo \in Hash
         /\ \A j \in Key : th'[t].todo[j] # NoValue => th'[t].todo[j] = th[t].todo[j]
         /\ th'[t].at = (IF cache[Home[t]] = Nil THEN "raised" ELSE "copy")
<1>0. th[t] \in ThType /\ th[t].todo \in Hash /\ th[t].value \in Value \cup {NoValue}
  BY DEF TypeOK, ThType
<1>1. CASE cache[Home[t]] = Nil
  <2> DEFINE r == [th[t] EXCEPT !.at = "raised", !.todo = Empty]
  <2>1. r \in ThType
    BY <1>0, IdleFact, RecordFact
  <2>2. r.at = "raised" /\ r.saves = th[t].saves /\ r.key = th[t].key /\ r.todo = Empty
        /\ r.value = th[t].value
    BY <1>0 DEF ThType
  <2>3. th' = [th EXCEPT ![t] = r]
    BY <1>1 DEF Copy
  <2> HIDE DEF r
  <2> QED
    BY <1>1, <2>1, <2>2, <2>3, PutFact, IdleFact
<1>2. CASE cache[Home[t]] # Nil
  <2> DEFINE h == [th[t].todo EXCEPT ![k] = NoValue]
             r == [th[t] EXCEPT !.todo[k] = NoValue]
  <2>1. h \in Hash /\ \A j \in Key : h[j] # NoValue => h[j] = th[t].todo[j]
    BY <1>0 DEF Hash
  <2>2. th' = [th EXCEPT ![t] = r]
    BY <1>2 DEF Copy
  <2>3. th[t].at = "copy"
    BY DEF Copy
  <2> HIDE DEF h
  <2>4. r \in ThType
    <3>1. r = [th[t] EXCEPT !.todo = h]
      BY DEF h
    <3> QED
      BY <1>0, <2>1, <3>1, RecordFact
  <2>5. r.at = th[t].at /\ r.saves = th[t].saves /\ r.key = th[t].key /\ r.todo = h
        /\ r.value = th[t].value
    BY <1>0 DEF ThType, h
  <2> HIDE DEF r
  <2> QED
    BY <1>2, <2>1, <2>2, <2>3, <2>4, <2>5, PutFact
<1> QED
  BY <1>1, <1>2

LEMMA QueryFact ==
  ASSUME TypeOK, NEW t \in Thread, Query(t)
  PROVE  /\ th' \in [Thread -> ThType]
         /\ \A s \in Thread : s # t => th'[s] = th[s]
         /\ th'[t].at = "copy" /\ th'[t].saves = th[t].saves /\ th'[t].key = th[t].key
         /\ th'[t].todo = rows /\ th'[t].value = th[t].value
<1> DEFINE r == [th[t] EXCEPT !.at = "copy", !.todo = rows]
<1>1. th[t] \in ThType /\ rows \in Hash /\ th[t].value \in Value \cup {NoValue}
  BY DEF TypeOK, ThType
<1>2. r \in ThType
  BY <1>1, RecordFact
<1>3. r.at = "copy" /\ r.saves = th[t].saves /\ r.key = th[t].key /\ r.todo = rows
      /\ r.value = th[t].value
  BY <1>1 DEF ThType
<1>4. th' = [th EXCEPT ![t] = r]
  BY DEF Query
<1> HIDE DEF r
<1> QED
  BY <1>2, <1>3, <1>4, PutFact

\* Read and Find put a value and move on.
LEMMA ValueFact ==
  ASSUME TypeOK, NEW t \in Thread, NEW at \in {"raised", "done", "forget"},
         NEW v \in Value \cup {NoValue},
         th' = [th EXCEPT ![t] = [@ EXCEPT !.at = at, !.value = v]]
  PROVE  /\ th' \in [Thread -> ThType]
         /\ \A s \in Thread : s # t => th'[s] = th[s]
         /\ th'[t].at = at /\ th'[t].saves = th[t].saves /\ th'[t].key = th[t].key
         /\ th'[t].todo = th[t].todo /\ th'[t].value = v
<1> DEFINE r == [th[t] EXCEPT !.at = at, !.value = v]
<1>1. th[t] \in ThType /\ th[t].todo \in Hash
  BY DEF TypeOK, ThType
<1>2. r \in ThType
  BY <1>1, RecordFact
<1>3. r.at = at /\ r.saves = th[t].saves /\ r.key = th[t].key /\ r.todo = th[t].todo
      /\ r.value = v
  BY <1>1 DEF ThType
<1>4. th' = [th EXCEPT ![t] = r]
  OBVIOUS
<1> HIDE DEF r
<1> QED
  BY <1>2, <1>3, <1>4, PutFact

LEMMA ReadFact ==
  ASSUME TypeOK, NEW t \in Thread, Read(t)
  PROVE  /\ th' \in [Thread -> ThType]
         /\ \A s \in Thread : s # t => th'[s] = th[s]
         /\ th'[t].at = (IF cache[Home[t]] = Nil THEN "raised" ELSE "done")
         /\ th'[t].value = (IF cache[Home[t]] = Nil THEN NoValue ELSE cache[Home[t]][th[t].key])
         /\ th'[t].saves = th[t].saves /\ th'[t].key = th[t].key /\ th'[t].todo = th[t].todo
<1>1. CASE cache[Home[t]] = Nil
  <2>1. th' = [th EXCEPT ![t] = [@ EXCEPT !.at = "raised", !.value = NoValue]]
    BY <1>1 DEF Read
  <2>2. th'[t].value = NoValue /\ th'[t].at = "raised" /\ th' \in [Thread -> ThType]
        /\ (\A s \in Thread : s # t => th'[s] = th[s])
        /\ th'[t].saves = th[t].saves /\ th'[t].key = th[t].key /\ th'[t].todo = th[t].todo
    BY <2>1, ValueFact
  <2> QED
    BY <1>1, <2>2
<1>2. CASE cache[Home[t]] # Nil
  <2> DEFINE v == cache[Home[t]][th[t].key]
  <2>1. v \in Value \cup {NoValue}
    BY <1>2, HomeAssumption DEF TypeOK, Hash
  <2>2. th' = [th EXCEPT ![t] = [@ EXCEPT !.at = "done", !.value = v]]
    BY <1>2 DEF Read
  <2> HIDE DEF v
  <2>3. th'[t].value = v /\ th'[t].at = "done" /\ th' \in [Thread -> ThType]
        /\ (\A s \in Thread : s # t => th'[s] = th[s])
        /\ th'[t].saves = th[t].saves /\ th'[t].key = th[t].key /\ th'[t].todo = th[t].todo
    BY <2>1, <2>2, ValueFact
  <2> QED
    BY <1>2, <2>3 DEF v
<1> QED
  BY <1>1, <1>2

LEMMA FindFact ==
  ASSUME TypeOK, NEW t \in Thread, Find(t)
  PROVE  /\ th' \in [Thread -> ThType]
         /\ \A s \in Thread : s # t => th'[s] = th[s]
         /\ th'[t].at \in {"done", "forget"} /\ th'[t].value = rows[th[t].key]
         /\ th'[t].saves = th[t].saves /\ th'[t].key = th[t].key /\ th'[t].todo = th[t].todo
<1> DEFINE v == rows[th[t].key]
<1>1. v \in Value \cup {NoValue}
  BY DEF TypeOK, Hash
<1>2. \E at \in {"done", "forget"} : th' = [th EXCEPT ![t] = [@ EXCEPT !.at = at, !.value = v]]
  <2>1. CASE v = NoValue
    BY <2>1 DEF Find
  <2>2. CASE v # NoValue
    BY <2>2 DEF Find
  <2> QED
    BY <2>1, <2>2
<1> HIDE DEF v
<1>3. PICK at \in {"done", "forget"} : th' = [th EXCEPT ![t] = [@ EXCEPT !.at = at, !.value = v]]
  BY <1>2
<1>4. /\ th' \in [Thread -> ThType]
      /\ \A s \in Thread : s # t => th'[s] = th[s]
      /\ th'[t].at = at /\ th'[t].value = v
      /\ th'[t].saves = th[t].saves /\ th'[t].key = th[t].key /\ th'[t].todo = th[t].todo
  BY <1>1, <1>3, ValueFact
<1> QED
  BY <1>4 DEF v

LEMMA StepFact ==
  ASSUME TypeOK, NEW t \in Thread, Step(t)
  PROVE  /\ th' \in [Thread -> ThType]
         /\ \A s \in Thread : s # t => th'[s] = th[s]
<1>1. CASE Commit(t) \/ Rollback(t) \/ Return(t)
  BY <1>1, EndFact DEF Commit, Rollback, Return
<1>2. CASE Fetch(t) \/ Create(t) \/ Write(t) \/ Look(t) \/ Forget(t) \/ Delete(t)
  BY <1>2, GotoFact DEF Fetch, Create, Write, Look, Forget, Delete
<1> QED
  BY <1>1, <1>2, GetFact, SetFact, CopyFact, QueryFact, ReadFact, FindFact DEF Step

LEMMA RestartFact ==
  ASSUME TypeOK, NEW p \in Process, Restart(p)
  PROVE  /\ th' \in [Thread -> ThType]
         /\ \A s \in Thread : th'[s] = IF Home[s] = p THEN Idle ELSE th[s]
  BY IdleFact DEF Restart, TypeOK, ThType

-----------------------------------------------------------------------------
(* The rows that open transactions have written.                           *)

Written == \A t \in Thread : th[t].saves => pending[th[t].key] # NoValue

\* No other step than Set makes a thread a writer.
LEMMA SavesFact ==
  ASSUME TypeOK, NEW t \in Thread, Step(t),
         \A k \in Key, v \in Value : ~Set(t, k, v), ~Commit(t), ~Rollback(t)
  PROVE  /\ UNCHANGED pending
         /\ \A s \in Thread : th'[s].saves => th[s].saves /\ th'[s].key = th[s].key
<1>1. UNCHANGED pending
  BY DEF Step, Get, Copy, Fetch, Create, Query, Write, Look, Read, Find, Forget, Delete, Return
<1>2. \A s \in Thread : s # t => th'[s] = th[s]
  BY StepFact
<1>3. ASSUME NEW k \in Key, Get(t, k)
      PROVE  ~th'[t].saves
  BY <1>3, GetFact
<1>4. ASSUME Return(t)
      PROVE  ~th'[t].saves
  BY <1>4, EndFact, IdleFact DEF Return
<1>5. ASSUME NEW k \in Key, Copy(t, k)
      PROVE  th'[t].saves = th[t].saves /\ th'[t].key = th[t].key
  BY <1>5, CopyFact
<1>6. CASE Query(t) \/ Read(t) \/ Find(t)
  BY <1>1, <1>2, <1>6, QueryFact, ReadFact, FindFact
<1>7. CASE Fetch(t) \/ Create(t) \/ Write(t) \/ Look(t) \/ Forget(t) \/ Delete(t)
  BY <1>1, <1>2, <1>7, GotoFact DEF Fetch, Create, Write, Look, Forget, Delete
<1> QED
  BY <1>1, <1>2, <1>3, <1>4, <1>5, <1>6, <1>7 DEF Step

LEMMA WriterStep ==
  ASSUME IInv, [Next]_vars
  PROVE  pending' \in Hash /\ Written' /\ OneWriter'
<1> USE DEF IInv
<1>0. pending \in Hash /\ Written /\ OneWriter /\ \A s \in Thread : th[s].key \in Key
  BY DEF TypeOK, Written, ThType
<1>1. ASSUME NEW t \in Thread, NEW k \in Key, NEW v \in Value, Set(t, k, v)
      PROVE  pending' \in Hash /\ Written' /\ OneWriter'
  <2>1. /\ pending' = [pending EXCEPT ![k] = v] /\ pending[k] = NoValue /\ v # NoValue
        /\ \A s \in Thread : s # t => th'[s] = th[s]
        /\ th'[t].key = k
    BY <1>1, SetFact, ValueAssumption DEF Set
  <2>2. \A s \in Thread : th[s].saves => th[s].key # k
    BY <1>0, <2>1 DEF Written
  <2>3. pending' \in Hash
    BY <1>0, <2>1 DEF Hash
  <2>4. \A j \in Key : pending'[j] = IF j = k THEN v ELSE pending[j]
    BY <1>0, <2>1 DEF Hash
  <2>5. Written'
    <3> SUFFICES ASSUME NEW s \in Thread, th'[s].saves
                 PROVE  pending'[th'[s].key] # NoValue
      BY DEF Written
    <3>1. CASE s = t
      BY <2>1, <2>4, <3>1
    <3>2. CASE s # t
      BY <1>0, <2>1, <2>4, <3>2 DEF Written
    <3> QED
      BY <3>1, <3>2
  <2>6. OneWriter'
    BY <1>0, <2>1, <2>2 DEF OneWriter
  <2> QED
    BY <2>3, <2>5, <2>6
<1>2. ASSUME NEW t \in Thread, th[t].saves, pending' = [pending EXCEPT ![th[t].key] = NoValue],
             th' = [th EXCEPT ![t] = Idle]
      PROVE  pending' \in Hash /\ Written' /\ OneWriter'
  <2>1. (\A s \in Thread : s # t => th'[s] = th[s]) /\ ~th'[t].saves
    BY <1>2, EndFact, IdleFact
  <2>2. \A j \in Key : pending'[j] = IF j = th[t].key THEN NoValue ELSE pending[j]
    BY <1>0, <1>2 DEF Hash
  <2>3. pending' \in Hash
    BY <1>0, <1>2 DEF Hash
  <2>4. Written'
    BY <1>0, <1>2, <2>1, <2>2 DEF Written, OneWriter
  <2>5. OneWriter'
    BY <1>0, <2>1 DEF OneWriter
  <2> QED
    BY <2>3, <2>4, <2>5
<1>3. ASSUME NEW t \in Thread, Commit(t) \/ Rollback(t)
      PROVE  pending' \in Hash /\ Written' /\ OneWriter'
  BY <1>2, <1>3 DEF Commit, Rollback, Committers
<1>4. ASSUME UNCHANGED pending,
             \A s \in Thread : th'[s].saves => th[s].saves /\ th'[s].key = th[s].key
      PROVE  pending' \in Hash /\ Written' /\ OneWriter'
  BY <1>0, <1>4 DEF Written, OneWriter
<1>5. ASSUME NEW p \in Process, Restart(p)
      PROVE  pending' \in Hash /\ Written' /\ OneWriter'
  <2>1. \A s \in Thread : th'[s].saves => Home[s] # p /\ th'[s] = th[s]
    BY <1>5, RestartFact, IdleFact
  <2>2. \A j \in Key : pending'[j] =
           IF \E t \in Thread : Home[t] = p /\ th[t].saves /\ th[t].key = j
           THEN NoValue ELSE pending[j]
    BY <1>5 DEF Restart
  <2>3. pending' \in Hash
    BY <1>0, <1>5 DEF Restart, Hash
  <2>4. Written'
    BY <1>0, <2>1, <2>2 DEF Written, OneWriter
  <2>5. OneWriter'
    BY <1>0, <2>1 DEF OneWriter
  <2> QED
    BY <2>3, <2>4, <2>5
<1>6. ASSUME NEW t \in Thread, Step(t)
      PROVE  pending' \in Hash /\ Written' /\ OneWriter'
  BY <1>1, <1>3, <1>4, <1>6, SavesFact
<1>7. CASE UNCHANGED vars
  BY <1>4, <1>7 DEF vars
<1> QED
  BY <1>5, <1>6, <1>7 DEF Next

\* A thread goes to "commit" only if it saves.
LEMMA CommitStep ==
  ASSUME IInv, [Next]_vars
  PROVE  Committers'
<1> USE DEF IInv
<1>1. ASSUME NEW t \in Thread, Step(t)
      PROVE  Committers'
  <2>1. \A s \in Thread : s # t => th'[s] = th[s]
    BY <1>1, StepFact
  <2>2. CASE \E k \in Key : Get(t, k) \/ Copy(t, k) \/ \E v \in Value : Set(t, k, v)
    BY <2>1, <2>2, GetFact, CopyFact, SetFact DEF Committers
  <2>3. CASE Query(t) \/ Read(t) \/ Find(t)
    BY <2>1, <2>3, QueryFact, ReadFact, FindFact DEF Committers
  <2>4. CASE Commit(t) \/ Rollback(t) \/ Return(t)
    BY <2>1, <2>4, EndFact, IdleFact DEF Commit, Rollback, Return, Committers
  <2>5. CASE Fetch(t) \/ Create(t) \/ Write(t) \/ Look(t) \/ Forget(t)
    BY <2>1, <2>5, GotoFact DEF Fetch, Create, Write, Look, Forget, Committers
  <2>6. CASE Delete(t)
    BY <2>1, <2>6, GotoFact DEF Delete, Committers
  <2> QED
    BY <1>1, <2>2, <2>3, <2>4, <2>5, <2>6 DEF Step
<1>2. ASSUME NEW p \in Process, Restart(p)
      PROVE  Committers'
  BY <1>2, RestartFact, IdleFact DEF Committers
<1>3. CASE UNCHANGED vars
  BY <1>3 DEF vars, Committers
<1> QED
  BY <1>1, <1>2, <1>3 DEF Next

LEMMA TypeStep ==
  ASSUME IInv, [Next]_vars
  PROVE  TypeOK'
<1> USE DEF IInv
<1>1. th' \in [Thread -> ThType]
  <2>1. CASE UNCHANGED vars
    BY <2>1 DEF vars, TypeOK, ThType
  <2> QED
    BY <2>1, StepFact, RestartFact DEF Next
<1>2. pending' \in Hash /\ Written'
  BY WriterStep
<1>3. rows' \in Hash /\ had' \in [Key -> SUBSET (Value \cup {NoValue})]
  <2>1. ASSUME NEW t \in Thread, Commit(t)
        PROVE  rows' \in Hash /\ had' \in [Key -> SUBSET (Value \cup {NoValue})]
    <3>1. th[t].key \in Key /\ pending[th[t].key] \in Value \cup {NoValue}
      BY DEF TypeOK, Hash
    <3>2. rows' = [rows EXCEPT ![th[t].key] = pending[th[t].key]]
          /\ had' = [had EXCEPT ![th[t].key] = @ \cup {pending[th[t].key]}]
      BY <2>1 DEF Commit
    <3>3. rows \in Hash /\ had \in [Key -> SUBSET (Value \cup {NoValue})]
      BY DEF TypeOK
    <3> QED
      BY <3>1, <3>2, <3>3 DEF Hash
  <2>2. CASE \A t \in Thread : ~Commit(t)
    BY <2>2 DEF Next, Step, Get, Copy, Fetch, Create, Query, Write, Look, Read, Find, Forget,
                Delete, Set, Rollback, Return, Restart, vars, TypeOK
  <2> QED
    BY <2>1, <2>2
<1>4. cache' \in [Process -> Hash \cup {Nil}]
  <2>0. cache \in [Process -> Hash \cup {Nil}] /\ file \in Hash \cup {Nil}
        /\ \A t \in Thread : Home[t] \in Process
    BY HomeAssumption DEF TypeOK
  <2>1. ASSUME NEW t \in Thread, Fetch(t) \/ Create(t) \/ Forget(t)
        PROVE  cache' \in [Process -> Hash \cup {Nil}]
    BY <2>0, <2>1, IdleFact DEF Fetch, Create, Forget
  <2>2. ASSUME NEW t \in Thread, NEW k \in Key, Copy(t, k)
        PROVE  cache' \in [Process -> Hash \cup {Nil}]
    <3> DEFINE h == [cache[Home[t]] EXCEPT ![k] = th[t].todo[k]]
    <3>1. CASE cache[Home[t]] # Nil
      <4>1. cache[Home[t]] \in Hash /\ th[t].todo \in Hash
        BY <2>0, <3>1 DEF TypeOK
      <4>2. h \in Hash
        BY <4>1 DEF Hash
      <4>3. cache' = [cache EXCEPT ![Home[t]] = h]
        BY <2>2, <3>1 DEF Copy
      <4> HIDE DEF h
      <4> QED
        BY <2>0, <4>2, <4>3
    <3> QED
      BY <2>0, <2>2, <3>1 DEF Copy
  <2>3. ASSUME NEW p \in Process, Restart(p)
        PROVE  cache' \in [Process -> Hash \cup {Nil}]
    BY <2>0, <2>3 DEF Restart
  <2>4. CASE UNCHANGED cache
    BY <2>0, <2>4
  <2> QED
    BY <2>1, <2>2, <2>3, <2>4 DEF Next, Step, Get, Query, Write, Look, Read, Find,
                Delete, Set, Commit, Rollback, Return, vars
<1>5. file' \in Hash \cup {Nil}
  <2>1. file \in Hash \cup {Nil} /\ \A t \in Thread : cache[Home[t]] \in Hash \cup {Nil}
    BY HomeAssumption DEF TypeOK
  <2> QED
    BY <2>1 DEF Next, Step, Get, Copy, Fetch, Create, Query, Write, Look, Read, Find, Forget,
                Delete, Set, Commit, Rollback, Return, Restart, vars
<1>6. saves' \in 0..MaxSaves
  <2>1. ASSUME NEW t \in Thread, NEW k \in Key, NEW v \in Value, Set(t, k, v)
        PROVE  saves' \in 0..MaxSaves
    BY <2>1, BoundAssumption DEF Set, TypeOK
  <2>2. CASE UNCHANGED saves
    BY <2>2 DEF TypeOK
  <2> QED
    BY <2>1, <2>2 DEF Next, Step, Get, Copy, Fetch, Create, Query, Write, Look, Read,
       Find, Forget, Delete, Commit, Rollback, Return, Restart, vars
<1> QED
  BY <1>1, <1>2, <1>3, <1>4, <1>5, <1>6 DEF TypeOK, ThType, Written

-----------------------------------------------------------------------------
(* What was committed.                                                     *)

LEMMA CommittedStep ==
  ASSUME IInv, [Next]_vars
  PROVE  AllCommitted'
<1> USE DEF IInv
<1>0. /\ rows \in Hash /\ pending \in Hash /\ had \in [Key -> SUBSET (Value \cup {NoValue})]
      /\ \A t \in Thread : th[t].key \in Key /\ th[t].todo \in Hash /\ Home[t] \in Process
      /\ cache \in [Process -> Hash \cup {Nil}]
  BY HomeAssumption DEF TypeOK
<1>1. \A k \in Key : had[k] \subseteq had'[k]
  <2>1. ASSUME NEW t \in Thread, Commit(t)
        PROVE  \A k \in Key : had[k] \subseteq had'[k]
    BY <1>0, <2>1 DEF Commit
  <2>2. CASE UNCHANGED had
    BY <2>2
  <2> QED
    BY <2>1, <2>2 DEF Next, Step, Get, Copy, Fetch, Create, Query, Write, Look, Read,
       Find, Forget, Delete, Set, Rollback, Return, Restart, vars
<1>2. ASSUME NEW h, Of(h)
      PROVE  \A k \in Key : h[k] # NoValue => h[k] \in had'[k]
  BY <1>1, <1>2 DEF Of
<1>3. \A k \in Key : rows'[k] # NoValue => rows'[k] \in had'[k]
  <2>1. ASSUME NEW t \in Thread, Commit(t)
        PROVE  \A k \in Key : rows'[k] # NoValue => rows'[k] \in had'[k]
    <3>1. \A k \in Key : /\ rows'[k] = IF k = th[t].key THEN pending[k] ELSE rows[k]
                         /\ k = th[t].key => had'[k] = had[k] \cup {pending[k]}
      BY <1>0, <2>1 DEF Commit, Hash
    <3> QED
      BY <1>2, <3>1 DEF AllCommitted
  <2>2. CASE UNCHANGED rows
    BY <1>2, <2>2 DEF AllCommitted
  <2> QED
    BY <2>1, <2>2 DEF Next, Step, Get, Copy, Fetch, Create, Query, Write, Look, Read,
       Find, Forget, Delete, Set, Rollback, Return, Restart, vars
<1>4. file' # Nil => \A k \in Key : file'[k] # NoValue => file'[k] \in had'[k]
  <2>1. file' \in {file, Nil} \/ \E t \in Thread : file' = cache[Home[t]]
    BY DEF Next, Step, Get, Copy, Fetch, Create, Query, Write, Look, Read,
       Find, Forget, Delete, Set, Commit, Rollback, Return, Restart, vars
  <2> QED
    BY <1>0, <1>2, <2>1 DEF AllCommitted
<1>5. ASSUME NEW p \in Process, cache'[p] # Nil
      PROVE  \A k \in Key : cache'[p][k] # NoValue => cache'[p][k] \in had'[k]
  <2>1. ASSUME NEW t \in Thread, NEW j \in Key, Copy(t, j), cache[Home[t]] # Nil, p = Home[t]
        PROVE  \A k \in Key : cache'[p][k] # NoValue => cache'[p][k] \in had'[k]
    <3>1. cache[p] \in Hash /\ cache' = [cache EXCEPT ![p] = [@ EXCEPT ![j] = th[t].todo[j]]]
      BY <1>0, <2>1 DEF Copy
    <3>2. \A k \in Key : cache'[p][k] = IF k = j THEN th[t].todo[j] ELSE cache[p][k]
      BY <1>0, <3>1 DEF Hash
    <3> QED
      BY <1>2, <2>1, <3>2 DEF AllCommitted
  <2>2. CASE cache'[p] \in {cache[p], file, Nil, Empty}
    BY <1>2, <1>5, <2>2, IdleFact DEF AllCommitted
  <2>3. ASSUME NEW t \in Thread, NEW j \in Key, Copy(t, j), cache[Home[t]] = Nil \/ p # Home[t]
        PROVE  cache'[p] = cache[p]
    BY <1>0, <2>3 DEF Copy
  <2>4. ASSUME NEW t \in Thread, Fetch(t) \/ Create(t) \/ Forget(t)
        PROVE  cache'[p] \in {cache[p], file, Nil, Empty}
    BY <1>0, <2>4 DEF Fetch, Create, Forget
  <2>5. ASSUME NEW q \in Process, Restart(q)
        PROVE  cache'[p] \in {cache[p], Nil}
    BY <1>0, <2>5 DEF Restart
  <2> QED
    BY <2>1, <2>2, <2>3, <2>4, <2>5 DEF Next, Step, Get, Query, Write, Look, Read, Find,
       Delete, Set, Commit, Rollback, Return, vars
<1>6. ASSUME NEW t \in Thread
      PROVE  /\ \A k \in Key : th'[t].todo[k] # NoValue => th'[t].todo[k] \in had'[k]
             /\ th'[t].value # NoValue => th'[t].value \in had'[th'[t].key]
  <2> DEFINE Good == /\ \A k \in Key : th'[t].todo[k] # NoValue => th'[t].todo[k] \in had'[k]
                     /\ th'[t].value # NoValue => th'[t].value \in had'[th'[t].key]
  <2>1. CASE th'[t] = th[t]
    BY <1>0, <1>1, <1>2, <2>1 DEF AllCommitted
  <2>2. CASE th'[t].todo = Empty /\ th'[t].value = NoValue
    BY <2>2, IdleFact
  <2>3. ASSUME NEW k \in Key, Get(t, k) \/ \E v \in Value : Set(t, k, v)
        PROVE  Good
    BY <2>2, <2>3, GetFact, SetFact
  <2>4. CASE Commit(t) \/ Rollback(t) \/ Return(t)
    BY <2>2, <2>4, EndFact, IdleFact DEF Commit, Rollback, Return
  <2>5. CASE Fetch(t) \/ Create(t) \/ Write(t) \/ Look(t) \/ Forget(t) \/ Delete(t)
    <3>1. th'[t].key = th[t].key /\ th'[t].todo = th[t].todo /\ th'[t].value = th[t].value
      BY <2>5, GotoFact DEF Fetch, Create, Write, Look, Forget, Delete
    <3> QED
      BY <1>0, <1>1, <1>2, <3>1 DEF AllCommitted
  <2>6. ASSUME NEW k \in Key, Copy(t, k)
        PROVE  Good
    <3>1. /\ th'[t].key = th[t].key /\ th'[t].value = th[t].value
          /\ \A j \in Key : th'[t].todo[j] # NoValue => th'[t].todo[j] = th[t].todo[j]
      BY <2>6, CopyFact
    <3> QED
      BY <1>0, <1>1, <1>2, <3>1 DEF AllCommitted
  <2>7. CASE Query(t)
    <3>1. th'[t].key = th[t].key /\ th'[t].todo = rows /\ th'[t].value = th[t].value
      BY <2>7, QueryFact
    <3> QED
      BY <1>0, <1>1, <1>2, <3>1 DEF AllCommitted
  <2>8. CASE Read(t)
    <3>1. /\ th'[t].key = th[t].key /\ th'[t].todo = th[t].todo
          /\ th'[t].value = IF cache[Home[t]] = Nil THEN NoValue ELSE cache[Home[t]][th[t].key]
      BY <2>8, ReadFact
    <3> QED
      BY <1>0, <1>1, <1>2, <3>1 DEF AllCommitted
  <2>9. CASE Find(t)
    <3>1. th'[t].key = th[t].key /\ th'[t].todo = th[t].todo /\ th'[t].value = rows[th[t].key]
      BY <2>9, FindFact
    <3> QED
      BY <1>0, <1>1, <1>2, <3>1 DEF AllCommitted
  <2>10. ASSUME NEW s \in Thread, Step(s)
         PROVE  Good
    <3>1. CASE s # t
      BY <2>1, <2>10, <3>1, StepFact
    <3>2. CASE s = t
      BY <2>3, <2>4, <2>5, <2>6, <2>7, <2>8, <2>9, <2>10, <3>2 DEF Step
    <3> QED
      BY <3>1, <3>2
  <2>11. ASSUME NEW p \in Process, Restart(p)
         PROVE  Good
    BY <2>1, <2>2, <2>11, RestartFact, IdleFact
  <2>12. CASE UNCHANGED vars
    BY <2>1, <2>12 DEF vars
  <2> QED
    BY <2>10, <2>11, <2>12 DEF Next
<1> QED
  BY <1>3, <1>4, <1>5, <1>6 DEF AllCommitted, Of

-----------------------------------------------------------------------------
(* A thread that is alone in its process.                                  *)

\* What AloneKeeps says of one thread.
Keeps(t) ==
  /\ th[t].at # "raised"
  /\ th[t].at \in {"query", "copy", "look", "read"} => cache[Home[t]] # Nil
  /\ th[t].at = "read" => cache[Home[t]][th[t].key] # NoValue

\* Its own steps find @@cache as the one before left it.
LEMMA OwnStep ==
  ASSUME IInv, NEW t \in Thread, Step(t), Keeps(t)
  PROVE  Keeps(t)'
<1> USE DEF IInv
<1>0. /\ cache \in [Process -> Hash \cup {Nil}] /\ Home[t] \in Process /\ Home' = Home
      /\ th[t].key \in Key
  BY HomeAssumption DEF TypeOK
<1>1. ASSUME NEW k \in Key, Get(t, k)
      PROVE  Keeps(t)'
  <2>1. UNCHANGED cache
    BY <1>1 DEF Get
  <2> QED
    BY <1>0, <1>1, <2>1, GetFact DEF Keeps
<1>2. ASSUME NEW k \in Key, Copy(t, k)
      PROVE  Keeps(t)'
  <2>1. cache[Home[t]] # Nil
    BY <1>2 DEF Copy, Keeps
  <2>2. th'[t].at = "copy"
    BY <1>2, <2>1, CopyFact
  <2> DEFINE h == [cache[Home[t]] EXCEPT ![k] = th[t].todo[k]]
  <2>3. h \in Hash
    <3>1. cache[Home[t]] \in Hash /\ th[t].todo \in Hash
      BY <1>0, <2>1 DEF TypeOK
    <3> QED
      BY <3>1 DEF Hash
  <2>4. cache' = [cache EXCEPT ![Home[t]] = h]
    BY <1>2, <2>1 DEF Copy
  <2> HIDE DEF h
  <2>5. cache'[Home[t]] # Nil
    BY <1>0, <2>3, <2>4, NilAssumption DEF Hash
  <2> QED
    BY <1>0, <2>2, <2>5 DEF Keeps
<1>3. CASE Fetch(t)
  BY <1>0, <1>3, GotoFact DEF Fetch, Keeps
<1>4. CASE Create(t)
  <2>1. Empty # Nil
    BY IdleFact, NilAssumption DEF Hash
  <2>2. cache'[Home[t]] # Nil
    BY <1>0, <1>4, <2>1 DEF Create
  <2>3. th'[t].at \in {"query", "look"}
    BY <1>4, GotoFact DEF Create
  <2> QED
    BY <1>0, <2>2, <2>3 DEF Keeps
<1>5. CASE Query(t)
  <2>1. UNCHANGED cache /\ th[t].at = "query"
    BY <1>5 DEF Query
  <2> QED
    BY <1>0, <1>5, <2>1, QueryFact DEF Keeps
<1>6. CASE Write(t)
  BY <1>0, <1>6, GotoFact DEF Write, Keeps
<1>7. CASE Look(t)
  <2> DEFINE c == cache[Home[t]]
             at == IF c = Nil THEN "raised" ELSE IF c[th[t].key] = NoValue THEN "find" ELSE "read"
  <2>1. UNCHANGED cache /\ c # Nil /\ Goto(t, at)
    BY <1>7 DEF Look, Keeps
  <2>2. th'[t].at = at /\ th'[t].key = th[t].key
    BY <2>1, GotoFact
  <2> QED
    BY <1>0, <2>1, <2>2 DEF Keeps
<1>8. CASE Read(t)
  <2>1. UNCHANGED cache /\ cache[Home[t]] # Nil
    BY <1>8 DEF Read, Keeps
  <2>2. th'[t].at = "done"
    BY <1>8, <2>1, ReadFact
  <2> QED
    BY <1>0, <2>2 DEF Keeps
<1>9. CASE Find(t)
  BY <1>0, <1>9, FindFact DEF Keeps
<1>10. CASE Forget(t) \/ Delete(t)
  BY <1>0, <1>10, GotoFact DEF Forget, Delete, Keeps
<1>11. CASE Commit(t) \/ Rollback(t) \/ Return(t)
  BY <1>0, <1>11, EndFact, IdleFact DEF Commit, Rollback, Return, Keeps
<1>12. ASSUME NEW k \in Key, NEW v \in Value, Set(t, k, v)
       PROVE  Keeps(t)'
  BY <1>0, <1>12, SetFact DEF Keeps
<1> QED
  BY <1>1, <1>2, <1>3, <1>4, <1>5, <1>6, <1>7, <1>8, <1>9, <1>10, <1>11, <1>12 DEF Step

\* The steps of the other processes leave it alone.
LEMMA OtherStep ==
  ASSUME IInv, NEW s \in Thread, Step(s), NEW t \in Thread, Home[s] # Home[t]
  PROVE  th'[t] = th[t] /\ cache'[Home[t]] = cache[Home[t]]
<1>1. th'[t] = th[t]
  BY StepFact DEF IInv
<1>2. cache \in [Process -> Hash \cup {Nil}] /\ Home[s] \in Process /\ Home[t] \in Process
  BY HomeAssumption DEF IInv, TypeOK
<1>3. CASE UNCHANGED cache
  BY <1>1, <1>3
<1>4. ASSUME NEW k \in Key, Copy(s, k)
      PROVE  cache'[Home[t]] = cache[Home[t]]
  BY <1>2, <1>4 DEF Copy
<1>5. CASE Fetch(s) \/ Create(s) \/ Forget(s)
  BY <1>1, <1>2, <1>5 DEF Fetch, Create, Forget
<1> QED
  BY <1>1, <1>3, <1>4, <1>5 DEF Step, Get, Query, Write, Look, Read, Find, Delete, Set, Commit,
     Rollback, Return

LEMMA AloneStep ==
  ASSUME IInv, [Next]_vars
  PROVE  AloneKeeps'
<1> SUFFICES ASSUME NEW t \in Thread, Alone(t)
             PROVE  Keeps(t)'
  BY DEF AloneKeeps, Keeps, Alone
<1>0. Keeps(t)
  BY DEF IInv, AloneKeeps, Keeps
<1>1. ASSUME NEW s \in Thread, Step(s)
      PROVE  Keeps(t)'
  <2>1. CASE s = t
    BY <1>0, <1>1, <2>1, OwnStep
  <2>2. CASE s # t
    <3>1. Home[s] # Home[t]
      BY <2>2 DEF Alone
    <3>2. th'[t] = th[t] /\ cache'[Home[t]] = cache[Home[t]]
      BY <1>1, <3>1, OtherStep
    <3> QED
      BY <1>0, <3>2 DEF Keeps
  <2> QED
    BY <2>1, <2>2
<1>2. ASSUME NEW p \in Process, Restart(p)
      PROVE  Keeps(t)'
  <2>1. CASE Home[t] = p
    BY <1>2, <2>1, RestartFact, IdleFact DEF Keeps, IInv
  <2>2. CASE Home[t] # p
    <3>1. th'[t] = th[t] /\ cache'[Home[t]] = cache[Home[t]]
      BY <1>2, <2>2, RestartFact, HomeAssumption DEF Restart, IInv, TypeOK
    <3> QED
      BY <1>0, <3>1 DEF Keeps
  <2> QED
    BY <2>1, <2>2
<1>3. CASE UNCHANGED vars
  BY <1>0, <1>3 DEF vars, Keeps
<1> QED
  BY <1>1, <1>2, <1>3 DEF Next

-----------------------------------------------------------------------------
(* The theorems.                                                           *)

LEMMA InitIInv == Init => IInv
<1> SUFFICES ASSUME Init
             PROVE  IInv
  OBVIOUS
<1>1. \A t \in Thread : th[t] = Idle
  BY DEF Init
<1>2. TypeOK
  BY <1>1, IdleFact, ValueAssumption, BoundAssumption DEF Init, TypeOK, ThType, Hash
<1>3. OneWriter /\ Committers
  BY <1>1, IdleFact DEF OneWriter, Committers
<1>4. AllCommitted
  <2>1. Of(rows)
    BY DEF Init, Of
  <2>2. file = Nil /\ \A p \in Process : cache[p] = Nil
    BY DEF Init
  <2>3. ASSUME NEW t \in Thread
        PROVE  Of(th[t].todo) /\ th[t].value = NoValue
    BY <1>1, IdleFact DEF Of
  <2> QED
    BY <2>1, <2>2, <2>3 DEF AllCommitted
<1>5. AloneKeeps
  BY <1>1, IdleFact DEF AloneKeeps
<1> QED
  BY <1>2, <1>3, <1>4, <1>5 DEF IInv

LEMMA Inductive == Spec => []IInv
<1>1. IInv /\ [Next]_vars => IInv'
  BY TypeStep, WriterStep, CommitStep, CommittedStep, AloneStep DEF IInv
<1> QED
  BY InitIInv, <1>1, PTL DEF Spec

\* Type correctness of the three copies of the settings, for any number of
\* processes, threads and keys; the row a save has written stays written
\* until its transaction ends.
THEOREM TypeCorrect == Spec => []TypeOK
<1>1. IInv => TypeOK
  BY DEF IInv
<1> QED
  BY Inductive, <1>1, PTL

\* However get, invalidate_cache and saves that are committed or rolled back
\* interleave, no copy and no answer has a value that was never committed.
THEOREM OnlyCommitted == Spec => []CommittedOnly
<1>1. IInv => CommittedOnly
  BY DEF IInv, AllCommitted, CommittedOnly
<1> QED
  BY Inductive, <1>1, PTL

\* In a process with one thread Configuration.get never finds @@cache nil,
\* whatever the other processes save and whenever they restart.
THEOREM AloneNeverRaise == Spec => []AloneNeverRaises
<1>1. IInv => AloneNeverRaises
  BY DEF IInv, AloneKeeps, AloneNeverRaises
<1> QED
  BY Inductive, <1>1, PTL
=============================================================================
