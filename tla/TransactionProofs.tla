-------------------------- MODULE TransactionProofs --------------------------
(***************************************************************************)
(* Unique transaction ids for any number of threads and objects, from an   *)
(* invariant that follows an id from the counter to the object.            *)
(***************************************************************************)
EXTENDS Transactions, TLAPS

\* Threads that have an id and have not put it in their object yet
HasId(t) == pc[t] \in {"unlock", "fill"}

\* Between reading and writing the counter nobody else changes it; every id
\* handed out is below the counter, and is in one object or on its way there
IdFlow ==
    /\ \A t \in Threads : pc[t] = "write" => temp[t] = g_next_txn_id
    /\ \A t \in Threads : HasId(t) => temp[t] < g_next_txn_id
    /\ \A o \in Objects : Begun(o) => heap[o].id < g_next_txn_id
    /\ \A t, u \in Threads : (HasId(t) /\ HasId(u) /\ temp[t] = temp[u]) => t = u
    /\ \A t \in Threads, o \in Objects : (HasId(t) /\ Begun(o)) => heap[o].id # temp[t]

TInv == TransactionTypeOK /\ IdFlow /\ TxnIdsUnique

\* No transaction and no id yet: the invariant holds at the start.
LEMMA InitInv == TInit => TInv
  BY TransactionConstants
  DEF TInit, TInv, TransactionTypeOK, IdFlow, TxnIdsUnique, HasId, Begun, Free, Holding,
      Beginning, Ending

\* malloc returns an object nobody uses, and gives out no id.
LEMMA AllocateInv == TInv /\ (\E t \in Threads : Allocate(t)) => TInv'
  <1> SUFFICES ASSUME TInv, NEW t \in Threads, Allocate(t) PROVE TInv'
    OBVIOUS
  <1> USE DEF TInv, Allocate, Goto
  <1>1. TransactionTypeOK'
    BY TransactionConstants DEF TransactionTypeOK, Holding, Beginning, Ending, Begun
  <1>2. \A o \in Objects : Begun(o)' => Begun(o) /\ heap'[o].id = heap[o].id
    BY DEF TransactionTypeOK, Begun
  <1>3. \A u \in Threads : (HasId(u)' => HasId(u)) /\ (pc'[u] = "write" => pc[u] = "write")
    BY DEF TransactionTypeOK, HasId
  <1>4. IdFlow'
    BY <1>2, <1>3 DEF IdFlow, TransactionTypeOK
  <1>5. TxnIdsUnique'
    BY <1>2 DEF TxnIdsUnique
  <1> QED BY <1>1, <1>4, <1>5

\* Taking, holding and releasing the mutex, one thread at a time; the counter
\* is written back by the thread that read it.
LEMMA CounterInv ==
    TInv /\ (\E t \in Threads : Lock(t) \/ GenerateId(t)) => TInv'
  <1> SUFFICES ASSUME TInv, NEW t \in Threads, Lock(t) \/ GenerateId(t) PROVE TInv'
    OBVIOUS
  <1> USE DEF TInv, Goto
  <1>1. TransactionTypeOK'
    <2>1. CASE Lock(t)
      BY <2>1, TransactionConstants DEF TransactionTypeOK, Holding, Beginning, Ending, Begun, Lock
    <2>2. CASE ReadId(t)
      BY <2>2, TransactionConstants DEF TransactionTypeOK, Holding, Beginning, Ending, Begun, ReadId
    <2>3. CASE WriteId(t)
      BY <2>3, TransactionConstants DEF TransactionTypeOK, Holding, Beginning, Ending, Begun, WriteId
    <2>4. CASE Unlock(t)
      BY <2>4, TransactionConstants DEF TransactionTypeOK, Holding, Beginning, Ending, Begun, Unlock
    <2> QED BY <2>1, <2>2, <2>3, <2>4 DEF GenerateId
  <1>2. heap' = heap
    BY DEF Lock, GenerateId, ReadId, WriteId, Unlock
  <1>3. TxnIdsUnique'
    BY <1>2 DEF TxnIdsUnique, Begun
  <1>4. IdFlow'
    <2> USE <1>2 DEF IdFlow, HasId, Begun, TransactionTypeOK, Holding
    <2>1. CASE Lock(t)
      BY <2>1, TransactionConstants DEF Lock
    <2>2. CASE ReadId(t)
      BY <2>2, TransactionConstants DEF ReadId
    <2>3. CASE WriteId(t)
      <3>1. g_next_txn_id' = g_next_txn_id + 1 /\ temp[t] = g_next_txn_id
        BY <2>3 DEF WriteId
      <3>2. \A u \in Threads : pc'[u] = "write" => FALSE
        BY <2>3, TransactionConstants DEF WriteId
      <3>3. \A u \in Threads : (HasId(u)' /\ u # t) => HasId(u)
        BY <2>3 DEF WriteId
      <3> QED BY <2>3, <3>1, <3>2, <3>3 DEF WriteId
    <2>4. CASE Unlock(t)
      BY <2>4, TransactionConstants DEF Unlock
    <2> QED BY <2>1, <2>2, <2>3, <2>4 DEF GenerateId
  <1> QED BY <1>1, <1>3, <1>4

\* The id of a thread goes to its object, which no other thread is filling.
LEMMA FillInv == TInv /\ (\E t \in Threads : Fill(t)) => TInv'
  <1> SUFFICES ASSUME TInv, NEW t \in Threads, Fill(t) PROVE TInv'
    OBVIOUS
  <1> USE DEF TInv, Fill, Goto
  <1>1. TransactionTypeOK'
    BY TransactionConstants DEF TransactionTypeOK, Holding, Beginning, Ending, Begun
  <1>2. \A o \in Objects : o # txn[t] => heap'[o] = heap[o]
    BY DEF TransactionTypeOK
  <1>3. heap'[txn[t]].id = temp[t] /\ HasId(t) /\ ~Begun(txn[t])
    BY DEF TransactionTypeOK, HasId, Begun, Beginning
  <1>4. \A u \in Threads : (HasId(u)' => HasId(u) /\ u # t) /\ (pc'[u] = "write" => pc[u] = "write")
    BY DEF TransactionTypeOK, HasId
  <1>5. \A o \in Objects : o # txn[t] => (Begun(o)' <=> Begun(o))
    BY <1>2 DEF Begun
  <1>6. IdFlow'
    BY <1>2, <1>3, <1>4, <1>5 DEF IdFlow, TransactionTypeOK
  <1>7. TxnIdsUnique'
    BY <1>2, <1>3, <1>5 DEF TxnIdsUnique, IdFlow
  <1> QED BY <1>1, <1>6, <1>7

\* Finding a transaction active changes nothing but where the thread is.
LEMMA TestInv ==
    TInv /\ (\E t \in Threads, o \in Objects :
                TestActive(t, o, "commit") \/ TestActive(t, o, "rollback")) => TInv'
  <1> SUFFICES ASSUME TInv, NEW t \in Threads, NEW o \in Objects,
                      TestActive(t, o, "commit") \/ TestActive(t, o, "rollback")
               PROVE  TInv'
    OBVIOUS
  <1> USE DEF TInv, TestActive, Goto
  <1>1. TransactionTypeOK'
    <2>1. /\ UNCHANGED <<g_next_txn_id, mutex, temp, heap>>
          /\ txn' = [txn EXCEPT ![t] = o]
          /\ Begun(o) /\ pc[t] = "idle"
          /\ pc' \in [Threads -> {"idle", "commit", "rollback"} \cup Beginning]
          /\ \A u \in Threads : u # t => pc'[u] = pc[u]
          /\ pc'[t] \in {"commit", "rollback"}
      BY DEF TransactionTypeOK
    <2>2. \A u \in Threads : /\ pc'[u] \in Beginning <=> pc[u] \in Beginning
                             /\ pc'[u] \in Holding <=> pc[u] \in Holding
                             /\ pc'[u] \in Beginning => txn'[u] = txn[u]
      BY <2>1 DEF Beginning, Holding, TransactionTypeOK
    <2>3. \A u \in Threads, p \in Objects : Ending(u, p)' => Begun(p)'
      BY <2>1 DEF Ending, Begun, TransactionTypeOK
    <2> HIDE DEF TestActive
    <2> QED BY <2>1, <2>2, <2>3 DEF TransactionTypeOK
  <1>2. \A u \in Threads : (HasId(u)' => HasId(u)) /\ (pc'[u] = "write" => pc[u] = "write")
    BY DEF TransactionTypeOK, HasId
  <1>3. IdFlow' /\ TxnIdsUnique'
    BY <1>2 DEF IdFlow, TxnIdsUnique, Begun
  <1> QED BY <1>1, <1>3

\* Setting the outcome or freeing a transaction hands out no id and changes
\* none that is still in use.
LEMMA EndInv ==
    TInv /\ \/ \E t \in Threads : SetState(t, "commit", "COMMITTED") \/ SetState(t, "rollback", "ABORTED")
            \/ \E o \in Objects : transaction_free(o)
    => TInv'
  <1> SUFFICES ASSUME TInv,
                      NEW o \in Objects,
                      \/ \E t \in Threads : /\ txn[t] = o
                                            /\ \/ SetState(t, "commit", "COMMITTED")
                                               \/ SetState(t, "rollback", "ABORTED")
                      \/ transaction_free(o)
               PROVE  TInv'
    BY DEF TInv, TransactionTypeOK
  <1> USE DEF TInv
  <1>1. /\ UNCHANGED <<g_next_txn_id, mutex, txn, temp>>
        /\ Begun(o)
        /\ \A p \in Objects : p # o => heap'[p] = heap[p]
        /\ heap' \in [Objects -> [state : {"free", "garbage", "ACTIVE", "COMMITTED", "ABORTED"}, id : Nat]]
        /\ Begun(o)' => heap'[o].id = heap[o].id
        /\ pc' \in [Threads -> {"idle", "commit", "rollback"} \cup Beginning]
        /\ \A u \in Threads : pc'[u] # pc[u] => pc[u] \in {"commit", "rollback"} /\ pc'[u] = "idle"
        /\ \A u \in Threads : Ending(u, o)' => Ending(u, o) /\ Begun(o)'
    <2>1. CASE transaction_free(o)
      BY <2>1 DEF transaction_free, TransactionTypeOK, Begun, Free, Ending
    <2>2. CASE \E t \in Threads : txn[t] = o /\ SetState(t, "commit", "COMMITTED")
      BY <2>2 DEF SetState, Goto, TransactionTypeOK, Begun, Ending
    <2>3. CASE \E t \in Threads : txn[t] = o /\ SetState(t, "rollback", "ABORTED")
      BY <2>3 DEF SetState, Goto, TransactionTypeOK, Begun, Ending
    <2> QED BY <2>1, <2>2, <2>3
  <1>2. \A t \in Threads : pc[t] \in Beginning => txn[t] # o
    BY <1>1 DEF TransactionTypeOK, Begun
  <1>3. \A u \in Threads : /\ pc'[u] \in Beginning <=> pc[u] \in Beginning
                           /\ pc'[u] \in Holding <=> pc[u] \in Holding
                           /\ HasId(u)' <=> HasId(u)
                           /\ pc'[u] = "write" <=> pc[u] = "write"
    BY <1>1 DEF Beginning, Holding, HasId
  <1>4. \A p \in Objects : Begun(p)' => Begun(p) /\ heap'[p].id = heap[p].id
    BY <1>1 DEF Begun
  <1>5. \A t \in Threads, p \in Objects : Ending(t, p)' => Begun(p)'
    BY <1>1 DEF Ending, TransactionTypeOK, Begun
  <1>6. TransactionTypeOK'
    BY <1>1, <1>2, <1>3, <1>5 DEF TransactionTypeOK
  <1>7. IdFlow' /\ TxnIdsUnique'
    BY <1>1, <1>3, <1>4 DEF IdFlow, TxnIdsUnique
  <1> QED BY <1>6, <1>7

\* Every step keeps the invariant.
LEMMA StepInv == TInv /\ [TNext]_tvars => TInv'
  <1> SUFFICES ASSUME TInv, [TNext]_tvars PROVE TInv'
    OBVIOUS
  <1>1. CASE UNCHANGED tvars
    BY <1>1 DEF tvars, TInv, TransactionTypeOK, IdFlow, TxnIdsUnique, HasId, Begun, Ending
  <1>2. CASE TNext
    BY <1>2, AllocateInv, CounterInv, FillInv, TestInv, EndInv
       DEF TNext, transaction_commit, transaction_rollback
  <1> QED BY <1>1, <1>2

\* transaction_begin gives transactions that are in use at the same time
\* different ids, for any number of threads and up to the width of the id.
THEOREM TransactionIdsUnique == TSpec => []TxnIdsUnique
  <1>1. TInv => TxnIdsUnique
    BY DEF TInv
  <1> QED BY <1>1, InitInv, StepInv, PTL DEF TSpec

\* The mutex is held by exactly one thread at a time, and no object is being
\* filled by two calls of transaction_begin.
THEOREM TransactionTypes == TSpec => []TransactionTypeOK
  <1>1. TInv => TransactionTypeOK
    BY DEF TInv
  <1> QED BY <1>1, InitInv, StepInv, PTL DEF TSpec

\* Once every call that found a transaction active is over, its outcome is
\* final, whatever calls follow, and its id never changes.
THEOREM OutcomesFinal == TSpec => OutcomeFinal
  <1> DEFINE A == \A o \in Objects : Begun(o) =>
                    \/ heap'[o] = Free
                    \/ /\ heap'[o].id = heap[o].id
                       /\ Settled(o) => Settled(o)' /\ heap'[o] = heap[o]
  <1>1. TInv /\ [TNext]_tvars => [A]_tvars
    <2> SUFFICES ASSUME TInv, TNext, NEW o \in Objects, Begun(o)
                 PROVE  \/ heap'[o] = Free
                        \/ /\ heap'[o].id = heap[o].id
                           /\ Settled(o) => Settled(o)' /\ heap'[o] = heap[o]
      OBVIOUS
    <2> USE DEF TInv, TransactionTypeOK, Begun, Goto, Settled, Ending
    <2>1. CASE \E t \in Threads : Allocate(t)
      BY <2>1 DEF Allocate
    <2>2. CASE \E t \in Threads : Lock(t) \/ GenerateId(t)
      BY <2>2 DEF Lock, GenerateId, ReadId, WriteId, Unlock
    <2>3. CASE \E t \in Threads : Fill(t)
      BY <2>3 DEF Fill, Beginning
    <2>4. CASE \E t \in Threads : transaction_commit(t)
      BY <2>4 DEF transaction_commit, TestActive, SetState
    <2>5. CASE \E t \in Threads : transaction_rollback(t)
      BY <2>5 DEF transaction_rollback, TestActive, SetState
    <2>6. CASE \E p \in Objects : transaction_free(p)
      BY <2>6 DEF transaction_free
    <2> QED BY <2>1, <2>2, <2>3, <2>4, <2>5, <2>6 DEF TNext
  <1> HIDE DEF A
  <1>2. TSpec => [][A]_tvars
    BY <1>1, InitInv, StepInv, PTL DEF TSpec
  <1> QED BY <1>2 DEF A, OutcomeFinal
=============================================================================
