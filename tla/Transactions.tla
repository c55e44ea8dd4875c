---------------------------- MODULE Transactions ----------------------------
(***************************************************************************)
(* The transaction objects of src/transaction.c, used by several threads.  *)
(* transaction_begin takes its id from a counter under g_txn_id_mutex, one *)
(* step per access to shared memory.  transaction_commit and _rollback     *)
(* test the state of a transaction without a lock and set it in a later    *)
(* step, whatever other threads did to it in between.  The operations of a *)
(* transaction are left out: no code adds one.                             *)
(***************************************************************************)
EXTENDS Integers

CONSTANTS
    Threads,
    Objects,  \* the addresses malloc may return
    MaxId     \* bound: ids handed out (2^31 - 1 before the int overflows)

ASSUME TransactionConstants == MaxId \in Nat /\ Threads \cap {"nobody"} = {}

VARIABLES
    g_next_txn_id,
    mutex,    \* the thread that holds g_txn_id_mutex, or "nobody"
    pc,       \* where each thread is in transaction_begin, _commit or _rollback
    txn,      \* the object it has allocated there, or was called with
    temp,     \* the value each thread has read from the counter
    heap      \* what each object holds: allocated, state, id

tvars == <<g_next_txn_id, mutex, pc, txn, temp, heap>>

Free == [state |-> "free", id |-> 0]

TInit ==
    /\ g_next_txn_id = 1
    /\ mutex = "nobody"
    /\ pc = [t \in Threads |-> "idle"]
    /\ txn \in [Threads -> Objects]
    /\ temp = [t \in Threads |-> 0]
    /\ heap = [o \in Objects |-> Free]

Goto(t, from, to) == pc[t] = from /\ pc' = [pc EXCEPT ![t] = to]

-----------------------------------------------------------------------------
\* transaction_begin: malloc, whose memory holds anything until it is filled
Allocate(t) ==
    /\ Goto(t, "idle", "lock")
    /\ \E o \in Objects :
          /\ heap[o].state = "free"
          /\ heap' = [heap EXCEPT ![o] = [state |-> "garbage", id |-> heap[o].id]]
          /\ txn' = [txn EXCEPT ![t] = o]
    /\ UNCHANGED <<g_next_txn_id, mutex, temp>>

\* Mutant: no mutex
Lock_Missing(t) == Goto(t, "lock", "read") /\ UNCHANGED <<g_next_txn_id, mutex, txn, temp, heap>>

\* generate_txn_id: pthread_mutex_lock ...
Lock(t) ==
    /\ Goto(t, "lock", "read")
    /\ mutex = "nobody"
    /\ mutex' = t
    /\ UNCHANGED <<g_next_txn_id, txn, temp, heap>>

\* ... g_next_txn_id++, which reads the counter and writes it ...
ReadId(t) ==
    /\ Goto(t, "read", "write")
    /\ g_next_txn_id <= MaxId
    /\ temp' = [temp EXCEPT ![t] = g_next_txn_id]
    /\ UNCHANGED <<g_next_txn_id, mutex, txn, heap>>

WriteId(t) ==
    /\ Goto(t, "write", "unlock")
    /\ g_next_txn_id' = temp[t] + 1
    /\ UNCHANGED <<mutex, txn, temp, heap>>

\* Mutant: the mutex is kept
Unlock_Missing(t) == Goto(t, "unlock", "fill") /\ UNCHANGED <<g_next_txn_id, mutex, txn, temp, heap>>

\* ... pthread_mutex_unlock
Unlock(t) ==
    /\ Goto(t, "unlock", "fill")
    /\ mutex' = "nobody"
    /\ UNCHANGED <<g_next_txn_id, txn, temp, heap>>

\* The rest of transaction_begin
Fill(t) ==
    /\ Goto(t, "fill", "idle")
    /\ heap' = [heap EXCEPT ![txn[t]] = [state |-> "ACTIVE", id |-> temp[t]]]
    /\ UNCHANGED <<g_next_txn_id, mutex, txn, temp>>

\* Objects transaction_begin has returned and nobody has freed
Begun(o) == heap[o].state \in {"ACTIVE", "COMMITTED", "ABORTED"}

\* Mutant: the state is not looked at
TestActive_Unchecked(t, o, from) ==
    /\ Begun(o)
    /\ Goto(t, "idle", from)
    /\ txn' = [txn EXCEPT ![t] = o]
    /\ UNCHANGED <<g_next_txn_id, mutex, temp, heap>>

\* The test of a commit or a rollback; a call whose transaction is not active
\* returns at once and changes nothing
TestActive(t, o, from) ==
    /\ Begun(o)
    /\ heap[o].state = "ACTIVE"
    /\ Goto(t, "idle", from)
    /\ txn' = [txn EXCEPT ![t] = o]
    /\ UNCHANGED <<g_next_txn_id, mutex, temp, heap>>

\* ... and the assignment at its end, which does not look again
SetState(t, from, state) ==
    /\ Goto(t, from, "idle")
    /\ heap' = [heap EXCEPT ![txn[t]] = [state |-> state, id |-> heap[txn[t]].id]]
    /\ UNCHANGED <<g_next_txn_id, mutex, txn, temp>>

transaction_commit(t) ==
    (\E o \in Objects : TestActive(t, o, "commit")) \/ SetState(t, "commit", "COMMITTED")

transaction_rollback(t) ==
    (\E o \in Objects : TestActive(t, o, "rollback")) \/ SetState(t, "rollback", "ABORTED")

\* Calls that have found o active and not yet set its state
Ending(t, o) == pc[t] \in {"commit", "rollback"} /\ txn[t] = o

\* In any state: an active transaction is neither committed nor rolled back.
\* Callers do not free a transaction that another call is working on.
transaction_free(o) ==
    /\ Begun(o)
    /\ \A t \in Threads : ~Ending(t, o)
    /\ heap' = [heap EXCEPT ![o] = Free]
    /\ UNCHANGED <<g_next_txn_id, mutex, pc, txn, temp>>

GenerateId(t) == ReadId(t) \/ WriteId(t) \/ Unlock(t)

TNext ==
    \/ \E t \in Threads : Allocate(t) \/ Lock(t) \/ GenerateId(t) \/ Fill(t)
    \/ \E t \in Threads : transaction_commit(t) \/ transaction_rollback(t)
    \/ \E o \in Objects : transaction_free(o)

\* A thread that is running keeps running; pthread mutexes are not fair, so
\* nothing is assumed of Lock
TSpec == TInit /\ [][TNext]_tvars /\ \A t \in Threads : WF_tvars(GenerateId(t))

-----------------------------------------------------------------------------
Holding == {"read", "write", "unlock"}

Beginning == {"lock", "fill"} \cup Holding

\* Types, the mutex is held by exactly the thread between lock and unlock, two
\* calls of transaction_begin never work on the same object, and a commit or
\* rollback under way works on an object that is not freed.
TransactionTypeOK ==
    /\ g_next_txn_id \in Nat \ {0}
    /\ mutex \in Threads \cup {"nobody"}
    /\ pc \in [Threads -> {"idle", "commit", "rollback"} \cup Beginning]
    /\ txn \in [Threads -> Objects]
    /\ temp \in [Threads -> Nat]
    /\ heap \in [Objects -> [state : {"free", "garbage", "ACTIVE", "COMMITTED", "ABORTED"}, id : Nat]]
    /\ \A t \in Threads : pc[t] \in Holding <=> mutex = t
    /\ \A t \in Threads : pc[t] \in Beginning => heap[txn[t]].state = "garbage"
    /\ \A t, u \in Threads :
         (pc[t] \in Beginning /\ pc[u] \in Beginning /\ txn[t] = txn[u]) => t = u
    /\ \A t \in Threads, o \in Objects : Ending(t, o) => Begun(o)

\* No two transactions that were begun and not freed have the same id,
\* whatever threads began them.
TxnIdsUnique ==
    \A o, p \in Objects : (Begun(o) /\ Begun(p) /\ heap[o].id = heap[p].id) => o = p

\* A transaction has an outcome, and every call that found it active is over
Settled(o) ==
    /\ heap[o].state \in {"COMMITTED", "ABORTED"}
    /\ \A t \in Threads : ~Ending(t, o)

\* A settled transaction stays settled with the same outcome until it is
\* freed, whatever calls follow, and no step changes the id of a transaction.
\* Before that an outcome is not final: of several commits and rollbacks that
\* find the transaction active, the last to assign decides.
OutcomeFinal ==
    [][\A o \in Objects : Begun(o) =>
         \/ heap'[o] = Free
         \/ /\ heap'[o].id = heap[o].id
            /\ Settled(o) => Settled(o)' /\ heap'[o] = heap[o]]_tvars

\* The thread that holds the mutex gives it back (until ids run out).
MutexReleased == \A t \in Threads : (mutex = t /\ g_next_txn_id <= MaxId) ~> mutex # t
=============================================================================
