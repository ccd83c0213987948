------------------------------ MODULE TxManager ------------------------------
(***************************************************************************)
(* The transaction manager (transaction/manager.go): clients beginning,    *)
(* committing and rolling back transactions under the one isolation lock   *)
(* txLock, and a monitor calling GetTransactionStats.                      *)
(*                                                                         *)
(* txLock is a Go sync.RWMutex, modelled by its documented behaviour:      *)
(* Lock first takes the writers' mutex w (rwW) and thereby blocks new      *)
(* readers, then waits for the readers already inside to leave; Unlock     *)
(* admits every reader that blocked meanwhile before another writer can    *)
(* announce itself.  The counters are atomic.Uint64, scaled down to        *)
(* CounterWidth bits; they wrap, as Go's do.                               *)
(*                                                                         *)
(* Commit and Rollback (TransactionImpl) are not among the sources; they   *)
(* are modelled from spec 4.6 and 5: claim the transaction by clearing     *)
(* tx.active (a compare-and-swap), then release the lock the transaction   *)
(* holds, as hasReadLock/hasWriteLock record it, and count it completed or *)
(* aborted.  The registry rolls back a transaction whose TTL (set in       *)
(* BeginTransaction by its mode) expired, concurrently with its client;    *)
(* spec 5 requires that rollback to be idempotent.                         *)
(***************************************************************************)
EXTENDS Naturals, FiniteSets

CONSTANTS
  Clients,       \* goroutines using transactions
  CounterWidth,  \* width of txStarted, txCompleted, txAborted
  None

Word == 2^CounterWidth
Counter == 0..(Word - 1)

\* A client's place in the transaction life cycle.
States == {"idle", "waitR", "waitW", "drain", "ro", "rw"}

\* Who ends a transaction: its client, or the registry's TTL cleanup.
Enders == {"client", "registry"}

VARIABLES
  state,        \* per client, see States
  mode,         \* per client, "ReadOnly" or "ReadWrite" of its transaction
  readers,      \* clients inside txLock's read side
  rwW,          \* client holding txLock's writer mutex, or None
  txStarted, txCompleted, txAborted,
  monPC,        \* GetTransactionStats: "started", "completed", "aborted"
  loaded,       \* values it has loaded so far
  txActive,     \* the last tx_active it reported, or None
  active,       \* per client, its transaction's tx.active
  ending,       \* per client, the enders between claim and release
  endKind,      \* per client, "Commit" or "Rollback" chosen by the client
  putting       \* clients inside a storage put, on txLock's read side

vars == <<state, mode, readers, rwW, txStarted, txCompleted, txAborted,
          monPC, loaded, txActive, active, ending, endKind, putting>>

txVars == <<active, ending, endKind, putting>>

Inc(x) == (x + 1) % Word

-----------------------------------------------------------------------------
(* sync.RWMutex                                                           *)

\* RLock: enter unless a writer holds or waits on w, else block.
RLock(c) ==
  IF rwW = None THEN [readers |-> readers \cup {c}, state |-> "ro"]
                ELSE [readers |-> readers, state |-> "waitR"]

\* Lock, first half: take w (blocking new readers) or queue on it.
LockW(c) == IF rwW = None THEN [rwW |-> c, state |-> "drain"]
                          ELSE [rwW |-> rwW, state |-> "waitW"]

\* A writer queued on w takes it when it is free (Go's mutex hands it
\* over to a starving waiter, so no waiter is passed over forever).
AcquireW(c) ==
  /\ state[c] = "waitW"
  /\ rwW = None
  /\ rwW' = c
  /\ state' = [state EXCEPT ![c] = "drain"]
  /\ UNCHANGED <<mode, readers, txStarted, txCompleted, txAborted,
                 monPC, loaded, txActive, txVars>>

\* Lock, second half: the readers that were inside have all left.
Drained(c) ==
  /\ state[c] = "drain"
  /\ readers = {}
  /\ state' = [state EXCEPT ![c] = "rw"]
  /\ UNCHANGED <<mode, readers, rwW, txStarted, txCompleted, txAborted,
                 monPC, loaded, txActive, txVars>>

-----------------------------------------------------------------------------
\* Mutant: the lock chosen for the opposite mode.
BeginTransactionInverted(c, readOnly) ==
  /\ state[c] = "idle"
  /\ ending[c] = {}
  /\ txStarted' = Inc(txStarted)
  /\ mode' = [mode EXCEPT ![c] = IF readOnly THEN "ReadOnly" ELSE "ReadWrite"]
  /\ IF ~readOnly
       THEN LET r == RLock(c) IN
            /\ readers' = r.readers
            /\ state' = [state EXCEPT ![c] = r.state]
            /\ UNCHANGED rwW
       ELSE LET w == LockW(c) IN
            /\ rwW' = w.rwW
            /\ state' = [state EXCEPT ![c] = w.state]
            /\ UNCHANGED readers
  /\ active' = [active EXCEPT ![c] = TRUE]
  /\ UNCHANGED <<txCompleted, txAborted, monPC, loaded, txActive, ending, endKind,
                 putting>>

(***************************************************************************)
(* BeginTransaction(readOnly): txStarted.Add(1), then RLock for a         *)
(* read-only transaction, Lock for a read-write one.                       *)
(***************************************************************************)
BeginTransaction(c, readOnly) ==
  /\ state[c] = "idle"
  /\ ending[c] = {}
  /\ txStarted' = Inc(txStarted)
  /\ mode' = [mode EXCEPT ![c] = IF readOnly THEN "ReadOnly" ELSE "ReadWrite"]
  /\ IF readOnly
       THEN LET r == RLock(c) IN
            /\ readers' = r.readers
            /\ state' = [state EXCEPT ![c] = r.state]
            /\ UNCHANGED rwW
       ELSE LET w == LockW(c) IN
            /\ rwW' = w.rwW
            /\ state' = [state EXCEPT ![c] = w.state]
            /\ UNCHANGED readers
  /\ active' = [active EXCEPT ![c] = TRUE]
  /\ UNCHANGED <<txCompleted, txAborted, monPC, loaded, txActive, ending, endKind,
                 putting>>

\* Mutant: a read-only transaction ends without RUnlock.
ReleaseLeakRead(c) ==
  IF state[c] = "ro"
    THEN /\ UNCHANGED readers
         /\ state' = [state EXCEPT ![c] = "idle"]
         /\ UNCHANGED rwW
    ELSE LET blocked == {d \in Clients : state[d] = "waitR"} IN
         /\ readers' = readers \cup blocked
         /\ state' = [d \in Clients |->
                        CASE d = c        -> "idle"
                          [] d \in blocked -> "ro"
                          [] OTHER        -> state[d]]
         /\ rwW' = None

\* Release the lock held: RUnlock, or Unlock which admits the blocked
\* readers and frees w.
Release(c) ==
  IF state[c] = "ro"
    THEN /\ readers' = readers \ {c}
         /\ state' = [state EXCEPT ![c] = "idle"]
         /\ UNCHANGED rwW
    ELSE LET blocked == {d \in Clients : state[d] = "waitR"} IN
         /\ readers' = readers \cup blocked
         /\ state' = [d \in Clients |->
                        CASE d = c        -> "idle"
                          [] d \in blocked -> "ro"
                          [] OTHER        -> state[d]]
         /\ rwW' = None

(***************************************************************************)
(* Commit or Rollback starts: tx.active is swapped from true to false, so  *)
(* of the client and the registry only one gets past it; the other gets    *)
(* ErrTransactionClosed and changes nothing.  A Commit then applies its    *)
(* write set (not modelled) before it releases.                            *)
(***************************************************************************)
Claim(c, who, kind) ==
  /\ state[c] \in {"ro", "rw"}
  /\ active[c]
  /\ active' = [active EXCEPT ![c] = FALSE]
  /\ ending' = [ending EXCEPT ![c] = @ \cup {who}]
  /\ endKind' = [endKind EXCEPT ![c] = kind]
  /\ UNCHANGED <<state, mode, readers, rwW, txStarted, txCompleted, txAborted,
                 monPC, loaded, txActive, putting>>

(***************************************************************************)
(* releaseLock, then IncrementTxCompleted or IncrementTxAborted.  The lock *)
(* is released only if hasReadLock or hasWriteLock (stored by              *)
(* BeginTransaction once it holds the lock) is still set, and the flag is  *)
(* cleared with it; tx.active ends false.                                  *)
(***************************************************************************)
Finish(c, who) ==
  /\ who \in ending[c]
  /\ LET kind == IF who = "client" THEN endKind[c] ELSE "Rollback" IN
     /\ IF kind = "Commit"
          THEN txCompleted' = Inc(txCompleted) /\ UNCHANGED txAborted
          ELSE txAborted' = Inc(txAborted) /\ UNCHANGED txCompleted
  /\ IF state[c] \in {"ro", "rw"} THEN Release(c)
                                  ELSE UNCHANGED <<readers, state, rwW>>
  /\ active' = [active EXCEPT ![c] = FALSE]
  /\ ending' = [ending EXCEPT ![c] = @ \ {who}]
  /\ endKind' = [endKind EXCEPT ![c] = IF who = "client" THEN "Commit" ELSE @]
  /\ UNCHANGED <<mode, txStarted, monPC, loaded, txActive, putting>>

(***************************************************************************)
(* The storage manager's put and delete (not among the sources) take the  *)
(* read side of txLock, obtained through GetRWLock, around their append   *)
(* and insert (spec 4.5), and RUnlock it when they return.  They begin no *)
(* transaction and touch no counter.                                       *)
(***************************************************************************)
StoragePut(c) ==
  /\ state[c] = "idle"
  /\ ending[c] = {}
  /\ LET r == RLock(c) IN
     /\ readers' = r.readers
     /\ state' = [state EXCEPT ![c] = r.state]
  /\ mode' = [mode EXCEPT ![c] = "ReadOnly"]
  /\ putting' = putting \cup {c}
  /\ UNCHANGED <<rwW, txStarted, txCompleted, txAborted, monPC, loaded,
                 txActive, active, ending, endKind>>

StoragePutDone(c) ==
  /\ c \in putting
  /\ state[c] = "ro"
  /\ Release(c)
  /\ putting' = putting \ {c}
  /\ UNCHANGED <<mode, txStarted, txCompleted, txAborted, monPC, loaded,
                 txActive, active, ending, endKind>>

(***************************************************************************)
(* GetTransactionStats: active := txStarted.Load() - txCompleted.Load() -  *)
(* txAborted.Load(), three separate atomic loads in that order, uint64     *)
(* subtraction.                                                            *)
(***************************************************************************)
LoadStarted ==
  /\ monPC = "started"
  /\ loaded' = [loaded EXCEPT !.started = txStarted]
  /\ monPC' = "completed"
  /\ UNCHANGED <<state, mode, readers, rwW, txStarted, txCompleted, txAborted,
                 txActive, txVars>>

LoadCompleted ==
  /\ monPC = "completed"
  /\ loaded' = [loaded EXCEPT !.completed = txCompleted]
  /\ monPC' = "aborted"
  /\ UNCHANGED <<state, mode, readers, rwW, txStarted, txCompleted, txAborted,
                 txActive, txVars>>

LoadAborted ==
  /\ monPC = "aborted"
  /\ txActive' = (loaded.started - loaded.completed - txAborted) % Word
  /\ monPC' = "started"
  /\ UNCHANGED <<state, mode, readers, rwW, txStarted, txCompleted, txAborted,
                 loaded, txVars>>

GetTransactionStats == LoadStarted \/ LoadCompleted \/ LoadAborted

-----------------------------------------------------------------------------
\* NewManager: counters zero, txLock unlocked.
Init ==
  /\ state = [c \in Clients |-> "idle"]
  /\ mode = [c \in Clients |-> "ReadOnly"]
  /\ readers = {}
  /\ rwW = None
  /\ txStarted = 0 /\ txCompleted = 0 /\ txAborted = 0
  /\ monPC = "started"
  /\ loaded = [started |-> 0, completed |-> 0]
  /\ txActive = None
  /\ active = [c \in Clients |-> FALSE]
  /\ ending = [c \in Clients |-> {}]
  /\ endKind = [c \in Clients |-> "Commit"]
  /\ putting = {}

Next ==
  \/ \E c \in Clients, ro \in BOOLEAN : BeginTransaction(c, ro)
  \/ \E c \in Clients : AcquireW(c) \/ Drained(c)
  \/ \E c \in Clients, kind \in {"Commit", "Rollback"} : Claim(c, "client", kind)
  \/ \E c \in Clients : Claim(c, "registry", "Rollback")
  \/ \E c \in Clients, who \in Enders : Finish(c, who)
  \/ \E c \in Clients : StoragePut(c) \/ StoragePutDone(c)
  \/ GetTransactionStats

(***************************************************************************)
(* Fairness.  A transaction that holds txLock ends: the client commits or  *)
(* rolls back, or the registry rolls it back when its TTL expires; an end  *)
(* once claimed runs to its release, and a put inside the lock returns    *)
(* (append and insert are straight-line code).  The lock's own hand-offs   *)
(* are weakly fair, and a writer waiting on w is strongly fair (Go's mutex *)
(* starvation mode).                                                       *)
(***************************************************************************)
Fairness ==
  \A c \in Clients :
    /\ WF_vars(\E who \in Enders, kind \in {"Commit", "Rollback"} : Claim(c, who, kind))
    /\ \A who \in Enders : WF_vars(Finish(c, who))
    /\ WF_vars(StoragePutDone(c))
    /\ WF_vars(Drained(c))
    /\ SF_vars(AcquireW(c))

Spec == Init /\ [][Next]_vars /\ Fairness

-----------------------------------------------------------------------------
TypeOK ==
  /\ state \in [Clients -> States]
  /\ mode \in [Clients -> {"ReadOnly", "ReadWrite"}]
  /\ readers \subseteq Clients
  /\ rwW \in Clients \cup {None}
  /\ {txStarted, txCompleted, txAborted} \subseteq Counter
  /\ txActive \in Counter \cup {None}
  /\ active \in [Clients -> BOOLEAN]
  /\ ending \in [Clients -> SUBSET Enders]
  /\ endKind \in [Clients -> {"Commit", "Rollback"}]
  /\ putting \subseteq {c \in Clients : state[c] \in {"waitR", "ro"} /\ ~active[c]}
  \* the lock's state is the clients' view of it
  /\ readers = {c \in Clients : state[c] = "ro"}
  /\ rwW = None <=> \A c \in Clients : state[c] \notin {"drain", "rw"}

\* The refinement mapping: a client waits on txLock from BeginTransaction
\* until its RLock or Lock returns, and holds it until Commit or Rollback.
Lock == INSTANCE RWLock WITH
  waiting <- [c \in Clients |->
               IF state[c] \in {"waitR", "waitW", "drain"} THEN mode[c] ELSE "none"],
  holding <- [c \in Clients |->
               IF state[c] \in {"ro", "rw"} THEN mode[c] ELSE "none"]

(***************************************************************************)
(* BeginTransaction, Commit and Rollback over txLock implement the         *)
(* isolation lock of spec 4.6: a read-write transaction excludes every     *)
(* other transaction, and every BeginTransaction blocked on txLock returns *)
(* (the lock's fairness), although a Lock is two steps, a waiting writer   *)
(* blocks new readers, and one Unlock admits all blocked readers at once.  *)
(***************************************************************************)
IsolationLock == Lock!LSpec

(***************************************************************************)
(* tx_active, as GetTransactionStats reports it, is a number of            *)
(* transactions that were open, so never more than there are clients.     *)
(***************************************************************************)
ActiveStatBounded == txActive # None => txActive <= Cardinality(Clients)
=============================================================================
