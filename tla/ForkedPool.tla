------------------------------ MODULE ForkedPool ------------------------------
(***************************************************************************)
(* ClusterConnectionPool (rediscluster/connection.py) in a process that a  *)
(* fork has made: the child has a copy of the parent's pool, connections   *)
(* and lock included, and its threads find out in _checkpid, at the begin  *)
(* of get_connection_by_node and of release.  The one that finds out first *)
(* resets the pool, an attribute at a time, while the others go on.        *)
(*                                                                         *)
(* The connections of one node are modelled, without their limits, and a   *)
(* connection is taken from the list of the pool in one step.              *)
(***************************************************************************)
EXTENDS Integers, FiniteSets

CONSTANTS
    Thread,      \* threads of the child
    Conn,        \* connections, by their socket
    Inherited,   \* those the parent had made
    Parents,     \* what the pool has available at the fork
    HeldAtFork,  \* what the thread that forked holds; no other thread survives
    None

ASSUME ForkAssumption ==
    /\ Inherited \subseteq Conn /\ Parents \subseteq Inherited
    /\ None \notin Conn /\ None \notin Thread
    /\ HeldAtFork \in [Thread -> Inherited \cup {None}]

VARIABLES
    pid,         \* the pool's pid is the child's
    available, in_use,
    lock,        \* how many locks there have been: _check_lock is the last
    holder,      \* the thread that holds each lock
    disconnects, \* how often the pool was disconnected
    thread       \* where each thread is, with what, and in which lock

vars == <<pid, available, in_use, lock, holder, disconnects, thread>>

Used  == {thread[t].conn : t \in Thread} \ {None}

Init ==
    /\ pid = FALSE
    /\ available = Parents
    /\ in_use = {HeldAtFork[t] : t \in Thread} \ {None}
    /\ lock = 0
    /\ holder = [l \in 0 .. 2 |-> None]
    /\ disconnects = 0
    /\ thread = [t \in Thread |-> [pc |-> IF HeldAtFork[t] = None THEN "idle" ELSE "busy",
                                   conn |-> HeldAtFork[t], lock |-> 0]]

Goes(t, from, to) == thread[t].pc = from /\ thread' = [thread EXCEPT ![t].pc = to]

(* Where _checkpid returns to.                                             *)
Caller(t) == IF thread[t].conn = None THEN "pop" ELSE "put"

Pool == <<pid, available, in_use>>
Locks == <<lock, holder>>

-----------------------------------------------------------------------------
(* _checkpid and reset.                                                    *)

FirstCheck(t) ==
    /\ Goes(t, "check", IF pid THEN Caller(t) ELSE "lock")
    /\ UNCHANGED <<Pool, Locks, disconnects>>

FindLock(t) ==
    /\ thread[t].pc = "lock"
    /\ thread' = [thread EXCEPT ![t].pc = "wait", ![t].lock = lock]
    /\ UNCHANGED <<Pool, Locks, disconnects>>

Acquire(t) ==
    /\ Goes(t, "wait", "recheck")
    /\ holder[thread[t].lock] = None
    /\ holder' = [holder EXCEPT ![thread[t].lock] = t]
    /\ UNCHANGED <<Pool, lock, disconnects>>

(* Seeded bug: the work of another thread is done again.                   *)
NoSecondCheck(t) ==
    /\ Goes(t, "recheck", "disconnect")
    /\ UNCHANGED <<Pool, Locks, disconnects>>
SecondCheck(t) ==
    /\ Goes(t, "recheck", IF pid THEN "unlock" ELSE "disconnect")
    /\ UNCHANGED <<Pool, Locks, disconnects>>

Disconnect(t) ==
    /\ Goes(t, "disconnect", "reset_pid")
    /\ disconnects' = IF disconnects < 2 THEN disconnects + 1 ELSE 2
    /\ UNCHANGED <<Pool, Locks>>

ResetPid(t) ==
    /\ Goes(t, "reset_pid", "reset_available")
    /\ pid' = TRUE
    /\ UNCHANGED <<available, in_use, Locks, disconnects>>

(* Seeded bug: the list of the parent stays.                               *)
KeepAvailable(t) ==
    /\ Goes(t, "reset_available", "reset_inuse")
    /\ UNCHANGED <<Pool, Locks, disconnects>>
ResetAvailable(t) ==
    /\ Goes(t, "reset_available", "reset_inuse")
    /\ available' = {}
    /\ UNCHANGED <<pid, in_use, Locks, disconnects>>

ResetInUse(t) ==
    /\ Goes(t, "reset_inuse", "reset_lock")
    /\ in_use' = {}
    /\ UNCHANGED <<pid, available, Locks, disconnects>>

ResetLock(t) ==
    /\ Goes(t, "reset_lock", "unlock")
    /\ lock' = IF lock < 2 THEN lock + 1 ELSE 2
    /\ UNCHANGED <<Pool, holder, disconnects>>

(* The end of the with block, which has kept the lock that it acquired.    *)
(* Seeded bug: it releases the lock of the pool, which is another one now. *)
UnlockNew(t) ==
    /\ Goes(t, "unlock", Caller(t))
    /\ holder' = [holder EXCEPT ![lock] = None]
    /\ UNCHANGED <<Pool, lock, disconnects>>
Unlock(t) ==
    /\ Goes(t, "unlock", Caller(t))
    /\ holder' = [holder EXCEPT ![thread[t].lock] = None]
    /\ UNCHANGED <<Pool, lock, disconnects>>

-----------------------------------------------------------------------------
(* get_connection_by_node and release.                                     *)

Call(t) ==
    /\ Goes(t, "idle", "check") \/ Goes(t, "busy", "check")
    /\ UNCHANGED <<Pool, Locks, disconnects>>

Pop(t) ==
    /\ thread[t].pc = "pop"
    /\ \E c \in IF available # {} THEN available ELSE Conn \ (Inherited \cup Used \cup in_use) :
           /\ thread' = [thread EXCEPT ![t].pc = "record", ![t].conn = c]
           /\ available' = available \ {c}
    /\ UNCHANGED <<pid, in_use, Locks, disconnects>>

Record(t) ==
    /\ Goes(t, "record", "busy")
    /\ in_use' = in_use \cup {thread[t].conn}
    /\ UNCHANGED <<pid, available, Locks, disconnects>>

(* A connection of another process is dropped.  Seeded bug: it is not.     *)
Put(t, drops) ==
    LET c == thread[t].conn
    IN  /\ thread[t].pc = "put"
        /\ thread' = [thread EXCEPT ![t].pc = "idle", ![t].conn = None]
        /\ IF drops THEN UNCHANGED <<available, in_use>>
           ELSE available' = available \cup {c} /\ in_use' = in_use \ {c}
        /\ UNCHANGED <<pid, Locks, disconnects>>
ReleaseAll(t) == Put(t, FALSE)
Release(t)    == Put(t, thread[t].conn \in Inherited)

Step(t) ==
    \/ FirstCheck(t) \/ FindLock(t) \/ Acquire(t) \/ SecondCheck(t) \/ Disconnect(t)
    \/ ResetPid(t) \/ ResetAvailable(t) \/ ResetInUse(t) \/ ResetLock(t) \/ Unlock(t)
    \/ Pop(t) \/ Record(t) \/ Release(t)

Next == \E t \in Thread : Call(t) \/ Step(t)

Spec == Init /\ [][Next]_vars /\ \A t \in Thread : WF_vars(Step(t))

-----------------------------------------------------------------------------
(* Properties.                                                             *)

Label == {"idle", "busy", "check", "lock", "wait", "recheck", "disconnect", "reset_pid",
          "reset_available", "reset_inuse", "reset_lock", "unlock", "pop", "record", "put"}

(* The lock is replaced once, and a thread's connection is bound where it  *)
(* is used.                                                                *)
TypeOK ==
    /\ pid \in BOOLEAN /\ available \subseteq Conn /\ in_use \subseteq Conn
    /\ lock \in 0 .. 1 /\ disconnects \in 0 .. 2
    /\ holder \in [0 .. 2 -> Thread \cup {None}]
    /\ thread \in [Thread -> [pc : Label, conn : Conn \cup {None}, lock : 0 .. 1]]
    /\ \A t \in Thread : /\ thread[t].pc \in {"record", "busy", "put"} => thread[t].conn \in Conn
                         /\ thread[t].pc \in {"idle", "pop"} => thread[t].conn = None

(* The pool is disconnected and reset by one thread only: "another thread  *)
(* already did the work while we waited on the lock".                      *)
ResetOnce == disconnects <= 1

(* The only time at which a thread is given a connection of the parent is  *)
(* while another one is between setting the pid and replacing the list.    *)
InheritedOnlyInReset ==
    [][\A t \in Thread : thread[t].conn = None /\ thread'[t].conn \in Inherited
           => \E u \in Thread : thread[u].pc = "reset_available"]_vars

(* Nor is one there to be taken afterwards: those that were in use when    *)
(* the process forked, or were taken during the reset, are dropped.        *)
InheritedNotPooled ==
    pid /\ (\A t \in Thread : thread[t].pc # "reset_available") => available \cap Inherited = {}

(* No thread waits for ever, for the lock in particular.                   *)
Resting(t) == thread[t].pc \in {"idle", "busy"}
Terminates == \A t \in Thread : ~Resting(t) ~> Resting(t)

(* A child leaves the connections of its parent alone.                     *)
OwnSockets == \A t \in Thread : thread[t].conn \in Inherited => thread[t].conn = HeldAtFork[t]
=============================================================================
