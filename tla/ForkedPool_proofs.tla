--------------------------- MODULE ForkedPool_proofs ---------------------------
(***************************************************************************)
(* For any number of threads of the child: the pool is reset once, and a   *)
(* connection of the parent is taken, and kept, only during that reset.    *)
(***************************************************************************)
EXTENDS ForkedPool, TLAPS

(* Between entering and leaving the with block of _checkpid. *)
Inside == {"recheck", "disconnect", "reset_pid", "reset_available", "reset_inuse",
           "reset_lock", "unlock"}

(* Each lock admits one thread. *)
Mutex == \A t \in Thread : thread[t].pc \in Inside => holder[thread[t].lock] = t

(* Until the pid is set there is one lock, so one thread is on its way to  *)
(* set it; until the lock is replaced that thread is still inside; and who *)
(* has passed _checkpid has seen the pid.                                  *)
OneResets ==
    /\ ~pid => lock = 0 /\ \A t \in Thread : thread[t].lock = 0
    /\ \A t \in Thread :
          /\ thread[t].pc = "disconnect" => ~pid /\ disconnects = 0
          /\ thread[t].pc = "reset_pid" => ~pid
          /\ thread[t].pc \in {"reset_available", "reset_inuse", "reset_lock"}
                => pid /\ lock = 0 /\ thread[t].lock = 0
          /\ thread[t].pc \in {"unlock", "pop", "record", "put"} => pid
    /\ disconnects \in {0, 1}
    /\ ~pid /\ disconnects = 1 => \E t \in Thread : thread[t].pc = "reset_pid"

IInv == TypeOK /\ Mutex /\ OneResets /\ InheritedNotPooled

LEMMA IInvInit == Init => IInv
<1> SUFFICES ASSUME Init PROVE IInv
  OBVIOUS
<1>1. \A t \in Thread :
         /\ thread[t].pc = (IF HeldAtFork[t] = None THEN "idle" ELSE "busy")
         /\ thread[t].conn = HeldAtFork[t] /\ thread[t].lock = 0
         /\ thread[t] \in [pc : {"idle", "busy"}, conn : Conn \cup {None}, lock : {0}]
  BY ForkAssumption DEF Init
<1>2. thread \in [Thread -> [pc : {"idle", "busy"}, conn : Conn \cup {None}, lock : {0}]]
  BY <1>1 DEF Init
<1>3. TypeOK
  <2>1. thread \in [Thread -> [pc : Label, conn : Conn \cup {None}, lock : 0 .. 1]]
    BY <1>2 DEF Label
  <2>2. holder \in [0 .. 2 -> Thread \cup {None}]
    BY DEF Init
  <2>3. \A t \in Thread : /\ thread[t].pc \in {"record", "busy", "put"} => thread[t].conn \in Conn
                          /\ thread[t].pc \in {"idle", "pop"} => thread[t].conn = None
    BY <1>1, ForkAssumption
  <2>4. pid \in BOOLEAN /\ available \subseteq Conn /\ in_use \subseteq Conn
        /\ lock \in 0 .. 1 /\ disconnects \in 0 .. 2
    <3>1. available \subseteq Conn /\ in_use \subseteq Conn
      BY ForkAssumption DEF Init
    <3>2. lock \in 0 .. 1 /\ disconnects \in 0 .. 2
      BY DEF Init
    <3>3. pid \in BOOLEAN
      BY Zenon DEF Init
    <3> QED
      BY <3>1, <3>2, <3>3
  <2> QED
    BY <2>1, <2>2, <2>3, <2>4 DEF TypeOK
<1>4. Mutex /\ OneResets /\ InheritedNotPooled
  BY <1>1 DEF Init, Mutex, Inside, OneResets, InheritedNotPooled
<1> QED
  BY <1>3, <1>4 DEF IInv

(* What one thread's step makes of the threads, field by field. *)
LEMMA Moves ==
    ASSUME TypeOK, NEW t \in Thread, NEW from, NEW to, Goes(t, from, to)
    PROVE  /\ thread[t].pc = from /\ thread'[t].pc = to
           /\ thread'[t].conn = thread[t].conn /\ thread'[t].lock = thread[t].lock
           /\ \A u \in Thread \ {t} : thread'[u] = thread[u]
           /\ to \in Label => thread' \in [Thread -> [pc : Label, conn : Conn \cup {None}, lock : 0 .. 1]]
<1> DEFINE R == [pc : Label, conn : Conn \cup {None}, lock : 0 .. 1]
<1>1. thread[t] \in R /\ thread \in [Thread -> R]
  BY DEF TypeOK
<1>2. thread' = [thread EXCEPT ![t] = [thread[t] EXCEPT !.pc = to]]
  BY DEF Goes
<1>3. [thread[t] EXCEPT !.pc = to] = [pc |-> to, conn |-> thread[t].conn, lock |-> thread[t].lock]
  BY <1>1
<1> QED
  BY <1>1, <1>2, <1>3 DEF Goes

(* The steps that change nothing but a thread's place. *)
LEMMA InvariantMoves ==
    ASSUME IInv, NEW t \in Thread, NEW from, NEW to, Goes(t, from, to),
           UNCHANGED <<Pool, Locks, disconnects>>,
           to \in Label,
           from \notin {"reset_pid", "reset_available"},
           to \in Inside => from \in Inside,
           to = "disconnect" => ~pid /\ disconnects = 0,
           to \notin {"reset_pid", "reset_available", "reset_inuse", "reset_lock"},
           to \in {"unlock", "pop", "record", "put"} => pid,
           to \in {"record", "busy", "put"} => thread[t].conn \in Conn,
           to \in {"idle", "pop"} => thread[t].conn = None
    PROVE  IInv'
<1> USE DEF IInv, Pool, Locks
<1>0. /\ thread[t].pc = from /\ thread'[t].pc = to
      /\ thread'[t].conn = thread[t].conn /\ thread'[t].lock = thread[t].lock
      /\ \A u \in Thread \ {t} : thread'[u] = thread[u]
      /\ thread' \in [Thread -> [pc : Label, conn : Conn \cup {None}, lock : 0 .. 1]]
  BY Moves
<1>1. TypeOK'
  BY <1>0 DEF TypeOK
<1>2. Mutex'
  BY <1>0 DEF Mutex
<1>3. OneResets'
  <2>1. ~pid' => lock' = 0 /\ \A u \in Thread : thread'[u].lock = 0
    BY <1>0 DEF OneResets
  <2>2. ASSUME NEW u \in Thread
        PROVE  /\ thread'[u].pc = "disconnect" => ~pid' /\ disconnects' = 0
               /\ thread'[u].pc = "reset_pid" => ~pid'
               /\ thread'[u].pc \in {"reset_available", "reset_inuse", "reset_lock"}
                     => pid' /\ lock' = 0 /\ thread'[u].lock = 0
               /\ thread'[u].pc \in {"unlock", "pop", "record", "put"} => pid'
    BY <1>0, <2>2 DEF OneResets
  <2>3. ~pid' /\ disconnects' = 1 => \E u \in Thread : thread'[u].pc = "reset_pid"
    BY <1>0 DEF OneResets
  <2> QED
    BY <2>1, <2>2, <2>3 DEF OneResets
<1>4. InheritedNotPooled'
  BY <1>0 DEF InheritedNotPooled
<1> QED
  BY <1>1, <1>2, <1>3, <1>4

(* Of the threads inside with the same lock there is one. *)
LEMMA Alone ==
    ASSUME IInv, NEW t \in Thread, NEW u \in Thread, thread[t].pc \in Inside,
           thread[u].pc \in Inside, thread[t].lock = thread[u].lock
    PROVE  t = u
  BY DEF IInv, Mutex

LEMMA CheckStep ==
    ASSUME IInv, NEW t \in Thread, Call(t) \/ FirstCheck(t) \/ SecondCheck(t)
    PROVE  IInv'
<1> USE DEF Inside, Label
<1>0. thread[t].conn \in Conn \cup {None} /\ thread[t].pc \in Label
  BY DEF IInv, TypeOK
<1>1. CASE Call(t)
  <2>1. UNCHANGED <<Pool, Locks, disconnects>>
    BY <1>1 DEF Call
  <2>2. CASE Goes(t, "idle", "check")
    BY <2>1, <2>2, InvariantMoves
  <2>3. CASE Goes(t, "busy", "check")
    BY <2>1, <2>3, InvariantMoves
  <2> QED
    BY <1>1, <2>2, <2>3 DEF Call
<1>2. CASE FirstCheck(t)
  <2>1. UNCHANGED <<Pool, Locks, disconnects>>
    BY <1>2 DEF FirstCheck
  <2>2. CASE pid /\ thread[t].conn = None
    <3>1. Goes(t, "check", "pop")
      BY <1>2, <2>2 DEF FirstCheck, Caller
    <3> QED
      BY <2>1, <2>2, <3>1, InvariantMoves
  <2>3. CASE pid /\ thread[t].conn # None
    <3>1. Goes(t, "check", "put")
      BY <1>2, <2>3 DEF FirstCheck, Caller
    <3> QED
      BY <1>0, <2>1, <2>3, <3>1, InvariantMoves
  <2>4. CASE ~pid
    <3>1. Goes(t, "check", "lock")
      BY <1>2, <2>4 DEF FirstCheck
    <3> QED
      BY <2>1, <3>1, InvariantMoves
  <2> QED
    BY <2>2, <2>3, <2>4
<1>3. CASE SecondCheck(t)
  <2>0. UNCHANGED <<Pool, Locks, disconnects>>
    BY <1>3 DEF SecondCheck
  <2>1. CASE pid
    <3>1. Goes(t, "recheck", "unlock")
      BY <1>3, <2>1 DEF SecondCheck
    <3> QED
      BY <2>0, <2>1, <3>1, InvariantMoves
  <2>2. CASE ~pid
    <3>1. thread[t].pc = "recheck" /\ \A u \in Thread : thread[u].lock = thread[t].lock
      BY <1>3, <2>2 DEF SecondCheck, Goes, IInv, OneResets
    <3>2. \A u \in Thread : thread[u].pc # "reset_pid"
      BY <3>1, Alone
    <3>3. disconnects = 0
      BY <2>2, <3>2 DEF IInv, OneResets
    <3>4. Goes(t, "recheck", "disconnect")
      BY <1>3, <2>2 DEF SecondCheck
    <3> QED
      BY <2>0, <2>2, <3>3, <3>4, InvariantMoves
  <2> QED
    BY <2>1, <2>2
<1> QED
  BY <1>1, <1>2, <1>3

LEMMA LockStep ==
    ASSUME IInv, NEW t \in Thread, FindLock(t) \/ Acquire(t) \/ Unlock(t)
    PROVE  IInv'
<1> USE DEF IInv, Pool, Locks, Label
<1>1. CASE FindLock(t)
  <2>1. /\ thread[t].pc = "lock" /\ thread'[t].pc = "wait" /\ thread'[t].lock = lock
        /\ thread'[t].conn = thread[t].conn
        /\ \A u \in Thread \ {t} : thread'[u] = thread[u]
        /\ thread' \in [Thread -> [pc : Label, conn : Conn \cup {None}, lock : 0 .. 1]]
    BY <1>1 DEF FindLock, TypeOK
  <2>2. UNCHANGED <<Pool, Locks, disconnects>>
    BY <1>1 DEF FindLock
  <2>3. TypeOK' /\ Mutex' /\ InheritedNotPooled'
    BY <2>1, <2>2 DEF TypeOK, Mutex, Inside, InheritedNotPooled
  <2>4. OneResets'
    BY <2>1, <2>2 DEF OneResets, TypeOK
  <2> QED
    BY <2>3, <2>4
<1>2. CASE Acquire(t)
  <2>1. /\ thread[t].pc = "wait" /\ thread'[t].pc = "recheck"
        /\ thread'[t].conn = thread[t].conn /\ thread'[t].lock = thread[t].lock
        /\ \A u \in Thread \ {t} : thread'[u] = thread[u]
        /\ thread' \in [Thread -> [pc : Label, conn : Conn \cup {None}, lock : 0 .. 1]]
    BY <1>2, Moves DEF Acquire
  <2>2. /\ UNCHANGED <<Pool, lock, disconnects>>
        /\ holder[thread[t].lock] = None
        /\ holder' = [holder EXCEPT ![thread[t].lock] = t]
    BY <1>2 DEF Acquire
  <2>3. TypeOK'
    BY <2>1, <2>2 DEF TypeOK
  <2>4. Mutex'
    BY <2>1, <2>2, ForkAssumption DEF Mutex, Inside, TypeOK
  <2>5. OneResets' /\ InheritedNotPooled'
    BY <2>1, <2>2 DEF OneResets, InheritedNotPooled
  <2> QED
    BY <2>3, <2>4, <2>5
<1>3. CASE Unlock(t)
  <2>1. /\ thread[t].pc = "unlock" /\ thread'[t].pc = Caller(t)
        /\ thread'[t].conn = thread[t].conn /\ thread'[t].lock = thread[t].lock
        /\ \A u \in Thread \ {t} : thread'[u] = thread[u]
        /\ thread' \in [Thread -> [pc : Label, conn : Conn \cup {None}, lock : 0 .. 1]]
    <3>1. Goes(t, "unlock", Caller(t)) /\ Caller(t) \in Label
      BY <1>3 DEF Unlock, Caller
    <3> QED
      BY <3>1, Moves
  <2>2. /\ UNCHANGED <<Pool, lock, disconnects>>
        /\ holder' = [holder EXCEPT ![thread[t].lock] = None]
    BY <1>3 DEF Unlock
  <2>3. \A u \in Thread \ {t} : thread[u].pc \in Inside => thread[u].lock # thread[t].lock
    BY <2>1, Alone DEF Inside
  <2>4. TypeOK'
    BY <2>1, <2>2 DEF TypeOK, Caller
  <2>5. Mutex'
    BY <2>1, <2>2, <2>3 DEF Mutex, Inside, TypeOK, Caller
  <2>6. OneResets' /\ InheritedNotPooled'
    BY <2>1, <2>2 DEF OneResets, InheritedNotPooled, Caller
  <2> QED
    BY <2>4, <2>5, <2>6
<1> QED
  BY <1>1, <1>2, <1>3

LEMMA ResetStep ==
    ASSUME IInv, NEW t \in Thread,
           \/ Disconnect(t) \/ ResetPid(t) \/ ResetAvailable(t) \/ ResetInUse(t)
           \/ ResetLock(t)
    PROVE  IInv'
<1> USE DEF IInv, Pool, Locks
<1> DEFINE R == [pc : Label, conn : Conn \cup {None}, lock : 0 .. 1]
<1>1. CASE Disconnect(t)
  <2>1. Goes(t, "disconnect", "reset_pid")
    BY <1>1 DEF Disconnect
  <2>2. /\ thread[t].pc = "disconnect" /\ thread'[t].pc = "reset_pid"
        /\ thread'[t].conn = thread[t].conn /\ thread'[t].lock = thread[t].lock
        /\ \A u \in Thread \ {t} : thread'[u] = thread[u]
        /\ thread' \in [Thread -> R]
    BY <2>1, Moves DEF Label
  <2>3. ~pid /\ disconnects = 0
    BY <2>2 DEF OneResets
  <2>4. UNCHANGED <<pid, available, in_use, lock, holder>> /\ disconnects' = 1
    BY <1>1, <2>3 DEF Disconnect
  <2>5. \A u \in Thread \ {t} : thread[u].pc # "disconnect"
    BY <2>2, <2>3, Alone DEF Inside, OneResets
  <2>6. TypeOK' /\ Mutex' /\ InheritedNotPooled'
    BY <2>2, <2>3, <2>4 DEF TypeOK, Mutex, Inside, InheritedNotPooled
  <2>7. OneResets'
    BY <2>2, <2>3, <2>4, <2>5 DEF OneResets
  <2> QED
    BY <2>6, <2>7
<1>2. CASE ResetPid(t)
  <2>1. Goes(t, "reset_pid", "reset_available")
    BY <1>2 DEF ResetPid
  <2>2. /\ thread[t].pc = "reset_pid" /\ thread'[t].pc = "reset_available"
        /\ thread'[t].conn = thread[t].conn /\ thread'[t].lock = thread[t].lock
        /\ \A u \in Thread \ {t} : thread'[u] = thread[u]
        /\ thread' \in [Thread -> R]
    BY <2>1, Moves DEF Label
  <2>3. ~pid /\ lock = 0 /\ \A u \in Thread : thread[u].lock = 0
    BY <2>2 DEF OneResets
  <2>4. UNCHANGED <<available, in_use, lock, holder, disconnects>> /\ pid' = TRUE
    BY <1>2 DEF ResetPid
  <2>5. \A u \in Thread \ {t} : thread[u].pc \notin {"disconnect", "reset_pid"}
    BY <2>2, <2>3, Alone DEF Inside
  <2>6. TypeOK'
    BY <2>2, <2>4 DEF TypeOK
  <2>7. Mutex' /\ InheritedNotPooled'
    BY <2>2, <2>3, <2>4 DEF Mutex, Inside, InheritedNotPooled
  <2>8. OneResets'
    BY <2>2, <2>3, <2>4, <2>5 DEF OneResets
  <2> QED
    BY <2>6, <2>7, <2>8
<1>3. CASE ResetAvailable(t)
  <2>1. Goes(t, "reset_available", "reset_inuse")
    BY <1>3 DEF ResetAvailable
  <2>2. /\ thread[t].pc = "reset_available" /\ thread'[t].pc = "reset_inuse"
        /\ thread'[t].conn = thread[t].conn /\ thread'[t].lock = thread[t].lock
        /\ \A u \in Thread \ {t} : thread'[u] = thread[u]
        /\ thread' \in [Thread -> R]
    BY <2>1, Moves DEF Label
  <2>3. UNCHANGED <<pid, in_use, lock, holder, disconnects>> /\ available' = {}
    BY <1>3 DEF ResetAvailable
  <2>4. TypeOK' /\ Mutex' /\ InheritedNotPooled'
    BY <2>2, <2>3 DEF TypeOK, Mutex, Inside, InheritedNotPooled
  <2>5. OneResets'
    BY <2>2, <2>3 DEF OneResets
  <2> QED
    BY <2>4, <2>5
<1>4. CASE ResetInUse(t)
  <2>1. Goes(t, "reset_inuse", "reset_lock")
    BY <1>4 DEF ResetInUse
  <2>2. /\ thread[t].pc = "reset_inuse" /\ thread'[t].pc = "reset_lock"
        /\ thread'[t].conn = thread[t].conn /\ thread'[t].lock = thread[t].lock
        /\ \A u \in Thread \ {t} : thread'[u] = thread[u]
        /\ thread' \in [Thread -> R]
    BY <2>1, Moves DEF Label
  <2>3. UNCHANGED <<pid, available, lock, holder, disconnects>> /\ in_use' = {}
    BY <1>4 DEF ResetInUse
  <2>4. TypeOK' /\ Mutex' /\ InheritedNotPooled'
    BY <2>2, <2>3 DEF TypeOK, Mutex, Inside, InheritedNotPooled
  <2>5. OneResets'
    BY <2>2, <2>3 DEF OneResets
  <2> QED
    BY <2>4, <2>5
<1>5. CASE ResetLock(t)
  <2>1. Goes(t, "reset_lock", "unlock")
    BY <1>5 DEF ResetLock
  <2>2. /\ thread[t].pc = "reset_lock" /\ thread'[t].pc = "unlock"
        /\ thread'[t].conn = thread[t].conn /\ thread'[t].lock = thread[t].lock
        /\ \A u \in Thread \ {t} : thread'[u] = thread[u]
        /\ thread' \in [Thread -> R]
    BY <2>1, Moves DEF Label
  <2>3. lock = 0 /\ thread[t].lock = 0 /\ pid
    BY <2>2 DEF OneResets
  <2>4. UNCHANGED <<pid, available, in_use, holder, disconnects>> /\ lock' = 1
    BY <1>5, <2>3 DEF ResetLock
  <2>5. \A u \in Thread \ {t} :
           thread[u].pc \notin {"reset_available", "reset_inuse", "reset_lock"}
    BY <2>2, <2>3, Alone DEF Inside, OneResets
  <2>6. TypeOK' /\ Mutex' /\ InheritedNotPooled'
    BY <2>2, <2>4 DEF TypeOK, Mutex, Inside, InheritedNotPooled
  <2>7. OneResets'
    BY <2>2, <2>3, <2>4, <2>5 DEF OneResets
  <2> QED
    BY <2>6, <2>7
<1> QED
  BY <1>1, <1>2, <1>3, <1>4, <1>5

LEMMA PoolStep ==
    ASSUME IInv, NEW t \in Thread, Pop(t) \/ Record(t) \/ Release(t)
    PROVE  IInv'
<1> USE ForkAssumption DEF IInv, Locks
<1> DEFINE R == [pc : Label, conn : Conn \cup {None}, lock : 0 .. 1]
<1>1. CASE Pop(t)
  <2>1. PICK c \in Conn : /\ thread' = [thread EXCEPT ![t].pc = "record", ![t].conn = c]
                          /\ available' = available \ {c}
    BY <1>1 DEF Pop, TypeOK
  <2>2. /\ thread[t].pc = "pop" /\ thread'[t].pc = "record"
        /\ thread'[t].conn = c /\ thread'[t].lock = thread[t].lock
        /\ \A u \in Thread \ {t} : thread'[u] = thread[u]
        /\ thread' \in [Thread -> R]
    <3>1. thread[t].pc = "pop" /\ "record" \in Label
      BY <1>1 DEF Pop, Label
    <3>2. thread \in [Thread -> R]
      BY DEF TypeOK
    <3> QED
      BY <2>1, <3>1, <3>2
  <2>3. UNCHANGED <<pid, in_use, lock, holder, disconnects>>
    BY <1>1 DEF Pop
  <2>4. TypeOK' /\ Mutex' /\ InheritedNotPooled'
    BY <2>1, <2>2, <2>3 DEF TypeOK, Mutex, Inside, InheritedNotPooled
  <2>5. OneResets'
    BY <2>2, <2>3 DEF OneResets
  <2> QED
    BY <2>4, <2>5
<1>2. CASE Record(t)
  <2>1. Goes(t, "record", "busy")
    BY <1>2 DEF Record
  <2>2. /\ thread[t].pc = "record" /\ thread'[t].pc = "busy"
        /\ thread'[t].conn = thread[t].conn /\ thread'[t].lock = thread[t].lock
        /\ \A u \in Thread \ {t} : thread'[u] = thread[u]
        /\ thread' \in [Thread -> R]
    BY <2>1, Moves DEF Label
  <2>3. /\ UNCHANGED <<pid, available, lock, holder, disconnects>>
        /\ in_use' = in_use \cup {thread[t].conn}
    BY <1>2 DEF Record
  <2>4. TypeOK' /\ Mutex' /\ InheritedNotPooled'
    BY <2>2, <2>3 DEF TypeOK, Mutex, Inside, InheritedNotPooled
  <2>5. OneResets'
    BY <2>2, <2>3 DEF OneResets
  <2> QED
    BY <2>4, <2>5
<1>3. CASE Release(t)
  <2>1. /\ thread[t].pc = "put"
        /\ thread' = [thread EXCEPT ![t].pc = "idle", ![t].conn = None]
    BY <1>3 DEF Release, Put
  <2>2. /\ thread'[t].pc = "idle" /\ thread'[t].conn = None
        /\ thread'[t].lock = thread[t].lock
        /\ \A u \in Thread \ {t} : thread'[u] = thread[u]
        /\ thread' \in [Thread -> R]
    BY <2>1 DEF TypeOK, Label
  <2>3. /\ UNCHANGED <<pid, lock, holder, disconnects>>
        /\ in_use' \subseteq in_use
        /\ \/ available' = available
           \/ /\ thread[t].conn \notin Inherited
              /\ available' = available \cup {thread[t].conn}
    BY <1>3 DEF Release, Put
  <2>4. TypeOK' /\ Mutex' /\ InheritedNotPooled'
    BY <2>1, <2>2, <2>3 DEF TypeOK, Mutex, Inside, InheritedNotPooled
  <2>5. OneResets'
    BY <2>1, <2>2, <2>3 DEF OneResets
  <2> QED
    BY <2>4, <2>5
<1> QED
  BY <1>1, <1>2, <1>3

LEMMA IInvStep == IInv /\ [Next]_vars => IInv'
<1> SUFFICES ASSUME IInv, [Next]_vars PROVE IInv'
  OBVIOUS
<1>1. CASE Next
  BY <1>1, CheckStep, LockStep, ResetStep, PoolStep DEF Next, Step
<1>2. CASE UNCHANGED vars
  BY <1>2 DEF vars, IInv, TypeOK, Mutex, OneResets, InheritedNotPooled
<1> QED
  BY <1>1, <1>2

(* The fields of every thread keep their types, there are two locks at most *)
(* and a connection is bound where it is used.                             *)
THEOREM ForkTypes == Spec => []TypeOK
<1>1. IInv => TypeOK
  BY DEF IInv
<1> QED
  BY <1>1, IInvInit, IInvStep, PTL DEF Spec

(* However many threads of the child find the pool to be the parent's, one *)
(* of them resets it, although the lock they wait for is replaced on the   *)
(* way.                                                                    *)
THEOREM PoolResetOnce == Spec => []ResetOnce
<1>1. IInv => ResetOnce
  BY DEF IInv, OneResets, ResetOnce
<1> QED
  BY <1>1, IInvInit, IInvStep, PTL DEF Spec

(* After the reset no connection of the parent is in the pool, also when   *)
(* one was taken during it or was in use at the fork, and is released.     *)
THEOREM NoneInherited == Spec => []InheritedNotPooled
<1>1. IInv => InheritedNotPooled
  BY DEF IInv
<1> QED
  BY <1>1, IInvInit, IInvStep, PTL DEF Spec

(* A thread is given a connection of the parent only while another one is  *)
(* replacing the list.                                                     *)
THEOREM InheritedInResetOnly == Spec => InheritedOnlyInReset
<1> DEFINE A == \A t \in Thread : thread[t].conn = None /\ thread'[t].conn \in Inherited
                   => \E u \in Thread : thread[u].pc = "reset_available"
<1>1. IInv /\ [Next]_vars => [A]_vars
  <2> SUFFICES ASSUME IInv, Next, NEW t \in Thread, thread[t].conn = None,
                      thread'[t].conn \in Inherited
               PROVE  \E u \in Thread : thread[u].pc = "reset_available"
    BY DEF vars
  <2>1. PICK s \in Thread : Call(s) \/ Step(s)
    BY DEF Next
  <2>2. ~ Pop(s) => thread'[t].conn \in {thread[t].conn, None}
    BY <2>1 DEF Call, Step, FirstCheck, FindLock, Acquire, SecondCheck, Disconnect, ResetPid,
       ResetAvailable, ResetInUse, ResetLock, Unlock, Record, Release, Put, Goes, IInv, TypeOK
  <2>3. Pop(s)
    BY <2>2, ForkAssumption
  <2>4. pid /\ available \cap Inherited # {}
    BY <2>3 DEF Pop, IInv, TypeOK, OneResets
  <2> QED
    BY <2>4 DEF IInv, InheritedNotPooled
<1> QED
  BY <1>1, IInvInit, IInvStep, PTL DEF Spec, InheritedOnlyInReset
=============================================================================
