--------------------- MODULE ClusterConnectionPool_proofs ---------------------
(***************************************************************************)
(* TypeOK, Exclusive, NothingLeaks and PerNodeBound are invariants of the  *)
(* pool for any number of threads, nodes and connections, OpenBound and    *)
(* CounterExact for one thread, and the pool implements ResourcePool.      *)
(***************************************************************************)
EXTENDS ClusterConnectionPool, FiniteSetTheorems, TLAPS

(* What list.pop() takes and what it leaves, as Pop uses Last and Front.   *)
LEMMA FrontLast ==
    ASSUME NEW S, NEW s \in Seq(S), s # <<>>
    PROVE  /\ Front(s) \in Seq(S)
           /\ DOMAIN Front(s) = 1 .. Len(s) - 1
           /\ \A i \in 1 .. Len(s) - 1 : Front(s)[i] = s[i]
           /\ Last(s) = s[Len(s)]
           /\ Len(s) \in DOMAIN s
           /\ Last(s) \in S
  BY DEF Front, Last

(* What list.append() makes, as ReleaseAppend uses it.                     *)
LEMMA AppendRange ==
    ASSUME NEW S, NEW s \in Seq(S), NEW e \in S
    PROVE  /\ Append(s, e) \in Seq(S)
           /\ DOMAIN Append(s, e) = 1 .. Len(s) + 1
           /\ \A i \in 1 .. Len(s) : Append(s, e)[i] = s[i]
           /\ Append(s, e)[Len(s) + 1] = e
           /\ DOMAIN s = 1 .. Len(s)
  OBVIOUS

LEMMA ListType ==
    ASSUME TypeOK, NEW n \in Node
    PROVE  List(n) \in Seq(Conn)
  BY DEF TypeOK, List, Get

-----------------------------------------------------------------------------
(* The type invariant, action by action.                                   *)

LEMMA TypeInit == Init => TypeOK
  BY PoolAssumption DEF Init, TypeOK, Empty, Label, Holding

LEMMA TypeAcquire ==
    ASSUME TypeOK, NEW t \in Thread, Acquire(t)
    PROVE  TypeOK'
<1> USE PoolAssumption DEF TypeOK, Goto, dicts, Label, Holding
<1>1. CASE \E k \in Kind, n \in Node : Call(t, k, n)
  BY <1>1 DEF Call
<1>2. CASE Pop(t)
  <2>1. List(node[t]) \in Seq(Conn)
    BY ListType
  <2>2. Last(List(node[t])) \in Conn /\ Front(List(node[t])) \in Seq(Conn)
    BY <1>2, <2>1, FrontLast DEF Pop
  <2> QED
    BY <1>2, <2>2 DEF Pop, Put, Recording
<1>3. CASE PopEmpty(t)
  BY <1>3 DEF PopEmpty
<1>4. CASE CheckLimit(t)
  BY <1>4 DEF CheckLimit
<1>5. CASE TooManyConnections(t)
  BY <1>5 DEF TooManyConnections
<1>6. CASE SetDefault(t)
  BY <1>6 DEF SetDefault, Put, Get
<1>7. CASE Load(t)
  BY <1>7 DEF Load
<1>8. CASE LoadKeyError(t)
  BY <1>8 DEF LoadKeyError
<1>9. CASE Store(t)
  BY <1>9 DEF Store, Put, Recording
<1>10. CASE CheckSet(t)
  BY <1>10 DEF CheckSet
<1>11. CASE AssignSet(t)
  BY <1>11 DEF AssignSet, Put
<1>12. CASE Track(t)
  BY <1>12 DEF Track, Put, Tracked, Get
<1>13. CASE TrackKeyError(t)
  BY <1>13 DEF TrackKeyError
<1> QED
  BY <1>1, <1>2, <1>3, <1>4, <1>5, <1>6, <1>7, <1>8, <1>9, <1>10, <1>11, <1>12, <1>13
  DEF Acquire

LEMMA TypeUse ==
    ASSUME TypeOK, NEW t \in Thread, Use(t)
    PROVE  TypeOK'
<1> USE PoolAssumption DEF TypeOK, Goto, dicts, Label, Holding
<1>1. CASE Send(t)
  BY <1>1 DEF Send
<1>2. CASE Reply(t)
  BY <1>2 DEF Reply
<1>3. CASE Failure(t)
  BY <1>3 DEF Failure
<1>4. CASE ScanFailure(t)
  BY <1>4 DEF ScanFailure
<1>5. CASE ReleaseRemove(t)
  BY <1>5 DEF ReleaseRemove
<1>6. CASE ReleaseAppend(t)
  <2>1. List(node[t]) \in Seq(Conn)
    BY ListType
  <2>2. conn[t] \in Conn
    BY <1>6 DEF ReleaseAppend
  <2>3. Append(List(node[t]), conn[t]) \in Seq(Conn)
    BY <2>1, <2>2, AppendRange
  <2> QED
    BY <1>6, <2>3 DEF ReleaseAppend, Put
<1> QED
  BY <1>1, <1>2, <1>3, <1>4, <1>5, <1>6 DEF Use

LEMMA TypeClusterDown ==
    ASSUME TypeOK, NEW t \in Thread, ClusterDown(t)
    PROVE  TypeOK'
<1> USE PoolAssumption DEF TypeOK, Goto, dicts, Label, Holding, Empty
<1>1. CASE DisconnectAll(t)
  BY <1>1 DEF DisconnectAll, CallsReset
<1>2. CASE DisconnectInterrupted(t)
  BY <1>2 DEF DisconnectInterrupted, CallsReset
<1>3. CASE ResetCreated(t)
  BY <1>3 DEF ResetCreated
<1>4. CASE ResetAvailable(t)
  BY <1>4 DEF ResetAvailable
<1>5. CASE ResetInUse(t)
  BY <1>5 DEF ResetInUse
<1> QED
  BY <1>1, <1>2, <1>3, <1>4, <1>5 DEF ClusterDown

LEMMA TypeStep == TypeOK /\ [Next]_vars => TypeOK'
<1> SUFFICES ASSUME TypeOK, [Next]_vars PROVE TypeOK'
  OBVIOUS
<1>1. CASE UNCHANGED vars
  BY <1>1 DEF vars, dicts, locals, TypeOK
<1>2. CASE Next
  BY <1>2, TypeAcquire, TypeUse, TypeClusterDown DEF Next
<1> QED
  BY <1>1, <1>2

(* The dictionaries and the threads' locals keep their types, and a thread *)
(* has a connection exactly at the statements between taking and releasing *)
(* one.                                                                    *)
THEOREM PoolTypes == Spec => []TypeOK
<1>1. Init => TypeOK
  BY TypeInit
<1>2. TypeOK /\ [Next]_vars => TypeOK'
  BY TypeStep
<1> QED
  BY <1>1, <1>2, PTL DEF Spec

-----------------------------------------------------------------------------
(* Exclusive reads the lists and the threads' connections only, so the     *)
(* steps that matter are those that change one of them.                    *)

LEMMA ExclusivePop ==
    ASSUME TypeOK, Exclusive, NEW t \in Thread, Pop(t)
    PROVE  Exclusive'
<1> DEFINE n == node[t]
           s == List(n)
<1>1. s \in Seq(Conn) /\ s # <<>> /\ n \in DOMAIN available /\ s = available[n] /\ n \in Node
  BY ListType DEF Pop, TypeOK, List, Get
<1>2. /\ conn' = [conn EXCEPT ![t] = s[Len(s)]]
      /\ DOMAIN available' = DOMAIN available
      /\ \A m \in DOMAIN available : m # n => available'[m] = available[m]
      /\ DOMAIN available'[n] = 1 .. Len(s) - 1
      /\ \A i \in DOMAIN available'[n] : available'[n][i] = s[i]
  <2>1. /\ DOMAIN Front(s) = 1 .. Len(s) - 1
        /\ \A i \in 1 .. Len(s) - 1 : Front(s)[i] = s[i]
        /\ Last(s) = s[Len(s)]
    BY <1>1, FrontLast
  <2>2. /\ conn' = [conn EXCEPT ![t] = Last(s)]
        /\ available' = [m \in DOMAIN available \cup {n} |->
                            IF m = n THEN Front(s) ELSE available[m]]
    BY DEF Pop, Put
  <2> HIDE DEF s, n
  <2> QED
    BY <1>1, <2>1, <2>2
<1>3. Len(s) \in DOMAIN s /\ DOMAIN s = 1 .. Len(s) /\ Len(s) \in Nat
  BY <1>1
<1>4. \A m \in DOMAIN available : \A i \in DOMAIN available'[m] :
         /\ i \in DOMAIN available[m]
         /\ available'[m][i] = available[m][i]
         /\ available'[m][i] # s[Len(s)]
  BY <1>1, <1>2, <1>3 DEF Exclusive
<1>5. s[Len(s)] \notin Held
  BY <1>1, <1>3 DEF Exclusive
<1>6. \A u, v \in Thread : conn'[u] = conn'[v] /\ conn'[u] # None => u = v
  BY <1>2, <1>5 DEF Exclusive, TypeOK, Held
<1>7. \A m \in DOMAIN available' : \A i \in DOMAIN available'[m] : available'[m][i] \notin Held'
  BY <1>2, <1>4 DEF Exclusive, TypeOK, Held
<1>8. \A l, m \in DOMAIN available' :
         \A i \in DOMAIN available'[l], j \in DOMAIN available'[m] :
            available'[l][i] = available'[m][j] => l = m /\ i = j
  BY <1>2, <1>4 DEF Exclusive
<1> QED
  BY <1>6, <1>7, <1>8 DEF Exclusive

LEMMA ExclusiveStore ==
    ASSUME TypeOK, Exclusive, NEW t \in Thread, Store(t)
    PROVE  Exclusive'
<1>1. PICK c \in Conn : /\ c \notin Listed /\ c \notin Held
                        /\ conn' = [conn EXCEPT ![t] = c] /\ available' = available
  BY DEF Store
<1>2. \A n \in DOMAIN available : \A i \in DOMAIN available[n] : available[n][i] # c
  BY <1>1 DEF Listed, Range
<1>3. \A u, v \in Thread : conn'[u] = conn'[v] /\ conn'[u] # None => u = v
  BY <1>1 DEF Exclusive, TypeOK, Held
<1>4. \A n \in DOMAIN available' : \A i \in DOMAIN available'[n] : available'[n][i] \notin Held'
  BY <1>1, <1>2 DEF Exclusive, TypeOK, Held
<1> QED
  BY <1>1, <1>3, <1>4 DEF Exclusive

LEMMA ExclusiveAppend ==
    ASSUME TypeOK, Exclusive, NEW t \in Thread, ReleaseAppend(t)
    PROVE  Exclusive'
<1> DEFINE n == node[t]
           s == List(n)
           c == conn[t]
<1>1. /\ s \in Seq(Conn) /\ n \in Node
      /\ c \in Conn /\ c \in Held /\ c # None
      /\ conn' = [conn EXCEPT ![t] = None]
  BY ListType, PoolAssumption DEF ReleaseAppend, TypeOK, Holding, Held
<1>2. /\ DOMAIN available' = DOMAIN available \cup {n}
      /\ \A m \in DOMAIN available : m # n => available'[m] = available[m]
      /\ available'[n] = Append(s, c)
  BY DEF ReleaseAppend, Put
<1>3. \A i \in DOMAIN s : n \in DOMAIN available /\ s = available[n]
  BY DEF List, Get
<1>4. /\ DOMAIN available'[n] = 1 .. Len(s) + 1
      /\ \A i \in 1 .. Len(s) : available'[n][i] = s[i]
      /\ available'[n][Len(s) + 1] = c
      /\ DOMAIN s = 1 .. Len(s) /\ Len(s) \in Nat
  BY <1>1, <1>2, AppendRange
<1> HIDE DEF s, n, c
<1>5. \A m \in DOMAIN available' : \A i \in DOMAIN available'[m] :
         \/ m = n /\ i = Len(s) + 1 /\ available'[m][i] = c
         \/ /\ m \in DOMAIN available /\ i \in DOMAIN available[m]
            /\ available'[m][i] = available[m][i] /\ available[m][i] # c
            /\ available[m][i] \notin Held
  <2> SUFFICES ASSUME NEW m \in DOMAIN available', NEW i \in DOMAIN available'[m]
               PROVE  \/ m = n /\ i = Len(s) + 1 /\ available'[m][i] = c
                      \/ /\ m \in DOMAIN available /\ i \in DOMAIN available[m]
                         /\ available'[m][i] = available[m][i] /\ available[m][i] # c
                         /\ available[m][i] \notin Held
    OBVIOUS
  <2>1. CASE m # n
    BY <2>1, <1>1, <1>2 DEF Exclusive
  <2>2. CASE m = n /\ i = Len(s) + 1
    BY <2>2, <1>4
  <2>3. CASE m = n /\ i # Len(s) + 1
    <3>1. i \in 1 .. Len(s)
      BY <2>3, <1>4
    <3> QED
      BY <3>1, <2>3, <1>1, <1>3, <1>4 DEF Exclusive
  <2> QED
    BY <2>1, <2>2, <2>3
<1>6. Held' = Held \ {c}
  BY <1>1 DEF Held, Exclusive, TypeOK, c
<1>7. \A u, v \in Thread : conn'[u] = conn'[v] /\ conn'[u] # None => u = v
  BY <1>1 DEF Exclusive, TypeOK
<1>8. \A m \in DOMAIN available' : \A i \in DOMAIN available'[m] : available'[m][i] \notin Held'
  BY <1>5, <1>6
<1>9. \A l, m \in DOMAIN available' :
         \A i \in DOMAIN available'[l], j \in DOMAIN available'[m] :
            available'[l][i] = available'[m][j] => l = m /\ i = j
  BY <1>5 DEF Exclusive
<1> QED
  BY <1>7, <1>8, <1>9 DEF Exclusive

(* Steps that leave the lists alone and take at most one reference away.   *)
LEMMA ExclusiveDrop ==
    ASSUME TypeOK, Exclusive, NEW t \in Thread,
           available' = available, conn' = conn \/ conn' = [conn EXCEPT ![t] = None]
    PROVE  Exclusive'
<1>1. Held' \subseteq Held
  BY DEF Held, TypeOK
<1>2. \A u, v \in Thread : conn'[u] = conn'[v] /\ conn'[u] # None => u = v
  BY DEF Exclusive, TypeOK
<1> QED
  BY <1>1, <1>2 DEF Exclusive

LEMMA ExclusiveReset ==
    ASSUME Exclusive, NEW t \in Thread, ResetAvailable(t)
    PROVE  Exclusive'
  BY DEF ResetAvailable, Exclusive, Empty

(* All the other steps leave the lists alone and at most drop a connection. *)
LEMMA OtherSteps ==
    ASSUME TypeOK, NEW t \in Thread, Acquire(t) \/ Use(t) \/ ClusterDown(t)
    PROVE  \/ Pop(t) \/ Store(t) \/ ReleaseAppend(t) \/ ResetAvailable(t)
           \/ /\ available' = available
              /\ conn' = conn \/ conn' = [conn EXCEPT ![t] = None]
<1> DEFINE Drops == available' = available
                    /\ (conn' = conn \/ conn' = [conn EXCEPT ![t] = None])
<1>2. Acquire(t) => Pop(t) \/ Store(t) \/ Drops
  BY DEF Acquire, Call, PopEmpty, CheckLimit, TooManyConnections, SetDefault, Load,
         LoadKeyError, CheckSet, AssignSet, Track, TrackKeyError, dicts
<1>3. Use(t) => ReleaseAppend(t) \/ Drops
  BY DEF Use, Send, Reply, Failure, ScanFailure, ReleaseRemove, dicts
<1>4. ClusterDown(t) => ResetAvailable(t) \/ Drops
  <2>1. CASE ResetInUse(t)
    <3>1. CASE kind[t] = "nodes"
      BY <2>1, <3>1 DEF ResetInUse, TypeOK
    <3>2. CASE kind[t] # "nodes"
      BY <2>1, <3>2 DEF ResetInUse
    <3> QED
      BY <3>1, <3>2
  <2> QED
    BY <2>1 DEF ClusterDown, DisconnectAll, DisconnectInterrupted, ResetCreated, dicts
<1> QED
  BY <1>2, <1>3, <1>4

LEMMA ExclusiveStep == TypeOK /\ Exclusive /\ [Next]_vars => Exclusive'
<1> SUFFICES ASSUME TypeOK, Exclusive, [Next]_vars PROVE Exclusive'
  OBVIOUS
<1>1. CASE UNCHANGED vars
  BY <1>1 DEF vars, dicts, locals, Exclusive, Held
<1>2. CASE Next
  <2>1. PICK t \in Thread : Acquire(t) \/ Use(t) \/ ClusterDown(t)
    BY <1>2 DEF Next
  <2>2. \/ Pop(t) \/ Store(t) \/ ReleaseAppend(t) \/ ResetAvailable(t)
        \/ /\ available' = available
           /\ conn' = conn \/ conn' = [conn EXCEPT ![t] = None]
    BY <2>1, OtherSteps
  <2> QED
    BY <2>2, ExclusivePop, ExclusiveStore, ExclusiveAppend,
       ExclusiveDrop, ExclusiveReset
<1> QED
  BY <1>1, <1>2

(* No connection is ever in the hands of two threads, or of a thread and   *)
(* of a list, however calls, failures and resets interleave.               *)
THEOREM PoolExclusive == Spec => []Exclusive
<1>1. Init => TypeOK /\ Exclusive
  BY TypeInit DEF Init, Exclusive, Empty
<1>2. TypeOK /\ Exclusive /\ [Next]_vars => TypeOK' /\ Exclusive'
  BY TypeStep, ExclusiveStep
<1> QED
  BY <1>1, <1>2, PTL DEF Spec

-----------------------------------------------------------------------------
(* Nothing leaks as long as no caller is scan_iter, which releases only    *)
(* when nothing went wrong.                                                *)

Accounted == NothingLeaks /\ AppendUntracked

(* A set the pool keeps for another node never has a thread's connection.  *)
LEMMA TrackedForOwnNode ==
    ASSUME TypeOK, Exclusive, NothingLeaks, NEW t \in Thread, NEW n \in DOMAIN inUse,
           conn[t] \in inUse[n]
    PROVE  n = node[t]
<1>1. PICK u \in Thread : conn[u] = conn[t] /\ node[u] = n
  BY DEF NothingLeaks
<1>2. conn[t] # None
  BY PoolAssumption DEF TypeOK
<1> QED
  BY <1>1, <1>2 DEF Exclusive

LEMMA AccountedAcquire ==
    ASSUME TypeOK, Exclusive, Accounted, NEW t \in Thread, Acquire(t)
    PROVE  Accounted'
<1> USE DEF Accounted, NothingLeaks, AppendUntracked, Goto, dicts
<1>0. \A n \in DOMAIN inUse : None \notin inUse[n]
  BY PoolAssumption DEF TypeOK
<1>1. CASE \E k \in Kind, n \in Node : Call(t, k, n)
  <2>1. conn[t] = None
    BY <1>1 DEF Call, TypeOK, Holding
  <2> QED
    BY <1>0, <1>1, <2>1 DEF Call, TypeOK
<1>2. CASE Pop(t)
  <2>1. conn[t] = None
    BY <1>2 DEF Pop, TypeOK, Holding
  <2> QED
    BY <1>0, <1>2, <2>1 DEF Pop, TypeOK, Recording
<1>3. CASE PopEmpty(t) \/ CheckLimit(t) \/ TooManyConnections(t) \/ SetDefault(t)
           \/ Load(t) \/ LoadKeyError(t) \/ CheckSet(t)
  BY <1>3 DEF PopEmpty, CheckLimit, TooManyConnections, SetDefault, Load, LoadKeyError,
              CheckSet, TypeOK
<1>4. CASE Store(t)
  <2>1. conn[t] = None
    BY <1>4 DEF Store, TypeOK, Holding
  <2> QED
    BY <1>0, <1>4, <2>1 DEF Store, TypeOK, Recording
<1>5. CASE AssignSet(t)
  BY <1>5 DEF AssignSet, Put, TypeOK
<1>6. CASE Track(t)
  <2>1. \A u \in Thread : u # t => conn[u] # conn[t]
    BY <1>6, PoolAssumption DEF Track, TypeOK, Holding, Exclusive
  <2> QED
    BY <1>6, <2>1 DEF Track, Put, Tracked, Get, TypeOK
<1>7. CASE TrackKeyError(t)
  <2>1. \A n \in DOMAIN inUse : conn[t] \notin inUse[n]
    BY <1>7, TrackedForOwnNode DEF TrackKeyError
  <2> QED
    BY <1>7, <2>1 DEF TrackKeyError, TypeOK
<1> QED
  BY <1>1, <1>2, <1>3, <1>4, <1>5, <1>6, <1>7 DEF Acquire

LEMMA AccountedUse ==
    ASSUME TypeOK, Exclusive, Accounted, "scan" \notin Kind, NEW t \in Thread, Use(t)
    PROVE  Accounted'
<1> USE DEF Accounted, NothingLeaks, AppendUntracked, Goto, dicts
<1>1. CASE Send(t) \/ Reply(t) \/ Failure(t)
  BY <1>1 DEF Send, Reply, Failure, TypeOK
<1>2. CASE ScanFailure(t)
  BY <1>2 DEF ScanFailure, TypeOK
<1>3. CASE ReleaseRemove(t)
  <2>1. \A n \in DOMAIN inUse : conn[t] \in inUse[n] => n = node[t]
    BY TrackedForOwnNode
  <2>2. DOMAIN inUse' = DOMAIN inUse
    BY <1>3 DEF ReleaseRemove
  <2>3. \A n \in DOMAIN inUse : inUse'[n] \subseteq inUse[n] /\ conn[t] \notin inUse'[n]
    BY <1>3, <2>1 DEF ReleaseRemove
  <2> QED
    BY <1>3, <2>2, <2>3 DEF ReleaseRemove, TypeOK
<1>4. CASE ReleaseAppend(t)
  <2>1. \A n \in DOMAIN inUse : conn[t] \notin inUse[n]
    BY <1>4 DEF ReleaseAppend
  <2> QED
    BY <1>4, <2>1 DEF ReleaseAppend, TypeOK
<1> QED
  BY <1>1, <1>2, <1>3, <1>4 DEF Use

LEMMA AccountedClusterDown ==
    ASSUME TypeOK, Accounted, NEW t \in Thread, ClusterDown(t)
    PROVE  Accounted'
<1> USE DEF Accounted, NothingLeaks, AppendUntracked, Goto, dicts, TypeOK
<1>1. CASE DisconnectAll(t) \/ DisconnectInterrupted(t) \/ ResetCreated(t) \/ ResetAvailable(t)
  BY <1>1 DEF DisconnectAll, DisconnectInterrupted, ResetCreated, ResetAvailable
<1>2. CASE ResetInUse(t)
  BY <1>2 DEF ResetInUse, Empty
<1> QED
  BY <1>1, <1>2 DEF ClusterDown

(* Without scan_iter, every connection in an in-use set is held by a thread *)
(* that will release it: no failure and no reset leaves one behind.        *)
THEOREM PoolNothingLeaks ==
    ASSUME "scan" \notin Kind
    PROVE  Spec => []NothingLeaks
<1> DEFINE IInv == TypeOK /\ Exclusive /\ Accounted
<1>1. Init => IInv
  BY TypeInit DEF Init, Exclusive, Accounted, NothingLeaks, AppendUntracked, Empty
<1>2. IInv /\ [Next]_vars => IInv'
  <2> SUFFICES ASSUME IInv, [Next]_vars PROVE IInv'
    OBVIOUS
  <2>1. TypeOK' /\ Exclusive'
    BY TypeStep, ExclusiveStep
  <2>2. CASE UNCHANGED vars
    BY <2>1, <2>2 DEF vars, dicts, locals, Accounted, NothingLeaks, AppendUntracked
  <2>3. CASE Next
    BY <2>1, <2>3, AccountedAcquire, AccountedUse, AccountedClusterDown DEF Next
  <2> QED
    BY <2>2, <2>3
<1>3. IInv => NothingLeaks
  BY DEF Accounted
<1> QED
  BY <1>1, <1>2, <1>3, PTL DEF Spec

-----------------------------------------------------------------------------
(* The refinement: every step of the pool is a step of ResourcePool, or    *)
(* changes nothing that ResourcePool sees.                                 *)

(* Owner, of any threads' connections and any listed ones, and so also of  *)
(* those after a step.                                                     *)
OwnerBy(f, L) ==
    LET holder == [c \in {f[t] : t \in Thread} \ {None} |-> CHOOSE t \in Thread : f[t] = c]
    IN  [c \in Conn |-> IF c \in DOMAIN holder THEN holder[c]
                        ELSE IF c \in L THEN "free" ELSE "gone"]

LEMMA OwnerOf ==
    ASSUME NEW f, NEW L, NEW c \in Conn,
           \A t, u \in Thread : f[t] = f[u] /\ f[t] # None => t = u
    PROVE  /\ \A t \in Thread : f[t] = c => OwnerBy(f, L)[c] = t
           /\ (\A t \in Thread : f[t] # c) =>
                 OwnerBy(f, L)[c] = IF c \in L THEN "free" ELSE "gone"
<1>1. c # None
  BY PoolAssumption
<1>2. ASSUME NEW t \in Thread, f[t] = c PROVE OwnerBy(f, L)[c] = t
  <2>1. c \in {f[u] : u \in Thread} \ {None}
    BY <1>1, <1>2
  <2>2. OwnerBy(f, L)[c] = CHOOSE u \in Thread : f[u] = c
    BY <2>1 DEF OwnerBy
  <2>3. \A u \in Thread : f[u] = c => u = t
    BY <1>1, <1>2
  <2> QED
    BY <1>2, <2>2, <2>3
<1>3. ASSUME \A t \in Thread : f[t] # c
      PROVE  OwnerBy(f, L)[c] = IF c \in L THEN "free" ELSE "gone"
  BY <1>3 DEF OwnerBy
<1> QED
  BY <1>2, <1>3

LEMMA OwnerNow == Owner = OwnerBy(conn, Listed) /\ Owner' = OwnerBy(conn', Listed')
  BY DEF Owner, OwnerBy, Held

(* A step that changes only who has the connections of S, all for the same. *)
LEMMA OwnerMoves ==
    ASSUME Exclusive, Exclusive', NEW S \in SUBSET Conn, NEW to,
           \A c \in Conn \ S : /\ c \in Listed <=> c \in Listed'
                               /\ \A t \in Thread : conn[t] = c <=> conn'[t] = c,
           \A c \in S : Owner'[c] = to
    PROVE  Owner' = [c \in Conn |-> IF c \in S THEN to ELSE Owner[c]]
<1>1. Owner' = [c \in Conn |-> Owner'[c]]
  BY OwnerNow DEF OwnerBy
<1>2. ASSUME NEW c \in Conn \ S PROVE Owner'[c] = Owner[c]
  <2>1. \A t, u \in Thread : conn[t] = conn[u] /\ conn[t] # None => t = u
    BY DEF Exclusive
  <2>2. \A t, u \in Thread : conn'[t] = conn'[u] /\ conn'[t] # None => t = u
    BY DEF Exclusive
  <2>3. CASE \E t \in Thread : conn[t] = c
    BY <1>2, <2>1, <2>2, <2>3, OwnerNow, OwnerOf
  <2>4. CASE \A t \in Thread : conn[t] # c
    BY <1>2, <2>1, <2>2, <2>4, OwnerNow, OwnerOf
  <2> QED
    BY <2>3, <2>4
<1> QED
  BY <1>1, <1>2

LEMMA OwnerMovesOne ==
    ASSUME Exclusive, Exclusive', NEW x \in Conn, NEW to, Owner'[x] = to,
           \A c \in Conn \ {x} : c \in Listed <=> c \in Listed',
           \A c \in Conn \ {x} : \A t \in Thread : conn[t] = c <=> conn'[t] = c
    PROVE  Owner' = [c \in Conn |-> IF c \in {x} THEN to ELSE Owner[c]]
<1> DEFINE S == {x}
<1>1. /\ S \in SUBSET Conn
      /\ \A c \in S : Owner'[c] = to
      /\ \A c \in Conn \ S : /\ c \in Listed <=> c \in Listed'
                            /\ \A t \in Thread : conn[t] = c <=> conn'[t] = c
  OBVIOUS
<1>2. Owner' = [c \in Conn |-> IF c \in S THEN to ELSE Owner[c]]
  <2> HIDE DEF S
  <2> QED
    BY <1>1, OwnerMoves
<1> QED
  BY <1>2

LEMMA OwnerBefore ==
    ASSUME Exclusive, NEW c \in Conn
    PROVE  /\ Owner \in [Conn -> Thread \cup {"free", "gone"}]
           /\ \A t \in Thread : conn[t] = c => Owner[c] = t
           /\ c \in Listed => Owner[c] = "free"
           /\ c \notin Listed \cup Held => Owner[c] = "gone"
<1>1. \A t, u \in Thread : conn[t] = conn[u] /\ conn[t] # None => t = u
  BY DEF Exclusive
<1>2. c \in Listed => \A t \in Thread : conn[t] # c
  BY PoolAssumption DEF Exclusive, Listed, Range, Held
<1>3. c \notin Held => \A t \in Thread : conn[t] # c
  BY PoolAssumption DEF Held
<1>4. \A d \in Conn : Owner[d] \in Thread \cup {"free", "gone"}
  <2>1. ASSUME NEW d \in Conn, NEW t \in Thread, conn[t] = d PROVE Owner[d] = t
    BY <1>1, <2>1, OwnerNow, OwnerOf
  <2>2. ASSUME NEW d \in Conn, \A t \in Thread : conn[t] # d
        PROVE  Owner[d] \in {"free", "gone"}
    BY <1>1, <2>2, OwnerNow, OwnerOf
  <2> QED
    BY <2>1, <2>2
<1>5. Owner \in [Conn -> Thread \cup {"free", "gone"}]
  BY <1>4, OwnerNow DEF OwnerBy
<1> QED
  BY <1>1, <1>2, <1>3, <1>5, OwnerNow, OwnerOf

LEMMA OwnerAfter ==
    ASSUME Exclusive', NEW c \in Conn
    PROVE  /\ \A t \in Thread : conn'[t] = c => Owner'[c] = t
           /\ c \in Listed' => Owner'[c] = "free"
           /\ c \notin Listed' /\ (\A t \in Thread : conn'[t] # c) => Owner'[c] = "gone"
<1>1. \A t, u \in Thread : conn'[t] = conn'[u] /\ conn'[t] # None => t = u
  BY DEF Exclusive
<1>2. c \in Listed' => \A t \in Thread : conn'[t] # c
  BY PoolAssumption DEF Exclusive, Listed, Range, Held
<1> QED
  BY <1>1, <1>2, OwnerNow, OwnerOf

(* What a step passes on is what ResourcePool sees it move. *)
LEMMA PassMoves ==
    ASSUME Exclusive, NEW S \in SUBSET Conn, NEW from, NEW to, Promise!Pass(S, from, to)
    PROVE  Promise!Moved = S \/ Owner' = Owner
<1>1. Owner = [c \in Conn |-> Owner[c]]
  BY OwnerNow DEF OwnerBy
<1>2. /\ \A c \in S : Owner[c] = from
      /\ Owner' = [c \in Conn |-> IF c \in S THEN to ELSE Owner[c]]
  BY DEF Promise!Pass
<1>3. CASE from = to
  BY <1>1, <1>2, <1>3
<1>4. CASE from # to
  BY <1>1, <1>2, <1>4 DEF Promise!Moved
<1> QED
  BY <1>3, <1>4

LEMMA PassIsStep ==
    ASSUME Exclusive, NEW t \in Thread, NEW S \in SUBSET Conn,
           \/ Promise!Pass(S, "free", "gone") \/ Promise!Pass(S, t, "gone")
           \/ \E c \in Conn : S = {c} /\ \/ Promise!Pass(S, "free", t)
                                         \/ Promise!Pass(S, "gone", t)
                                         \/ Promise!Pass(S, t, "free")
    PROVE  [Promise!Next]_Owner
<1>1. Promise!Moved = S \/ Owner' = Owner
  BY PassMoves
<1>2. CASE Promise!Moved = S
  BY <1>2 DEF Promise!Next, Promise!Close, Promise!Drop, Promise!Take, Promise!Make, Promise!Give
<1> QED
  BY <1>1, <1>2

LEMMA PopTakes ==
    ASSUME TypeOK, Exclusive, Exclusive', NEW t \in Thread, Pop(t)
    PROVE  [Promise!Next]_Owner
<1> DEFINE n == node[t]
           s == List(n)
           c == Last(s)
<1>1. s \in Seq(Conn) /\ s # <<>> /\ n \in DOMAIN available /\ s = available[n]
  BY ListType DEF Pop, TypeOK, List, Get
<1>2. /\ conn' = [conn EXCEPT ![t] = c]
      /\ available' = [m \in DOMAIN available \cup {n} |->
                          IF m = n THEN Front(s) ELSE available[m]]
      /\ conn[t] = None
  BY DEF Pop, Put, TypeOK, Holding
<1>3. /\ DOMAIN Front(s) = 1 .. Len(s) - 1
      /\ \A i \in 1 .. Len(s) - 1 : Front(s)[i] = s[i]
      /\ c = s[Len(s)] /\ Len(s) \in DOMAIN s /\ c \in Conn
      /\ DOMAIN s = 1 .. Len(s)
  BY <1>1, FrontLast
<1> HIDE DEF s, n, c
<1>4. c \in Listed
  BY <1>1, <1>3 DEF Listed, Range
<1>5. \A d \in Conn \ {c} : d \in Listed <=> d \in Listed'
  <2>1. \A d \in Conn \ {c} : d \in Range(Front(s)) <=> d \in Range(s)
    BY <1>1, <1>3 DEF Range
  <2>2. /\ DOMAIN available' = DOMAIN available
        /\ available'[n] = Front(s)
        /\ \A m \in DOMAIN available : m # n => available'[m] = available[m]
    BY <1>1, <1>2
  <2> QED
    BY <1>1, <2>1, <2>2 DEF Listed
<1>6. \A d \in Conn \ {c} : \A u \in Thread : conn[u] = d <=> conn'[u] = d
  BY <1>2, PoolAssumption DEF TypeOK
<1>7. conn'[t] = c
  BY <1>2 DEF TypeOK
<1>8. Owner' = [d \in Conn |-> IF d \in {c} THEN t ELSE Owner[d]]
  <2>1. Owner'[c] = t
    BY <1>3, <1>7, OwnerAfter
  <2> QED
    BY <1>3, <1>5, <1>6, <2>1, OwnerMovesOne
<1>9. Promise!Pass({c}, "free", t)
  BY <1>3, <1>4, <1>8, OwnerBefore DEF Promise!Pass
<1> QED
  BY <1>3, <1>9, PassIsStep

LEMMA StoreMakes ==
    ASSUME TypeOK, Exclusive, Exclusive', NEW t \in Thread, Store(t)
    PROVE  [Promise!Next]_Owner
<1>1. PICK c \in Conn : /\ c \notin Listed \cup Held
                        /\ conn' = [conn EXCEPT ![t] = c] /\ available' = available
  BY DEF Store
<1>2. conn[t] = None /\ conn'[t] = c
  BY <1>1 DEF Store, TypeOK, Holding
<1>3. \A d \in Conn \ {c} : \A u \in Thread : conn[u] = d <=> conn'[u] = d
  BY <1>1, <1>2, PoolAssumption DEF TypeOK
<1>4. Owner' = [d \in Conn |-> IF d \in {c} THEN t ELSE Owner[d]]
  <2>1. Owner'[c] = t
    BY <1>2, OwnerAfter
  <2>2. Listed' = Listed
    BY <1>1 DEF Listed
  <2> QED
    BY <1>1, <1>3, <2>1, <2>2, OwnerMovesOne
<1>5. Promise!Pass({c}, "gone", t)
  BY <1>1, <1>4, OwnerBefore DEF Promise!Pass
<1> QED
  BY <1>5, PassIsStep

LEMMA AppendGives ==
    ASSUME TypeOK, Exclusive, Exclusive', NEW t \in Thread, ReleaseAppend(t)
    PROVE  [Promise!Next]_Owner
<1> DEFINE n == node[t]
           s == List(n)
           c == conn[t]
<1>1. s \in Seq(Conn) /\ c \in Conn
  BY ListType DEF ReleaseAppend, TypeOK, Holding
<1>2. /\ conn' = [conn EXCEPT ![t] = None]
      /\ available' = [m \in DOMAIN available \cup {n} |->
                          IF m = n THEN Append(s, c) ELSE available[m]]
  BY DEF ReleaseAppend, Put
<1>3. /\ DOMAIN Append(s, c) = 1 .. Len(s) + 1
      /\ \A i \in 1 .. Len(s) : Append(s, c)[i] = s[i]
      /\ Append(s, c)[Len(s) + 1] = c
      /\ DOMAIN s = 1 .. Len(s)
      /\ Len(s) \in Nat
  BY <1>1, AppendRange
<1>4. s = IF n \in DOMAIN available THEN available[n] ELSE <<>>
  BY DEF List, Get
<1>5. conn[t] = c
  OBVIOUS
<1> HIDE DEF s, n, c
<1>6. Range(Append(s, c)) = Range(s) \cup {c}
  BY <1>3 DEF Range
<1>7. Listed' = Listed \cup {c}
  <2>1. /\ DOMAIN available' = DOMAIN available \cup {n}
        /\ available'[n] = Append(s, c)
        /\ \A m \in DOMAIN available : m # n => available'[m] = available[m]
    BY <1>2
  <2>2. Range(s) = IF n \in DOMAIN available THEN Range(available[n]) ELSE {}
    BY <1>3, <1>4 DEF Range
  <2> QED
    BY <1>6, <2>1, <2>2 DEF Listed
<1>8. \A d \in Conn \ {c} : \A u \in Thread : conn[u] = d <=> conn'[u] = d
  BY <1>2, <1>5, PoolAssumption DEF TypeOK
<1>9. Owner' = [d \in Conn |-> IF d \in {c} THEN "free" ELSE Owner[d]]
  <2>1. Owner'[c] = "free"
    BY <1>1, <1>7, OwnerAfter
  <2>2. \A d \in Conn \ {c} : d \in Listed <=> d \in Listed'
    BY <1>7
  <2> QED
    BY <1>1, <1>8, <2>1, <2>2, OwnerMovesOne
<1>10. Promise!Pass({c}, t, "free")
  BY <1>1, <1>5, <1>9, OwnerBefore DEF Promise!Pass
<1> QED
  BY <1>1, <1>10, PassIsStep

(* A step that leaves the lists alone and at most drops its connection.    *)
LEMMA DropsOrNothing ==
    ASSUME TypeOK, Exclusive, Exclusive', NEW t \in Thread, available' = available,
           conn' = conn \/ conn' = [conn EXCEPT ![t] = None]
    PROVE  [Promise!Next]_Owner
<1>1. CASE conn' = conn
  BY <1>1, OwnerNow DEF Listed
<1>2. CASE conn' = [conn EXCEPT ![t] = None] /\ conn[t] = None
  <2>1. conn' = conn
    BY <1>2 DEF TypeOK
  <2> QED
    BY <1>1, <2>1
<1>3. CASE conn' = [conn EXCEPT ![t] = None] /\ conn[t] # None
  <2> DEFINE c == conn[t]
  <2>1. c \in Conn /\ c \in Held /\ conn[t] = c
    BY <1>3 DEF TypeOK, Held
  <2>2. Listed' = Listed
    BY DEF Listed
  <2>3. c \notin Listed
    BY <2>1, PoolAssumption DEF Exclusive, Listed, Range
  <2>4. \A u \in Thread : conn'[u] # c
    BY <1>3, PoolAssumption DEF TypeOK, Exclusive
  <2> HIDE DEF c
  <2>5. \A d \in Conn \ {c} : \A u \in Thread : conn[u] = d <=> conn'[u] = d
    BY <1>3, <2>1, PoolAssumption DEF TypeOK
  <2>6. Owner' = [d \in Conn |-> IF d \in {c} THEN "gone" ELSE Owner[d]]
    <3>1. Owner'[c] = "gone"
      BY <2>1, <2>2, <2>3, <2>4, OwnerAfter
    <3> QED
      BY <2>1, <2>2, <2>5, <3>1, OwnerMovesOne
  <2>7. Promise!Pass({c}, t, "gone")
    BY <2>1, <2>6, OwnerBefore DEF Promise!Pass
  <2> QED
    BY <2>1, <2>7, PassIsStep
<1> QED
  BY <1>1, <1>2, <1>3

LEMMA ResetCloses ==
    ASSUME TypeOK, Exclusive, Exclusive', NEW t \in Thread, ResetAvailable(t)
    PROVE  [Promise!Next]_Owner
<1> DEFINE S == Listed \cap Conn
<1>1. conn' = conn /\ Listed' = {}
  BY DEF ResetAvailable, Listed, Empty
<1>2. \A c \in S : \A u \in Thread : conn[u] # c
  BY PoolAssumption DEF Exclusive, Listed, Range, Held
<1>3. Owner' = [d \in Conn |-> IF d \in S THEN "gone" ELSE Owner[d]]
  <2>1. \A d \in S : Owner'[d] = "gone"
    BY <1>1, <1>2, OwnerAfter
  <2>2. \A d \in Conn \ S : d \in Listed <=> d \in Listed'
    BY <1>1
  <2>3. S \in SUBSET Conn /\ \A d \in Conn \ S : \A u \in Thread : conn[u] = d <=> conn'[u] = d
    BY <1>1
  <2> HIDE DEF S
  <2> QED
    BY <2>1, <2>2, <2>3, OwnerMoves
<1>4. Promise!Pass(S, "free", "gone")
  BY <1>3, OwnerBefore DEF Promise!Pass
<1> QED
  BY <1>4, PassIsStep

LEMMA ImplementsStep ==
    ASSUME TypeOK, Exclusive, Exclusive', [Next]_vars
    PROVE  [Promise!Next]_Owner
<1>1. CASE UNCHANGED vars
  BY <1>1, OwnerNow DEF vars, dicts, locals, Listed
<1>2. CASE Next
  <2>1. PICK t \in Thread : Acquire(t) \/ Use(t) \/ ClusterDown(t)
    BY <1>2 DEF Next
  <2>2. \/ Pop(t) \/ Store(t) \/ ReleaseAppend(t) \/ ResetAvailable(t)
        \/ /\ available' = available
           /\ conn' = conn \/ conn' = [conn EXCEPT ![t] = None]
    BY <2>1, OtherSteps
  <2> QED
    BY <2>2, PopTakes, StoreMakes, AppendGives, DropsOrNothing, ResetCloses
<1> QED
  BY <1>1, <1>2

(* The unlocked pool of dictionaries, lists and sets implements the pool   *)
(* that ResourcePool describes: a connection passes from free to one       *)
(* thread and back, in a single step each, and what a thread has taken is  *)
(* taken from it by nobody, through any calls, failures and resets.        *)
THEOREM PoolImplementsPool == Spec => ImplementsPool
<1>1. Init => Promise!Init
  <2> SUFFICES ASSUME Init PROVE Owner = [c \in Conn |-> "gone"]
    BY DEF Promise!Init
  <2>1. Listed = {} /\ \A t \in Thread : conn[t] = None
    BY DEF Init, Listed, Empty
  <2>2. \A c \in Conn : OwnerBy(conn, Listed)[c] = "gone"
    BY <2>1 DEF OwnerBy
  <2> QED
    BY <2>2, OwnerNow DEF OwnerBy
<1>2. TypeOK /\ Exclusive /\ Exclusive' /\ [Next]_vars => [Promise!Next]_Owner
  BY ImplementsStep
<1> QED
  BY <1>1, <1>2, PoolTypes, PoolExclusive, PTL DEF Spec, ImplementsPool, Promise!Spec
-----------------------------------------------------------------------------
(* Counting connections.  Live, by the places it is made of.               *)
InList(n, c)   == \E i \in DOMAIN List(n) : List(n)[i] = c
HoldsFor(n, c) == c # None /\ \E u \in Thread : node[u] = n /\ conn[u] = c
Placed(n, c)   == InList(n, c) \/ c \in Tracked(n) \/ HoldsFor(n, c)
LiveOK == \A n \in Node : \A c : c \in Live(n) <=> Placed(n, c)

LEMMA LiveNow == LiveOK
  BY DEF LiveOK, Live, Range, Placed, InList, HoldsFor

LEMMA LiveNext == LiveOK'
  BY LiveNow, PTL

(* What a step does to the places of the thread's node. *)
LEMMA LiveByPlaces ==
    ASSUME \A n \in Node : \A c : Placed(n, c)' <=> Placed(n, c)
    PROVE  \A n \in Node : Live(n)' = Live(n)
<1>1. \A n \in Node : \A c : c \in Live(n)' <=> c \in Live(n)
  BY LiveNow, LiveNext DEF LiveOK
<1> QED
  BY <1>1

(* Most steps move a connection between the places of one node, or none.   *)
Moves(t) ==
    \/ Pop(t) \/ Track(t) \/ ReleaseRemove(t) \/ ReleaseAppend(t)
    \/ /\ available' = available /\ inUse' = inUse /\ conn' = conn
       /\ node' = node \/ \E n \in Node : node' = [node EXCEPT ![t] = n] /\ conn[t] = None

(* The others make a connection, drop one or reset the pool.               *)
Drops(t) ==
    AssignSet(t) \/ TrackKeyError(t) \/ ScanFailure(t) \/ ResetAvailable(t) \/ ResetInUse(t)

LEMMA LiveSteps ==
    ASSUME TypeOK, NEW t \in Thread, Acquire(t) \/ Use(t) \/ ClusterDown(t)
    PROVE  Moves(t) \/ Drops(t) \/ Store(t)
<1>1. CASE \E k \in Kind, n \in Node : Call(t, k, n)
  BY <1>1 DEF Call, TypeOK, Holding, Moves, dicts
<1>2. CASE Acquire(t) /\ ~\E k \in Kind, n \in Node : Call(t, k, n)
  BY <1>2 DEF Acquire, PopEmpty, CheckLimit, TooManyConnections, SetDefault, Load,
              LoadKeyError, CheckSet, Moves, Drops, dicts
<1>3. CASE Use(t)
  BY <1>3 DEF Use, Send, Reply, Failure, Moves, Drops, dicts
<1>4. CASE ClusterDown(t)
  BY <1>4 DEF ClusterDown, DisconnectAll, DisconnectInterrupted, ResetCreated, Moves, Drops,
              dicts
<1> QED
  BY <1>1, <1>2, <1>3, <1>4

LEMMA LiveMoves ==
    ASSUME TypeOK, NEW t \in Thread, Moves(t)
    PROVE  \A n \in Node : Live(n)' = Live(n)
<1> USE DEF HoldsFor
<1>t. node[t] \in Node
  BY DEF TypeOK
<1>1. CASE Pop(t)
  <2> DEFINE s == List(node[t])
  <2>1. s \in Seq(Conn) /\ s # <<>>
    BY <1>1, <1>t, ListType DEF Pop
  <2> HIDE DEF s
  <2>2. /\ DOMAIN Front(s) = 1 .. Len(s) - 1 /\ DOMAIN s = 1 .. Len(s)
        /\ \A i \in 1 .. Len(s) - 1 : Front(s)[i] = s[i]
        /\ Last(s) = s[Len(s)] /\ Len(s) \in DOMAIN s /\ Last(s) \in Conn
    BY <2>1, FrontLast
  <2>3. \A n \in Node : List(n)' = IF n = node[t] THEN Front(s) ELSE List(n)
    BY <1>1 DEF Pop, List, Get, Put, s
  <2>4. \A n \in Node : Tracked(n)' = Tracked(n)
    BY <1>1 DEF Pop, Tracked
  <2>5. /\ conn[t] = None /\ conn'[t] = Last(s) /\ conn'[t] # None /\ node' = node
        /\ \A u \in Thread : u # t => conn'[u] = conn[u]
    BY <1>1, <2>2, PoolAssumption DEF Pop, TypeOK, Holding, s
  <2>6. \A n \in Node : \A c : 
           n = node[t] => (InList(n, c)' <=> \E i \in DOMAIN Front(s) : Front(s)[i] = c)
    BY <2>3, <2>5 DEF InList
  <2>7. \A c : InList(node[t], c) <=> \E i \in DOMAIN s : s[i] = c
    BY DEF InList, s
  <2>8. \A n \in Node : \A c : n = node[t] => (InList(n, c) <=> InList(n, c)' \/ c = Last(s))
    BY <2>1, <2>2, <2>6, <2>7
  <2>9. \A n \in Node : \A c : n # node[t] => InList(n, c)' = InList(n, c)
    BY <2>3, <2>5 DEF InList
  <2>10. \A n \in Node : \A c : HoldsFor(n, c)' <=> HoldsFor(n, c) \/ (n = node[t] /\ c = Last(s))
    BY <2>5
  <2>11. ASSUME NEW n \in Node, NEW c PROVE Placed(n, c)' <=> Placed(n, c)
    <3> HIDE DEF HoldsFor
    <3>1. CASE n = node[t]
      BY <2>4, <2>8, <2>10, <3>1, Zenon DEF Placed
    <3>2. CASE n # node[t]
      BY <2>4, <2>9, <2>10, <3>2 DEF Placed
    <3> QED
      BY <3>1, <3>2
  <2> QED
    BY <2>11, LiveByPlaces
<1>2. CASE Track(t)
  <2>1. \A n \in Node : Tracked(n)' = IF n = node[t] THEN Tracked(n) \cup {conn[t]}
                                      ELSE Tracked(n)
    BY <1>2 DEF Track, Tracked, Get, Put
  <2>2. HoldsFor(node[t], conn[t])
    BY <1>2 DEF Track, TypeOK, Holding
  <2>3. \A n \in Node : \A c : InList(n, c)' = InList(n, c) /\ HoldsFor(n, c)' = HoldsFor(n, c)
    BY <1>2 DEF Track, InList, List
  <2> QED
    BY <2>1, <2>2, <2>3, LiveByPlaces DEF Placed
<1>3. CASE ReleaseRemove(t)
  <2>1. \A n \in Node : /\ Tracked(n)' \subseteq Tracked(n)
                        /\ Tracked(n) \subseteq Tracked(n)' \cup
                              (IF n = node[t] THEN {conn[t]} ELSE {})
    BY <1>3 DEF ReleaseRemove, Tracked, Get
  <2>2. HoldsFor(node[t], conn[t])
    BY <1>3 DEF ReleaseRemove, TypeOK, Holding
  <2>3. \A n \in Node : \A c : InList(n, c)' = InList(n, c) /\ HoldsFor(n, c)' = HoldsFor(n, c)
    BY <1>3 DEF ReleaseRemove, InList, List
  <2> QED
    BY <2>1, <2>2, <2>3, LiveByPlaces DEF Placed
<1>4. CASE ReleaseAppend(t)
  <2> DEFINE s == List(node[t])  e == conn[t]
  <2>1. s \in Seq(Conn) /\ e \in Conn
    BY <1>4, <1>t, ListType DEF ReleaseAppend, TypeOK, Holding
  <2> HIDE DEF s
  <2>2. /\ DOMAIN Append(s, e) = 1 .. Len(s) + 1 /\ DOMAIN s = 1 .. Len(s)
        /\ \A i \in 1 .. Len(s) : Append(s, e)[i] = s[i]
        /\ Append(s, e)[Len(s) + 1] = e
    BY <2>1, AppendRange
  <2>3. \A n \in Node : List(n)' = IF n = node[t] THEN Append(s, e) ELSE List(n)
    BY <1>4 DEF ReleaseAppend, List, Get, Put, s
  <2>4. \A n \in Node : Tracked(n)' = Tracked(n)
    BY <1>4 DEF ReleaseAppend, Tracked
  <2>5. /\ conn[t] # None /\ conn'[t] = None /\ node' = node
        /\ \A u \in Thread : u # t => conn'[u] = conn[u]
    BY <1>4 DEF ReleaseAppend, TypeOK, Holding
  <2>6. \A n \in Node : \A c : 
           n = node[t] => (InList(n, c)' <=> \E i \in DOMAIN Append(s, e) : Append(s, e)[i] = c)
    BY <2>3, <2>5 DEF InList
  <2>7. \A c : InList(node[t], c) <=> \E i \in DOMAIN s : s[i] = c
    BY DEF InList, s
  <2>l. Len(s) \in Nat
    BY <2>1
  <2>8. \A n \in Node : \A c : n = node[t] => (InList(n, c)' <=> InList(n, c) \/ c = e)
    BY <2>l, <2>2, <2>6, <2>7
  <2>9. \A n \in Node : \A c : n # node[t] => InList(n, c)' = InList(n, c)
    BY <2>3, <2>5 DEF InList
  <2>10. \A n \in Node : \A c : HoldsFor(n, c) <=> HoldsFor(n, c)' \/ (HoldsFor(n, c) /\ n = node[t] /\ c = e)
    BY <2>5
  <2>11. HoldsFor(node[t], e)
    BY <2>5
  <2>12. ASSUME NEW n \in Node, NEW c PROVE Placed(n, c)' <=> Placed(n, c)
    <3> HIDE DEF HoldsFor
    <3>1. CASE n = node[t]
      BY <2>4, <2>8, <2>10, <2>11, <3>1 DEF Placed
    <3>2. CASE n # node[t]
      BY <2>4, <2>9, <2>10, <3>2 DEF Placed
    <3> QED
      BY <3>1, <3>2
  <2> QED
    BY <2>12, LiveByPlaces
<1>5. CASE /\ available' = available /\ inUse' = inUse /\ conn' = conn
           /\ node' = node \/ \E n \in Node : node' = [node EXCEPT ![t] = n] /\ conn[t] = None
  <2>1. \A n \in Node : \A c : /\ InList(n, c)' = InList(n, c) /\ Tracked(n)' = Tracked(n)
                               /\ HoldsFor(n, c)' = HoldsFor(n, c)
    BY <1>5 DEF InList, List, Tracked, TypeOK
  <2> QED
    BY <2>1, LiveByPlaces DEF Placed
<1> QED
  BY <1>1, <1>2, <1>3, <1>4, <1>5 DEF Moves

LEMMA LiveDrops ==
    ASSUME TypeOK, NEW t \in Thread, Drops(t)
    PROVE  \A n \in Node : Live(n)' \subseteq Live(n)
<1>1. \A n \in Node : \A c : InList(n, c)' => InList(n, c)
  BY DEF Drops, AssignSet, TrackKeyError, ScanFailure, ResetAvailable, ResetInUse, dicts,
         InList, List, Get, Empty
<1>2. \A n \in Node : Tracked(n)' \subseteq Tracked(n)
  BY DEF Drops, AssignSet, TrackKeyError, ScanFailure, ResetAvailable, ResetInUse, dicts,
         Tracked, Get, Put, Empty
<1>3. \A n \in Node : \A c : HoldsFor(n, c)' => HoldsFor(n, c)
  BY DEF Drops, AssignSet, TrackKeyError, ScanFailure, ResetAvailable, ResetInUse, TypeOK,
         HoldsFor
<1> QED
  BY <1>1, <1>2, <1>3, LiveNow, LiveNext DEF LiveOK, Placed

(* A connection that is made is one that nothing refers to. *)
LEMMA LiveMakes ==
    ASSUME TypeOK, NEW t \in Thread, Store(t)
    PROVE  \E c \in Conn : /\ \A n \in Node : c \notin Live(n)
                           /\ \A n \in Node : Live(n)' = IF n = node[t] THEN Live(n) \cup {c}
                                                          ELSE Live(n)
<1>1. PICK c \in Conn \ (Listed \cup Held \cup Recorded) : conn' = [conn EXCEPT ![t] = c]
  BY DEF Store
<1>2. /\ conn[t] = None /\ conn'[t] = c /\ c # None /\ node' = node
      /\ \A u \in Thread : u # t => conn'[u] = conn[u]
  BY <1>1, PoolAssumption DEF Store, TypeOK, Holding
<1>3. \A n \in Node : \A d : InList(n, d)' = InList(n, d) /\ Tracked(n)' = Tracked(n)
  BY DEF Store, InList, List, Tracked
<1>4. \A n \in Node : \A d : HoldsFor(n, d)' <=> HoldsFor(n, d) \/ (n = node[t] /\ d = c)
  BY <1>2 DEF HoldsFor
<1>5. \A n \in Node : ~InList(n, c) /\ c \notin Tracked(n) /\ ~HoldsFor(n, c)
  BY <1>1 DEF InList, List, Tracked, Get, HoldsFor, Listed, Held, Recorded, Range
<1>7. \A n \in Node : \A d : d \in Live(n)' <=> d \in Live(n) \/ (n = node[t] /\ d = c)
  BY <1>3, <1>4, LiveNow, LiveNext DEF LiveOK, Placed
<1>8. \A n \in Node : c \notin Live(n)
  BY <1>5, LiveNow DEF LiveOK, Placed
<1>9. \A n \in Node : Live(n)' = IF n = node[t] THEN Live(n) \cup {c} ELSE Live(n)
  BY <1>7
<1> QED
  BY <1>8, <1>9
-----------------------------------------------------------------------------
(* A node's connections are at most as many as the threads: room for each  *)
(* thread that has found the list empty is left when it does.              *)
Wanting(n) == {u \in Thread : /\ pc[u] \in {"count", "setdefault", "load", "store"}
                              /\ node[u] = n}
HasRoom(n) == /\ IsFiniteSet(Live(n))
              /\ Cardinality(Live(n)) + Cardinality(Wanting(n)) <= Cardinality(Thread)
RoomForAll == \A n \in Node : HasRoom(n)

LEMMA WantingFinite ==
    ASSUME IsFiniteSet(Thread), NEW n \in Node
    PROVE  /\ IsFiniteSet(Wanting(n)) /\ Cardinality(Wanting(n)) \in Nat
           /\ IsFiniteSet(Wanting(n)') /\ Cardinality(Wanting(n)') \in Nat
           /\ Cardinality(Thread) \in Nat
<1>1. Wanting(n) \in SUBSET Thread /\ Wanting(n)' \in SUBSET Thread
  BY DEF Wanting
<1> QED
  BY <1>1, FS_Subset, FS_CardinalityType

LEMMA RoomKept ==
    ASSUME IsFiniteSet(Thread), NEW n \in Node, HasRoom(n),
           Live(n)' \subseteq Live(n), Wanting(n)' \subseteq Wanting(n)
    PROVE  HasRoom(n)'
<1> DEFINE L == Live(n)  M == Live(n)'  W == Wanting(n)  X == Wanting(n)'
           N == Cardinality(Thread)
<1>1. /\ IsFiniteSet(L) /\ M \in SUBSET L /\ X \in SUBSET W
      /\ Cardinality(L) + Cardinality(W) <= N
  BY DEF HasRoom
<1>2. IsFiniteSet(W) /\ N \in Nat
  BY WantingFinite
<1> SUFFICES IsFiniteSet(M) /\ Cardinality(M) + Cardinality(X) <= N
  BY DEF HasRoom
<1> HIDE DEF L, M, W, X, N
<1>3. IsFiniteSet(M) /\ Cardinality(M) <= Cardinality(L)
  BY <1>1, FS_Subset
<1>4. IsFiniteSet(X) /\ Cardinality(X) <= Cardinality(W)
  BY <1>1, <1>2, FS_Subset
<1>5. /\ Cardinality(L) \in Nat /\ Cardinality(M) \in Nat
      /\ Cardinality(W) \in Nat /\ Cardinality(X) \in Nat
  BY <1>1, <1>2, <1>3, <1>4, FS_CardinalityType
<1> QED
  BY <1>1, <1>2, <1>3, <1>4, <1>5

LEMMA RoomMakes ==
    ASSUME TypeOK, IsFiniteSet(Thread), NEW n \in Node, HasRoom(n),
           NEW t \in Thread, Store(t), n = node[t],
           NEW c, Live(n)' = Live(n) \cup {c}
    PROVE  HasRoom(n)'
<1> DEFINE L == Live(n)  W == Wanting(n)  N == Cardinality(Thread)
<1>1. IsFiniteSet(L) /\ Cardinality(L) + Cardinality(W) <= N
  BY DEF HasRoom
<1>2. IsFiniteSet(W) /\ N \in Nat
  BY WantingFinite
<1>3. t \in W /\ Wanting(n)' = W \ {t}
  BY DEF Store, Wanting, Goto, TypeOK, Recording
<1> SUFFICES /\ IsFiniteSet(L \cup {c})
             /\ Cardinality(L \cup {c}) + Cardinality(W \ {t}) <= N
  BY <1>3 DEF HasRoom
<1> HIDE DEF L, W, N
<1>4. /\ IsFiniteSet(L \cup {c})
      /\ Cardinality(L \cup {c}) = IF c \in L THEN Cardinality(L) ELSE Cardinality(L) + 1
  BY <1>1, FS_AddElement
<1>5. Cardinality(W \ {t}) = Cardinality(W) - 1
  BY <1>2, <1>3, FS_RemoveElement
<1>6. Cardinality(L) \in Nat /\ Cardinality(W) \in Nat
  BY <1>1, <1>2, FS_CardinalityType
<1> QED
  BY <1>1, <1>2, <1>4, <1>5, <1>6

(* What is alive for a node with nothing on its list is in threads' hands, *)
(* and those threads want none.                                            *)
LEMMA RoomFound ==
    ASSUME TypeOK, NothingLeaks, IsFiniteSet(Thread), NEW n \in Node,
           NEW t \in Thread, PopEmpty(t), n = node[t]
    PROVE  HasRoom(n)'
<1> DEFINE L == Live(n)  X == Wanting(n)'  N == Cardinality(Thread)
           H == {u \in Thread : node[u] = n /\ conn[u] # None}
           f == [u \in H |-> conn[u]]
<1>1. Live(n)' = L
  BY LiveMoves DEF PopEmpty, Moves, dicts
<1>2. \A c : c \in L <=> c \in Tracked(n) \/ HoldsFor(n, c)
  BY LiveNow DEF LiveOK, Placed, InList, PopEmpty
<1>3. \A c \in Tracked(n) : c # None /\ \E u \in Thread : conn[u] = c /\ node[u] = n
  BY PoolAssumption DEF NothingLeaks, Tracked, Get, TypeOK
<1>4. \A c : c \in L <=> \E u \in H : c = conn[u]
  BY <1>2, <1>3 DEF HoldsFor
<1>5. f \in Surjection(H, L)
  BY <1>4 DEF Surjection
<1>6. H \cap X = {}
  BY DEF TypeOK, Holding, Wanting, PopEmpty, Goto
<1>7. H \in SUBSET Thread /\ X \in SUBSET Thread
  BY DEF Wanting
<1>8. N \in Nat
  BY WantingFinite
<1> SUFFICES IsFiniteSet(L) /\ Cardinality(L) + Cardinality(X) <= N
  BY <1>1 DEF HasRoom
<1> HIDE DEF L, X, H, f
<1>9. IsFiniteSet(H) /\ IsFiniteSet(X)
  BY <1>7, FS_Subset
<1>10. IsFiniteSet(L) /\ Cardinality(L) <= Cardinality(H)
  BY <1>5, <1>9, FS_Surjection
<1>11. H \cup X \in SUBSET Thread
  BY <1>7
<1>12. IsFiniteSet(H \cup X) /\ Cardinality(H \cup X) <= N
  BY <1>11, FS_Subset
<1>13. Cardinality(H \cup X) = Cardinality(H) + Cardinality(X) - Cardinality(H \cap X)
  BY <1>9, FS_Union
<1>14. Cardinality(H \cap X) = 0
  BY <1>6, FS_EmptySet
<1> HIDE DEF N
<1> QED
  BY <1>8, <1>9, <1>10, <1>12, <1>13, <1>14, FS_CardinalityType

LEMMA RoomStep ==
    ASSUME TypeOK, NothingLeaks, IsFiniteSet(Thread), RoomForAll,
           NEW t \in Thread, Acquire(t) \/ Use(t) \/ ClusterDown(t)
    PROVE  RoomForAll'
<1>0. node[t] \in Node
  BY DEF TypeOK
<1>1. ASSUME NEW n \in Node PROVE HasRoom(n)'
  <2>0. HasRoom(n)
    BY DEF RoomForAll
  <2>1. CASE PopEmpty(t) /\ n = node[t]
    BY <2>1, RoomFound
  <2>2. CASE Store(t) /\ n = node[t]
    <3>1. PICK c \in Conn : \A m \in Node : Live(m)' = IF m = node[t] THEN Live(m) \cup {c}
                                                       ELSE Live(m)
      BY <2>2, LiveMakes
    <3> QED
      BY <2>0, <2>2, <3>1, RoomMakes
  <2>3. CASE ~(PopEmpty(t) /\ n = node[t]) /\ ~(Store(t) /\ n = node[t])
    <3>1. Live(n)' \subseteq Live(n)
      <4>1. CASE Store(t)
        BY <2>3, <4>1, LiveMakes
      <4>2. CASE ~Store(t)
        BY <4>2, LiveSteps, LiveMoves, LiveDrops
      <4> QED
        BY <4>1, <4>2
    <3>2. Wanting(n)' \subseteq Wanting(n)
      <4> USE DEF Wanting, TypeOK, Goto, Recording
      <4>1. CASE Acquire(t)
        BY <2>3, <4>1 DEF Acquire, Call, Pop, PopEmpty, CheckLimit, TooManyConnections,
           SetDefault, Load, LoadKeyError, Store, CheckSet, AssignSet, Track, TrackKeyError
      <4>2. CASE Use(t)
        BY <4>2 DEF Use, Send, Reply, Failure, ScanFailure, ReleaseRemove, ReleaseAppend
      <4>3. CASE ClusterDown(t)
        BY <4>3 DEF ClusterDown, DisconnectAll, DisconnectInterrupted, ResetCreated,
                    ResetAvailable, ResetInUse
      <4> QED
        BY <4>1, <4>2, <4>3
    <3> QED
      BY <2>0, <3>1, <3>2, RoomKept
  <2> QED
    BY <2>1, <2>2, <2>3
<1> QED
  BY <1>1 DEF RoomForAll

(* make_connection lets threads pass a limit that none of them has locked, *)
(* and the counter may lag behind.  Still no node ever has more            *)
(* connections than there are threads, in the default pool of connection.py *)
(* and as long as scan_iter is not used.                                   *)
THEOREM PoolPerNodeBound ==
    ASSUME "scan" \notin Kind, IsFiniteSet(Thread)
    PROVE  Spec => []PerNodeBound
<1> DEFINE IInv == TypeOK /\ NothingLeaks /\ RoomForAll
<1>1. Init => RoomForAll
  <2> SUFFICES ASSUME Init, NEW n \in Node PROVE HasRoom(n)
    BY DEF RoomForAll
  <2>1. Live(n) = {} /\ Wanting(n) = {}
    BY DEF Init, Live, List, Tracked, Get, Range, Empty, Wanting
  <2> QED
    BY <2>1, FS_EmptySet, FS_CardinalityType DEF HasRoom
<1>2. IInv /\ [Next]_vars => RoomForAll'
  <2> SUFFICES ASSUME IInv, [Next]_vars PROVE RoomForAll'
    OBVIOUS
  <2>1. CASE UNCHANGED vars
    BY <2>1 DEF vars, dicts, locals, RoomForAll, HasRoom, Live, List, Tracked, Wanting
  <2>2. CASE Next
    BY <2>2, RoomStep DEF Next
  <2> QED
    BY <2>1, <2>2
<1>3. RoomForAll => PerNodeBound
  <2> SUFFICES ASSUME RoomForAll, NEW n \in Node
               PROVE  Cardinality(Live(n)) <= Cardinality(Thread)
    BY DEF PerNodeBound
  <2>1. Cardinality(Wanting(n)) \in Nat /\ Cardinality(Thread) \in Nat
    BY WantingFinite
  <2>2. IsFiniteSet(Live(n))
    BY DEF RoomForAll, HasRoom
  <2>3. Cardinality(Live(n)) \in Nat
    BY <2>2, FS_CardinalityType
  <2> QED
    BY <2>1, <2>3 DEF RoomForAll, HasRoom
<1> QED
  BY <1>1, <1>2, <1>3, PoolTypes, PoolNothingLeaks, PTL DEF Spec
-----------------------------------------------------------------------------
(* A client of one thread.  Its call finds what it has found before.       *)
OneThread == \E t : Thread = {t}

Sequential ==
    \A t \in Thread :
        /\ pc[t] \in {"load", "store"} => node[t] \in DOMAIN created
        /\ pc[t] = "store" => tmp[t] = created[node[t]]
        /\ pc[t] = "assign" => node[t] \notin DOMAIN inUse
        /\ pc[t] = "track" /\ kind[t] = "pubsub" => node[t] \in DOMAIN inUse
        /\ pc[t] \in {"held", "sent"} => conn[t] \in Tracked(node[t])
        /\ pc[t] \in {"reset_created", "reset_available", "reset_inuse"} => kind[t] # "nodes"
        /\ pc[t] \in {"reset_available", "reset_inuse"} => created = Empty
        /\ pc[t] = "reset_inuse" => available = Empty

LEMMA SequentialStep ==
    ASSUME TypeOK, Sequential, "nodes" \notin Kind, NEW t, Thread = {t},
           Acquire(t) \/ Use(t) \/ ClusterDown(t)
    PROVE  Sequential'
<1> USE DEF Sequential, TypeOK, Goto, dicts, Recording
<1>1. CASE Acquire(t)
  <2>1. CASE SetDefault(t) \/ Load(t) \/ LoadKeyError(t) \/ Store(t)
    BY <1>1, <2>1 DEF SetDefault, Load, LoadKeyError, Store, Put, Get
  <2>2. CASE CheckSet(t) \/ AssignSet(t) \/ Track(t) \/ TrackKeyError(t)
    BY <1>1, <2>2 DEF CheckSet, AssignSet, Track, TrackKeyError, Put, Get, Tracked
  <2>3. CASE \/ \E k \in Kind, n \in Node : Call(t, k, n)
             \/ Pop(t) \/ PopEmpty(t) \/ CheckLimit(t) \/ TooManyConnections(t)
    BY <1>1, <2>3 DEF Call, Pop, PopEmpty, CheckLimit, TooManyConnections
  <2> QED
    BY <1>1, <2>1, <2>2, <2>3 DEF Acquire
<1>2. CASE Use(t)
  BY <1>2 DEF Use, Send, Reply, Failure, ScanFailure, ReleaseRemove, ReleaseAppend, Tracked
<1>3. CASE ClusterDown(t)
  BY <1>3 DEF ClusterDown, DisconnectAll, DisconnectInterrupted, ResetCreated,
              ResetAvailable, ResetInUse, CallsReset, Empty
<1> QED
  BY <1>1, <1>2, <1>3

(* A thread alone loses no connection but in a reset, which leaves none.   *)
LEMMA NoneLost ==
    ASSUME TypeOK, Sequential, NEW t, Thread = {t}, Drops(t),
           ~ResetAvailable(t), ~ResetInUse(t)
    PROVE  \A n \in Node : Live(n)' = Live(n)
<1>0. t \in Thread
  OBVIOUS
<1>1. CASE AssignSet(t)
  <2>1. \A n \in Node : Tracked(n)' = Tracked(n)
    BY <1>1 DEF AssignSet, Sequential, Tracked, Get, Put
  <2>2. \A n \in Node : \A c : InList(n, c)' = InList(n, c) /\ HoldsFor(n, c)' = HoldsFor(n, c)
    BY <1>1 DEF AssignSet, InList, List, HoldsFor
  <2> QED
    BY <2>1, <2>2, LiveByPlaces DEF Placed
<1>2. CASE ScanFailure(t)
  <2>1. \A n \in Node : \A c : InList(n, c)' = InList(n, c) /\ Tracked(n)' = Tracked(n)
    BY <1>2 DEF ScanFailure, InList, List, Tracked, dicts
  <2>2. \A n \in Node : \A c : HoldsFor(n, c) => c \in Tracked(n)
    BY <1>2 DEF ScanFailure, Sequential, HoldsFor
  <2>3. \A n \in Node : \A c : ~HoldsFor(n, c)'
    BY <1>2 DEF ScanFailure, HoldsFor, TypeOK
  <2> QED
    BY <2>1, <2>2, <2>3, LiveByPlaces DEF Placed
<1>3. ~TrackKeyError(t)
  BY <1>0 DEF TrackKeyError, Sequential
<1> QED
  BY <1>1, <1>2, <1>3, <1>0 DEF Drops

LEMMA NoneLeft ==
    ASSUME TypeOK, Sequential, NEW t, Thread = {t}, ResetInUse(t)
    PROVE  \A n \in Node : Live(n)' = {} /\ Get(created, n, 0)' = 0
<1>1. available' = Empty /\ inUse' = Empty /\ created' = Empty
  BY DEF ResetInUse, Sequential
<1>2. \A n \in Node : \A c : ~InList(n, c)' /\ c \notin Tracked(n)'
  BY <1>1 DEF InList, List, Tracked, Get, Empty
<1>3. \A n \in Node : \A c : ~HoldsFor(n, c)'
  BY DEF ResetInUse, Sequential, HoldsFor, TypeOK
<1>4. \A n \in Node : \A c : c \notin Live(n)'
  BY <1>2, <1>3, LiveNext DEF LiveOK, Placed
<1>5. \A n \in Node : Get(created, n, 0)' = 0
  BY <1>1 DEF Get, Empty
<1> QED
  BY <1>4, <1>5

-----------------------------------------------------------------------------
(* The counters of such a client, and the limit they are kept for.         *)
AllLive == UNION {Live(n) : n \in Node}

(* The connections that count towards the limit of a node. *)
Against(n) == IF PerNode THEN Live(n) ELSE AllLive

Tallied ==
    /\ \A n \in Node : IsFiniteSet(Live(n))
    /\ IsFiniteSet(AllLive) /\ IsFiniteSet(Units)
    /\ ~Resetting => /\ \A n \in Node : Get(created, n, 0) = Cardinality(Live(n))
                     /\ Cardinality(AllLive) <= Cardinality(Units)
    /\ \A n \in Node : Cardinality(Against(n)) <= MaxConnections
    /\ \A t \in Thread : \A n \in Node :
          n = node[t] /\ pc[t] \in {"setdefault", "load", "store"}
             => Cardinality(Against(n)) < MaxConnections

(* Creating a connection counts it. *)
LEMMA UnitsStore ==
    ASSUME TypeOK, Sequential, NEW t \in Thread, Store(t)
    PROVE  /\ \A n \in Node : Get(created, n, 0)' =
                 IF n = node[t] THEN Get(created, n, 0) + 1 ELSE Get(created, n, 0)
           /\ <<node[t], created[node[t]] + 1>> \notin Units
           /\ Units' = Units \cup {<<node[t], created[node[t]] + 1>>}
<1> DEFINE m == node[t]  k == created[m]
<1>1. m \in DOMAIN created /\ k \in Nat /\ m \in Node
  BY DEF Store, Sequential, TypeOK
<1>2. /\ DOMAIN created' = DOMAIN created /\ created'[m] = k + 1
      /\ \A n \in DOMAIN created : n # m => created'[n] = created[n]
  <2>1. tmp[t] = k /\ tmp[t] # Discarded
    BY <1>1, PoolAssumption DEF Store, Sequential
  <2>2. created' = Put(created, m, k + 1)
    BY <2>1 DEF Store
  <2>3. DOMAIN created \cup {m} = DOMAIN created
    BY <1>1
  <2> QED
    BY <2>2, <2>3 DEF Put
<1>3. \A n \in Node : Get(created, n, 0)' =
         IF n = m THEN Get(created, n, 0) + 1 ELSE Get(created, n, 0)
  BY <1>1, <1>2 DEF Get
<1>4. \A x : x \in Units <=> \E n \in DOMAIN created : \E i \in 1 .. created[n] : x = <<n, i>>
  BY DEF Units
<1>5. \A x : x \in Units' <=> \E n \in DOMAIN created' : \E i \in 1 .. created'[n] : x = <<n, i>>
  BY DEF Units
<1>6. <<m, k + 1>> \notin Units
  BY <1>1, <1>4
<1>7. 1 .. k + 1 = (1 .. k) \cup {k + 1}
  BY <1>1
<1>8. \A x : x \in Units' <=> x \in Units \/ x = <<m, k + 1>>
  BY <1>1, <1>2, <1>4, <1>5, <1>7
<1> QED
  BY <1>3, <1>6, <1>8

(* All steps but those that count or reset. *)
LEMMA TallyKept ==
    ASSUME TypeOK, Sequential, NEW t, Thread = {t}, Acquire(t) \/ Use(t) \/ ClusterDown(t),
           ~Store(t), ~ResetCreated(t), ~ResetAvailable(t), ~ResetInUse(t)
    PROVE  /\ \A n \in Node : Live(n)' = Live(n) /\ Get(created, n, 0)' = Get(created, n, 0)
           /\ Units' = Units
           /\ Resetting => Resetting'
           /\ pc'[t] \in {"setdefault", "load", "store"} =>
                 /\ node' = node
                 /\ pc[t] \in {"setdefault", "load"} \/ CheckLimit(t)
<1>0. t \in Thread
  OBVIOUS
<1>1. \A n \in Node : Live(n)' = Live(n)
  BY <1>0, LiveSteps, LiveMoves, NoneLost
<1>2. SetDefault(t) \/ created' = created
  BY DEF Acquire, Use, ClusterDown, Call, Pop, PopEmpty, CheckLimit, TooManyConnections, Load,
         LoadKeyError, CheckSet, AssignSet, Track, TrackKeyError, Send, Reply, Failure,
         ScanFailure, ReleaseRemove, ReleaseAppend, DisconnectAll, DisconnectInterrupted, dicts
<1>3. /\ \A n \in Node : Get(created, n, 0)' = Get(created, n, 0)
      /\ Units' = Units
  <2>1. CASE created' = created
    BY <2>1 DEF Get, Units
  <2>2. CASE SetDefault(t) /\ node[t] \in DOMAIN created
    <3>1. DOMAIN created' = DOMAIN created /\ \A n \in DOMAIN created : created'[n] = created[n]
      BY <2>2 DEF SetDefault, Put, Get
    <3> QED
      BY <3>1 DEF Get, Units
  <2>3. CASE SetDefault(t) /\ node[t] \notin DOMAIN created
    <3>1. /\ DOMAIN created' = DOMAIN created \cup {node[t]} /\ created'[node[t]] = 0
          /\ \A n \in DOMAIN created : created'[n] = created[n]
      BY <2>3 DEF SetDefault, Put, Get
    <3>2. \A n \in Node : Get(created, n, 0)' = Get(created, n, 0)
      BY <2>3, <3>1 DEF Get
    <3>3. \A x : x \in Units <=> \E n \in DOMAIN created : \E i \in 1 .. created[n] : x = <<n, i>>
      BY DEF Units
    <3>4. \A x : x \in Units' <=> \E n \in DOMAIN created' : \E i \in 1 .. created'[n] : x = <<n, i>>
      BY DEF Units
    <3>5. 1 .. 0 = {}
      OBVIOUS
    <3>6. \A x : x \in Units' <=> x \in Units
      BY <3>1, <3>3, <3>4, <3>5
    <3> QED
      BY <3>2, <3>6
  <2> QED
    BY <1>2, <2>1, <2>2, <2>3
<1>4. /\ Resetting => Resetting'
      /\ pc'[t] \in {"setdefault", "load", "store"} =>
            node' = node /\ (pc[t] \in {"setdefault", "load"} \/ CheckLimit(t))
  <2> USE DEF Resetting, Goto, TypeOK, Recording
  <2>1. CASE Acquire(t)
    BY <2>1 DEF Acquire, Call, Pop, PopEmpty, CheckLimit, TooManyConnections,
       SetDefault, Load, LoadKeyError, CheckSet, AssignSet, Track, TrackKeyError
  <2>2. CASE Use(t)
    BY <2>2 DEF Use, Send, Reply, Failure, ScanFailure, ReleaseRemove, ReleaseAppend
  <2>3. CASE ClusterDown(t)
    BY <2>3 DEF ClusterDown, DisconnectAll, DisconnectInterrupted, CallsReset
  <2> QED
    BY <2>1, <2>2, <2>3
<1> QED
  BY <1>1, <1>3, <1>4
LEMMA TallyStore ==
    ASSUME TypeOK, Sequential, Tallied, NEW t, Thread = {t}, Store(t)
    PROVE  Tallied'
<1>0. t \in Thread /\ node[t] \in Node /\ node' = node
  BY DEF TypeOK, Store
<1>1. PICK c \in Conn : /\ \A n \in Node : c \notin Live(n)
                        /\ \A n \in Node : Live(n)' = IF n = node[t] THEN Live(n) \cup {c}
                                                      ELSE Live(n)
  BY <1>0, LiveMakes
<1>2. c \notin AllLive /\ AllLive' = AllLive \cup {c}
  BY <1>0, <1>1 DEF AllLive
<1>3. PICK x : x \notin Units /\ Units' = Units \cup {x}
  BY <1>0, UnitsStore
<1>4. \A n \in Node : /\ IsFiniteSet(Live(n)')
                      /\ Cardinality(Live(n)) \in Nat
                      /\ Cardinality(Live(n)') = IF n = node[t] THEN Cardinality(Live(n)) + 1
                                                 ELSE Cardinality(Live(n))
  BY <1>1, FS_AddElement, FS_CardinalityType DEF Tallied
<1>5. /\ IsFiniteSet(AllLive') /\ Cardinality(AllLive) \in Nat
      /\ Cardinality(AllLive') = Cardinality(AllLive) + 1
  BY <1>2, FS_AddElement, FS_CardinalityType DEF Tallied
<1>6. /\ IsFiniteSet(Units') /\ Cardinality(Units) \in Nat
      /\ Cardinality(Units') = Cardinality(Units) + 1
  BY <1>3, FS_AddElement, FS_CardinalityType DEF Tallied
<1>7. ~Resetting
  BY <1>0 DEF Store, Resetting
<1>8. \A n \in Node : Get(created, n, 0)' = Cardinality(Live(n)')
  BY <1>0, <1>4, <1>7, UnitsStore DEF Tallied
<1>9. Cardinality(AllLive') <= Cardinality(Units')
  BY <1>5, <1>6, <1>7 DEF Tallied
<1>10. \A n \in Node : Cardinality(Against(n)') <= MaxConnections
  <2>1. Cardinality(Against(node[t])) < MaxConnections
    BY <1>0 DEF Tallied, Store
  <2>2. CASE PerNode
    BY <2>1, <2>2, <1>0, <1>4, PoolAssumption DEF Tallied, Against
  <2>3. CASE ~PerNode
    BY <2>1, <2>3, <1>0, <1>5, PoolAssumption DEF Tallied, Against
  <2> QED
    BY <2>2, <2>3
<1>11. \A u \in Thread : pc'[u] \notin {"setdefault", "load", "store"}
  BY <1>0 DEF Store, Goto, TypeOK, Recording
<1> QED
  BY <1>4, <1>5, <1>6, <1>8, <1>9, <1>10, <1>11 DEF Tallied

LEMMA TallySame ==
    ASSUME TypeOK, Sequential, Tallied, NEW t, Thread = {t},
           Acquire(t) \/ Use(t) \/ ClusterDown(t),
           ~Store(t), ~ResetCreated(t), ~ResetAvailable(t), ~ResetInUse(t)
    PROVE  Tallied'
<1>0. t \in Thread /\ node[t] \in Node
  BY DEF TypeOK
<1>1. \A n \in Node : Live(n)' = Live(n) /\ Get(created, n, 0)' = Get(created, n, 0)
  BY TallyKept
<1>2. Units' = Units /\ (Resetting => Resetting')
  BY TallyKept
<1>3. AllLive' = AllLive /\ \A n \in Node : Against(n)' = Against(n)
  BY <1>1 DEF AllLive, Against
<1>4. ASSUME pc'[t] \in {"setdefault", "load", "store"}
      PROVE  Cardinality(Against(node[t])) < MaxConnections /\ node' = node
  <2>1. node' = node /\ (pc[t] \in {"setdefault", "load"} \/ CheckLimit(t))
    BY <1>4, TallyKept
  <2>2. CASE pc[t] \in {"setdefault", "load"}
    BY <2>1, <2>2, <1>0 DEF Tallied
  <2>3. CASE CheckLimit(t)
    <3>1. ~Resetting
      BY <2>3 DEF CheckLimit, Resetting
    <3>2. CountAll(node[t]) < MaxConnections
      BY <2>3 DEF CheckLimit
    <3>3. Cardinality(Against(node[t])) <= CountAll(node[t])
      BY <3>1, <1>0, FS_CardinalityType DEF Tallied, Against, CountAll
    <3>4. CountAll(node[t]) \in Nat /\ Cardinality(Against(node[t])) \in Nat
      BY <1>0, FS_CardinalityType DEF Tallied, Against, CountAll, Get, TypeOK
    <3> QED
      BY <2>1, <3>2, <3>3, <3>4, PoolAssumption
  <2> QED
    BY <2>1, <2>2, <2>3
<1>5. \A u \in Thread : \A n \in Node :
         n = node'[u] /\ pc'[u] \in {"setdefault", "load", "store"}
            => Cardinality(Against(n)') < MaxConnections
  BY <1>0, <1>3, <1>4
<1>6. /\ \A n \in Node : IsFiniteSet(Live(n)')
      /\ IsFiniteSet(AllLive') /\ IsFiniteSet(Units')
      /\ \A n \in Node : Cardinality(Against(n)') <= MaxConnections
  BY <1>1, <1>2, <1>3 DEF Tallied
<1>7. ~Resetting' => /\ \A n \in Node : Get(created, n, 0)' = Cardinality(Live(n)')
                     /\ Cardinality(AllLive') <= Cardinality(Units')
  BY <1>1, <1>2, <1>3 DEF Tallied
<1> QED
  BY <1>5, <1>6, <1>7 DEF Tallied

LEMMA TallyReset ==
    ASSUME TypeOK, Sequential, Tallied, NEW t, Thread = {t},
           ResetCreated(t) \/ ResetAvailable(t) \/ ResetInUse(t)
    PROVE  Tallied'
<1>0. t \in Thread
  OBVIOUS
<1>1. \A n \in Node : Live(n)' \subseteq Live(n)
  BY <1>0, LiveMoves, LiveDrops DEF ResetCreated, Moves, Drops
<1>2. AllLive' \subseteq AllLive
  BY <1>1 DEF AllLive
<1>3. Units' = {}
  BY DEF ResetCreated, ResetAvailable, ResetInUse, Sequential, Units, Empty
<1>4. /\ \A n \in Node : IsFiniteSet(Live(n)') /\ Cardinality(Live(n)') <= Cardinality(Live(n))
      /\ IsFiniteSet(AllLive') /\ Cardinality(AllLive') <= Cardinality(AllLive)
  BY <1>1, <1>2, FS_Subset DEF Tallied
<1>5. \A n \in Node : Cardinality(Against(n)') <= MaxConnections
  <2> SUFFICES ASSUME NEW n \in Node PROVE Cardinality(Against(n)') <= MaxConnections
    OBVIOUS
  <2>1. /\ Cardinality(Against(n)') <= Cardinality(Against(n))
        /\ IsFiniteSet(Against(n)') /\ IsFiniteSet(Against(n))
    BY <1>4 DEF Against, Tallied
  <2>2. Cardinality(Against(n)') \in Nat /\ Cardinality(Against(n)) \in Nat
    BY <2>1, FS_CardinalityType
  <2> QED
    BY <2>1, <2>2, PoolAssumption DEF Tallied
<1>6. ~Resetting' => /\ \A n \in Node : Get(created, n, 0)' = Cardinality(Live(n)')
                     /\ Cardinality(AllLive') <= Cardinality(Units')
  <2>1. CASE ResetInUse(t)
    <3>1. \A n \in Node : Live(n)' = {} /\ Get(created, n, 0)' = 0
      BY <2>1, NoneLeft
    <3>2. AllLive' = {}
      BY <3>1 DEF AllLive
    <3> QED
      BY <1>3, <3>1, <3>2, FS_EmptySet
  <2>2. CASE ~ResetInUse(t)
    BY <1>0, <2>2 DEF ResetCreated, ResetAvailable, Resetting, Goto, TypeOK
  <2> QED
    BY <2>1, <2>2
<1>7. \A u \in Thread : pc'[u] \notin {"setdefault", "load", "store"}
  BY <1>0 DEF ResetCreated, ResetAvailable, ResetInUse, Goto, TypeOK
<1> QED
  BY <1>3, <1>4, <1>5, <1>6, <1>7, FS_EmptySet DEF Tallied

LEMMA TallyInvariant ==
    ASSUME OneThread, "nodes" \notin Kind
    PROVE  Spec => [](TypeOK /\ Sequential /\ Tallied)
<1> DEFINE IInv == TypeOK /\ Sequential /\ Tallied
<1>1. Init => IInv
  <2> SUFFICES ASSUME Init PROVE Sequential /\ Tallied
    BY TypeInit
  <2>1. Sequential
    BY DEF Init, Sequential
  <2>2. \A n \in Node : Live(n) = {}
    BY DEF Init, Live, List, Tracked, Get, Range, Empty
  <2>3. AllLive = {} /\ Units = {} /\ \A n \in Node : Get(created, n, 0) = 0
    BY <2>2 DEF Init, AllLive, Units, Empty, Get
  <2>4. \A n \in Node : Against(n) = {}
    BY <2>2, <2>3 DEF Against
  <2>5. \A t \in Thread : pc[t] = "idle"
    BY DEF Init
  <2> QED
    BY <2>1, <2>2, <2>3, <2>4, <2>5, FS_EmptySet, PoolAssumption DEF Tallied
<1>2. IInv /\ [Next]_vars => IInv'
  <2> SUFFICES ASSUME IInv, [Next]_vars PROVE Sequential' /\ Tallied'
    BY TypeStep
  <2>1. CASE UNCHANGED vars
    <3>1. Sequential'
      BY <2>1 DEF vars, dicts, locals, Sequential, Tracked
    <3>2. \A n \in Node : Live(n)' = Live(n) /\ Get(created, n, 0)' = Get(created, n, 0)
      BY <2>1 DEF vars, dicts, locals, Live, List, Tracked
    <3>3. Units' = Units /\ Resetting' = Resetting /\ pc' = pc /\ node' = node
      BY <2>1 DEF vars, dicts, locals, Units, Resetting
    <3>4. AllLive' = AllLive /\ \A n \in Node : Against(n)' = Against(n)
      BY <3>2 DEF AllLive, Against
    <3> QED
      BY <3>1, <3>2, <3>3, <3>4 DEF Tallied
  <2>2. CASE Next
    <3>1. PICK t : Thread = {t}
      BY DEF OneThread
    <3>2. Acquire(t) \/ Use(t) \/ ClusterDown(t)
      BY <2>2, <3>1 DEF Next
    <3> QED
      BY <3>1, <3>2, SequentialStep, TallyStore, TallySame, TallyReset
  <2> QED
    BY <2>1, <2>2
<1> QED
  BY <1>1, <1>2, PTL DEF Spec

(* _created_connections_per_node, which only make_connection and reset of   *)
(* connection.py write, counts every connection of a node, through reuse,  *)
(* failures, what scan_iter leaks and CLUSTERDOWN, if one thread uses the  *)
(* client and does not send to several nodes.                              *)
THEOREM PoolCounterExact ==
    ASSUME OneThread, "nodes" \notin Kind
    PROVE  Spec => []CounterExact
<1>1. Tallied => CounterExact
  BY DEF Tallied, CounterExact
<1> QED
  BY <1>1, TallyInvariant, PTL

(* "max_connections": under the same conditions no more connections are    *)
(* open at once, for a node or in all as max_connections_per_node says.    *)
THEOREM PoolOpenBound ==
    ASSUME OneThread, "nodes" \notin Kind
    PROVE  Spec => []OpenBound
<1>1. Tallied => OpenBound
  <2> SUFFICES ASSUME Tallied PROVE OpenBound
    OBVIOUS
  <2>1. CASE PerNode
    <3>1. \A n \in Node : /\ Cardinality(Open(n)) <= Cardinality(Live(n))
                          /\ IsFiniteSet(Open(n)) /\ IsFiniteSet(Live(n))
      BY FS_Subset DEF Tallied, Open
    <3> QED
      BY <2>1, <3>1, FS_CardinalityType, PoolAssumption DEF OpenBound, Tallied, Against
  <2>2. CASE ~PerNode
    <3> DEFINE O == UNION {Open(n) : n \in Node}
    <3>1. O \in SUBSET AllLive
      BY DEF Open, AllLive
    <3>2. IsFiniteSet(O) /\ Cardinality(O) <= Cardinality(AllLive) /\ IsFiniteSet(AllLive)
      BY <3>1, FS_Subset DEF Tallied
    <3>3. Cardinality(O) \in Nat /\ Cardinality(AllLive) \in Nat
      BY <3>2, FS_CardinalityType
    <3>4. CASE Node = {}
      BY <2>2, <3>4, FS_EmptySet, PoolAssumption DEF OpenBound
    <3>5. CASE Node # {}
      BY <2>2, <3>2, <3>3, <3>5, PoolAssumption DEF OpenBound, Tallied, Against
    <3> QED
      BY <3>4, <3>5
  <2> QED
    BY <2>1, <2>2
<1> QED
  BY <1>1, TallyInvariant, PTL
=============================================================================
