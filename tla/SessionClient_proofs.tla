------------------------- MODULE SessionClient_proofs -------------------------
(***************************************************************************)
(* What holds of the host's session client for any number of streams,      *)
(* waiters, ids and turns, whatever the adapter sends.                     *)
(*                                                                         *)
(* The invariant is a conjunction of four parts, one for each group of     *)
(* variables that change together, so that a step disturbs few of them.    *)
(***************************************************************************)
EXTENDS SessionClient, FiniteSetTheorems, TLAPS

RegistryPart == /\ careful \in BOOLEAN
                /\ registered \in BOOLEAN
                /\ registrations \in Nat
                /\ used \in SUBSET Id

\* Entries of pendingTurns stand for open streams, each its own, under an id
\* that was used; a careful host has an entry for every open stream, and one
\* entry for each turn.
StreamPart ==
    /\ pendingTurns \in [Id -> Stream \cup {None}]
    /\ turnId \in [Stream -> TurnId \cup {None}]
    /\ stream \in [Stream -> StreamState]
    /\ \A p \in Id : pendingTurns[p] # None =>
          /\ p \in used
          /\ stream[pendingTurns[p]] = "open"
          /\ \A q \in Id : pendingTurns[q] = pendingTurns[p] => q = p
    /\ careful => \A s \in Stream : stream[s] = "open" =>
          registered /\ \E id \in Id : pendingTurns[id] = s
    /\ careful => \A p, q \in Id :
          /\ pendingTurns[p] # None /\ pendingTurns[q] # None
          /\ turnId[pendingTurns[p]] = turnId[pendingTurns[q]]
          => p = q

WaiterPart ==
    /\ controlWaiters \in [Id -> Waiter \cup {None}]
    /\ expects \in [Waiter -> Expected]
    /\ waiter \in [Waiter -> WaiterState]
    /\ \A p \in Id : controlWaiters[p] # None =>
          /\ p \in used
          /\ waiter[controlWaiters[p]] = "waiting"
          /\ \A q \in Id : controlWaiters[q] = controlWaiters[p] => q = p
    /\ careful => \A w \in Waiter : waiter[w] = "waiting" =>
          registered /\ \E id \in Id : controlWaiters[id] = w

\* The deltas among the first n messages of a sequence.
DeltasUpTo(messages, n) == {j \in 1..n : messages[j] # 0}

\* The counter of a stream is the number of deltas pushed to it.
DeltaPart ==
    /\ delivered \in [Stream -> Seq(Nat)]
    /\ sequence \in [Stream -> Nat]
    /\ \A s \in Stream :
         sequence[s] = Cardinality(DeltasUpTo(delivered[s], Len(delivered[s])))
    /\ \A s \in Stream : \A k \in 1..Len(delivered[s]) :
         delivered[s][k] # 0 =>
             delivered[s][k] = Cardinality(DeltasUpTo(delivered[s], k))

IInv == RegistryPart /\ StreamPart /\ WaiterPart /\ DeltaPart

-----------------------------------------------------------------------------
USE NoneAssumption, LimitAssumption
    DEF StreamState, WaiterState, Expected, turnVars, waiterVars, registry

LEMMA DeltasFinite ==
    ASSUME NEW messages, NEW n \in Nat
    PROVE  IsFiniteSet(DeltasUpTo(messages, n))
  <1>1. IsFiniteSet(1..n)
    BY FS_Interval
  <1>2. DeltasUpTo(messages, n) \subseteq 1..n
    BY DEF DeltasUpTo
  <1> QED BY <1>1, <1>2, FS_Subset

LEMMA InitHolds == Init => IInv
  <1> SUFFICES ASSUME Init PROVE IInv
    OBVIOUS
  <1>1. RegistryPart /\ StreamPart /\ WaiterPart
    BY DEF Init, RegistryPart, StreamPart, WaiterPart
  <1>2. ASSUME NEW s \in Stream
        PROVE  /\ delivered[s] = <<>> /\ sequence[s] = 0
               /\ Len(delivered[s]) = 0 /\ 1..Len(delivered[s]) = {}
               /\ DeltasUpTo(delivered[s], Len(delivered[s])) = {}
    BY DEF Init, DeltasUpTo
  <1>3. delivered \in [Stream -> Seq(Nat)] /\ sequence \in [Stream -> Nat]
    BY DEF Init
  <1>4. Cardinality({}) = 0
    BY FS_EmptySet
  <1>5. DeltaPart
    BY <1>2, <1>3, <1>4 DEF DeltaPart
  <1> QED BY <1>1, <1>5 DEF IInv

(***************************************************************************)
(* The parts one by one.                                                   *)
(***************************************************************************)

\* One message goes to a stream.
LEMMA PushHolds ==
    ASSUME DeltaPart, NEW s \in Stream, NEW isDelta \in BOOLEAN,
           Push(s, isDelta)
    PROVE  DeltaPart'
  <1> DEFINE n == Len(delivered[s])
             m == IF isDelta THEN sequence[s] + 1 ELSE 0
  <1>1. /\ n \in Nat /\ m \in Nat
        /\ delivered' = [delivered EXCEPT ![s] = Append(delivered[s], m)]
        /\ delivered[s] \in Seq(Nat)
    BY DEF DeltaPart, Push
  <1>2. /\ delivered'[s] \in Seq(Nat) /\ Len(delivered'[s]) = n + 1
        /\ \A k \in 1..n : delivered'[s][k] = delivered[s][k]
        /\ delivered'[s][n + 1] = m
    BY <1>1 DEF DeltaPart
  <1>3. \A k \in 1..n :
          DeltasUpTo(delivered'[s], k) = DeltasUpTo(delivered[s], k)
    BY <1>1, <1>2 DEF DeltasUpTo
  <1>4. DeltasUpTo(delivered'[s], n) = DeltasUpTo(delivered[s], n)
    BY <1>1, <1>2 DEF DeltasUpTo
  <1>5. DeltasUpTo(delivered'[s], n + 1) =
          IF m # 0 THEN DeltasUpTo(delivered[s], n) \cup {n + 1}
          ELSE DeltasUpTo(delivered[s], n)
    BY <1>1, <1>2 DEF DeltasUpTo
  <1>6. n + 1 \notin DeltasUpTo(delivered[s], n)
    BY <1>1 DEF DeltasUpTo
  <1>7. sequence[s] = Cardinality(DeltasUpTo(delivered[s], n))
    BY DEF DeltaPart
  <1>8. /\ sequence' \in [Stream -> Nat]
        /\ sequence'[s] = IF isDelta THEN sequence[s] + 1 ELSE sequence[s]
        /\ \A t \in Stream \ {s} : sequence'[t] = sequence[t]
    BY DEF Push, DeltaPart
  <1>9. sequence'[s] = Cardinality(DeltasUpTo(delivered'[s], n + 1))
    <2>1. CASE isDelta
      <3>1. Cardinality(DeltasUpTo(delivered[s], n) \cup {n + 1})
              = Cardinality(DeltasUpTo(delivered[s], n)) + 1
        BY <1>1, <1>6, DeltasFinite, FS_AddElement
      <3>2. m # 0
        BY <2>1 DEF DeltaPart
      <3> QED BY <2>1, <3>1, <3>2, <1>5, <1>7, <1>8
    <2>2. CASE ~isDelta
      BY <2>2, <1>5, <1>7, <1>8
    <2> QED BY <2>1, <2>2
  <1>10. m # 0 => m = Cardinality(DeltasUpTo(delivered'[s], n + 1))
    BY <1>8, <1>9
  <1>11. delivered' \in [Stream -> Seq(Nat)]
    BY <1>1 DEF DeltaPart
  <1>12. \A t \in Stream \ {s} : delivered'[t] = delivered[t]
    BY <1>1 DEF DeltaPart
  <1>13. ASSUME NEW t \in Stream
         PROVE  sequence'[t] =
                  Cardinality(DeltasUpTo(delivered'[t], Len(delivered'[t])))
    <2>1. CASE t = s
      BY <2>1, <1>2, <1>9
    <2>2. CASE t # s
      BY <2>2, <1>8, <1>12 DEF DeltaPart
    <2> QED BY <2>1, <2>2
  <1>14. ASSUME NEW t \in Stream, NEW k \in 1..Len(delivered'[t]),
                delivered'[t][k] # 0
         PROVE  delivered'[t][k] = Cardinality(DeltasUpTo(delivered'[t], k))
    <2>1. CASE t = s /\ k = n + 1
      BY <2>1, <1>2, <1>10, <1>14
    <2>2. CASE t = s /\ k # n + 1
      <3>1. k \in 1..n
        BY <2>2, <1>1, <1>2
      <3> QED BY <2>2, <3>1, <1>2, <1>3, <1>14 DEF DeltaPart
    <2>3. CASE t # s
      BY <2>3, <1>12, <1>14 DEF DeltaPart
    <2> QED BY <2>1, <2>2, <2>3
  <1> QED BY <1>8, <1>11, <1>13, <1>14 DEF DeltaPart

LEMMA DeltasStay ==
    ASSUME DeltaPart, UNCHANGED <<delivered, sequence>>
    PROVE  DeltaPart'
  BY DEF DeltaPart

\* An entry goes and its stream ends.
LEMMA SettleHolds ==
    ASSUME StreamPart, NEW p \in Id, pendingTurns[p] # None,
           NEW outcome \in StreamState, outcome # "open", Settle(p, outcome),
           UNCHANGED <<registry, turnId, used>>
    PROVE  StreamPart'
  <1>1. pendingTurns[p] \in Stream
    BY DEF StreamPart
  <1>2. /\ pendingTurns' = [pendingTurns EXCEPT ![p] = None]
        /\ stream' = [stream EXCEPT ![pendingTurns[p]] = outcome]
        /\ UNCHANGED <<careful, registered, turnId, used>>
    BY DEF Settle
  <1>3. \A q \in Id : q # p /\ pendingTurns[q] # None =>
          /\ pendingTurns[q] \in Stream
          /\ pendingTurns[q] # pendingTurns[p]
    BY DEF StreamPart
  <1>4. \A q \in Id : pendingTurns'[q] = IF q = p THEN None ELSE pendingTurns[q]
    BY <1>2 DEF StreamPart
  <1>5. \A s \in Stream :
          stream'[s] = IF s = pendingTurns[p] THEN outcome ELSE stream[s]
    BY <1>2 DEF StreamPart
  <1>6. /\ pendingTurns' \in [Id -> Stream \cup {None}]
        /\ turnId' \in [Stream -> TurnId \cup {None}]
        /\ stream' \in [Stream -> StreamState]
    BY <1>1, <1>2 DEF StreamPart
  <1>7. \A q \in Id : pendingTurns'[q] # None =>
          /\ q \in used'
          /\ stream'[pendingTurns'[q]] = "open"
          /\ \A r \in Id : pendingTurns'[r] = pendingTurns'[q] => r = q
    BY <1>2, <1>3, <1>4, <1>5 DEF StreamPart
  <1>8. careful' => \A s \in Stream : stream'[s] = "open" =>
          registered' /\ \E id \in Id : pendingTurns'[id] = s
    BY <1>2, <1>4, <1>5 DEF StreamPart
  <1>9. careful' => \A q, r \in Id :
          /\ pendingTurns'[q] # None /\ pendingTurns'[r] # None
          /\ turnId'[pendingTurns'[q]] = turnId'[pendingTurns'[r]]
          => q = r
    BY <1>2, <1>4 DEF StreamPart
  <1> QED BY <1>6, <1>7, <1>8, <1>9 DEF StreamPart

LEMMA StreamsStay ==
    ASSUME StreamPart, UNCHANGED <<registry, pendingTurns, turnId, stream>>,
           used \subseteq used'
    PROVE  StreamPart'
  BY DEF StreamPart

LEMMA ResolveHolds ==
    ASSUME WaiterPart, NEW p \in Id, controlWaiters[p] # None, Resolve(p),
           UNCHANGED <<registry, used>>
    PROVE  WaiterPart'
  <1>1. controlWaiters[p] \in Waiter
    BY DEF WaiterPart
  <1>2. \A q \in Id :
          controlWaiters'[q] = IF q = p THEN None ELSE controlWaiters[q]
    BY DEF WaiterPart, Resolve
  <1>3. \A w \in Waiter : waiter'[w] =
          IF w = controlWaiters[p] THEN "resolved" ELSE waiter[w]
    BY DEF WaiterPart, Resolve
  <1>4. /\ controlWaiters' \in [Id -> Waiter \cup {None}]
        /\ expects' \in [Waiter -> Expected]
        /\ waiter' \in [Waiter -> WaiterState]
    BY <1>1 DEF WaiterPart, Resolve
  <1>5. \A q \in Id : q # p /\ controlWaiters[q] # None =>
          /\ controlWaiters[q] \in Waiter
          /\ controlWaiters[q] # controlWaiters[p]
    BY DEF WaiterPart
  <1> QED BY <1>2, <1>3, <1>4, <1>5 DEF WaiterPart

LEMMA WaitersStay ==
    ASSUME WaiterPart, UNCHANGED <<registry, waiterVars>>, used \subseteq used'
    PROVE  WaiterPart'
  BY DEF WaiterPart

(***************************************************************************)
(* The steps.                                                              *)
(***************************************************************************)

\* The new SessionState of a careful host replaces none that holds something.
LEMMA RegisterHolds == ASSUME IInv, RegisterSession PROVE IInv'
  <1> USE DEF RegisterSession
  <1>1. StreamPart'
    BY DEF IInv, StreamPart
  <1>2. WaiterPart'
    BY DEF IInv, WaiterPart
  <1>3. DeltaPart'
    BY DeltasStay DEF IInv
  <1>4. RegistryPart'
    BY DEF IInv, RegistryPart
  <1> QED BY <1>1, <1>2, <1>3, <1>4 DEF IInv

LEMMA CloseHolds == ASSUME IInv, CloseSession PROVE IInv'
  <1> USE DEF CloseSession
  <1>1. StreamPart'
    BY DEF IInv, StreamPart
  <1>2. WaiterPart'
    BY DEF IInv, WaiterPart
  <1>3. DeltaPart'
    BY DeltasStay DEF IInv
  <1>4. RegistryPart'
    BY DEF IInv, RegistryPart
  <1> QED BY <1>1, <1>2, <1>3, <1>4 DEF IInv

\* A new entry: the stream was idle, so no entry stood for it; the id of a
\* careful host is new, so its entry replaces none.
LEMMA RequestStreamHolds ==
    ASSUME IInv, NEW s \in Stream, NEW turn \in TurnId, NEW id \in Id,
           NEW sent \in BOOLEAN, RequestTurnStream(s, turn, id, sent)
    PROVE  IInv'
  <1>1. /\ registered /\ stream[s] = "idle"
        /\ used' = used \cup {id} /\ (careful => id \notin used)
        /\ careful => \A p \in PendingIds : turnId[pendingTurns[p]] # turn
        /\ turnId' = [turnId EXCEPT ![s] = turn]
        /\ pendingTurns' =
              [pendingTurns EXCEPT ![id] = IF sent THEN s ELSE None]
        /\ stream' = [stream EXCEPT ![s] = IF sent THEN "open" ELSE "failed"]
        /\ UNCHANGED <<registry, delivered, sequence, waiterVars>>
    BY DEF RequestTurnStream, FreshId
  <1>2. StreamPart
    BY DEF IInv
  <1>3. /\ pendingTurns' \in [Id -> Stream \cup {None}]
        /\ turnId' \in [Stream -> TurnId \cup {None}]
        /\ stream' \in [Stream -> StreamState]
        /\ \A q \in Id : pendingTurns'[q] =
              IF q = id THEN IF sent THEN s ELSE None ELSE pendingTurns[q]
        /\ \A t \in Stream : stream'[t] =
              IF t = s THEN IF sent THEN "open" ELSE "failed" ELSE stream[t]
        /\ \A t \in Stream :
              turnId'[t] = IF t = s THEN turn ELSE turnId[t]
    BY <1>1, <1>2 DEF StreamPart
  <1>4. \A q \in Id : pendingTurns[q] # None =>
          pendingTurns[q] \in Stream /\ pendingTurns[q] # s
    BY <1>1, <1>2 DEF StreamPart
  <1>5. careful => pendingTurns[id] = None
    BY <1>1, <1>2 DEF StreamPart
  <1>6. \A p \in Id : pendingTurns'[p] # None =>
          /\ p \in used'
          /\ stream'[pendingTurns'[p]] = "open"
          /\ \A q \in Id : pendingTurns'[q] = pendingTurns'[p] => q = p
    BY <1>1, <1>2, <1>3, <1>4 DEF StreamPart
  <1>7. ASSUME careful', NEW t \in Stream, stream'[t] = "open"
        PROVE  registered' /\ \E q \in Id : pendingTurns'[q] = t
    <2>1. CASE t = s
      BY <2>1, <1>1, <1>3, <1>7
    <2>2. CASE t # s
      <3>1. PICK q \in Id : pendingTurns[q] = t
        BY <2>2, <1>1, <1>2, <1>3, <1>7 DEF StreamPart
      <3> QED BY <3>1, <1>1, <1>3, <1>5, <1>7
    <2> QED BY <2>1, <2>2
  <1>8. ASSUME careful', NEW p \in Id, NEW q \in Id,
               pendingTurns'[p] # None, pendingTurns'[q] # None,
               turnId'[pendingTurns'[p]] = turnId'[pendingTurns'[q]]
        PROVE  p = q
    <2>1. CASE p = id \/ q = id
      BY <2>1, <1>1, <1>3, <1>4, <1>8 DEF PendingIds
    <2>2. CASE p # id /\ q # id
      BY <2>2, <1>1, <1>2, <1>3, <1>4, <1>8 DEF StreamPart
    <2> QED BY <2>1, <2>2
  <1>9. StreamPart'
    BY <1>3, <1>6, <1>7, <1>8 DEF StreamPart
  <1>10. WaiterPart'
    BY <1>1, WaitersStay DEF IInv
  <1>11. DeltaPart'
    BY <1>1, DeltasStay DEF IInv
  <1>12. RegistryPart'
    BY <1>1 DEF IInv, RegistryPart
  <1> QED BY <1>9, <1>10, <1>11, <1>12 DEF IInv

LEMMA RequestControlHolds ==
    ASSUME IInv, NEW w \in Waiter, NEW type \in Expected, NEW id \in Id,
           NEW sent \in BOOLEAN, RequestControl(w, type, id, sent)
    PROVE  IInv'
  <1>1. /\ registered /\ waiter[w] = "idle"
        /\ used' = used \cup {id} /\ (careful => id \notin used)
        /\ expects' = [expects EXCEPT ![w] = type]
        /\ controlWaiters' =
              [controlWaiters EXCEPT ![id] = IF sent THEN w ELSE None]
        /\ waiter' =
              [waiter EXCEPT ![w] = IF sent THEN "waiting" ELSE "rejected"]
        /\ UNCHANGED <<registry, turnVars>>
    BY DEF RequestControl, FreshId
  <1>2. WaiterPart
    BY DEF IInv
  <1>3. /\ controlWaiters' \in [Id -> Waiter \cup {None}]
        /\ expects' \in [Waiter -> Expected]
        /\ waiter' \in [Waiter -> WaiterState]
        /\ \A q \in Id : controlWaiters'[q] =
              IF q = id THEN IF sent THEN w ELSE None ELSE controlWaiters[q]
        /\ \A v \in Waiter : waiter'[v] =
              IF v = w THEN IF sent THEN "waiting" ELSE "rejected"
              ELSE waiter[v]
    BY <1>1, <1>2 DEF WaiterPart
  <1>4. \A q \in Id : controlWaiters[q] # None =>
          controlWaiters[q] \in Waiter /\ controlWaiters[q] # w
    BY <1>1, <1>2 DEF WaiterPart
  <1>5. \A p \in Id : controlWaiters'[p] # None =>
          /\ p \in used'
          /\ waiter'[controlWaiters'[p]] = "waiting"
          /\ \A q \in Id : controlWaiters'[q] = controlWaiters'[p] => q = p
    BY <1>1, <1>2, <1>3, <1>4 DEF WaiterPart
  <1>6. ASSUME careful', NEW v \in Waiter, waiter'[v] = "waiting"
        PROVE  registered' /\ \E q \in Id : controlWaiters'[q] = v
    <2>1. CASE v = w
      BY <2>1, <1>1, <1>3, <1>6
    <2>2. CASE v # w
      <3>1. PICK q \in Id : controlWaiters[q] = v
        BY <2>2, <1>1, <1>2, <1>3, <1>6 DEF WaiterPart
      <3>2. q # id
        BY <3>1, <1>1, <1>2, <1>6 DEF WaiterPart
      <3> QED BY <3>1, <3>2, <1>1, <1>3
    <2> QED BY <2>1, <2>2
  <1>7. WaiterPart'
    BY <1>3, <1>5, <1>6 DEF WaiterPart
  <1>8. StreamPart'
    BY <1>1, StreamsStay DEF IInv
  <1>9. DeltaPart'
    BY <1>1, DeltasStay DEF IInv
  <1>10. RegistryPart'
    BY <1>1 DEF IInv, RegistryPart
  <1> QED BY <1>7, <1>8, <1>9, <1>10 DEF IInv

\* What a message is routed to is an entry of the map.
LEMMA RoutesHeld ==
    ASSUME NEW id, NEW turn, NEW p \in Routes(id, turn)
    PROVE  p \in Id /\ pendingTurns[p] # None
  BY DEF Routes, PendingIds

LEMMA ResponseHolds ==
    ASSUME IInv, NEW id \in Id, NEW type \in Expected,
           ReceiveResponse(id, type)
    PROVE  IInv'
  <1> USE DEF ReceiveResponse
  <1>1. WaiterPart'
    BY ResolveHolds DEF IInv, MayMatch
  <1>2. StreamPart' /\ DeltaPart'
    BY StreamsStay, DeltasStay DEF IInv
  <1>3. RegistryPart'
    BY DEF IInv, RegistryPart
  <1> QED BY <1>1, <1>2, <1>3 DEF IInv

LEMMA TurnMessageHolds ==
    ASSUME IInv, NEW id \in Id \cup {None}, NEW turn \in TurnId \cup {None},
           NEW isDelta \in BOOLEAN, ReceiveTurnMessage(id, turn, isDelta)
    PROVE  IInv'
  <1>1. PICK p \in Routes(id, turn) : Push(pendingTurns[p], isDelta)
    BY DEF ReceiveTurnMessage
  <1>2. pendingTurns[p] \in Stream
    BY RoutesHeld DEF IInv, StreamPart
  <1>3. DeltaPart'
    BY <1>1, <1>2, PushHolds DEF IInv
  <1>4. StreamPart' /\ WaiterPart'
    BY StreamsStay, WaitersStay DEF IInv, ReceiveTurnMessage
  <1>5. RegistryPart'
    BY DEF IInv, RegistryPart, ReceiveTurnMessage
  <1> QED BY <1>3, <1>4, <1>5 DEF IInv

LEMMA TurnEndHolds ==
    ASSUME IInv, NEW id \in Id \cup {None}, NEW turn \in TurnId \cup {None},
           ReceiveTurnEnd(id, turn)
    PROVE  IInv'
  <1>1. PICK p \in Routes(id, turn) :
          Push(pendingTurns[p], FALSE) /\ Settle(p, "ended")
    BY DEF ReceiveTurnEnd
  <1>2. pendingTurns[p] \in Stream /\ p \in Id /\ pendingTurns[p] # None
    BY RoutesHeld DEF IInv, StreamPart
  <1>3. DeltaPart'
    BY <1>1, <1>2, PushHolds DEF IInv
  <1>4. StreamPart'
    BY <1>1, <1>2, SettleHolds DEF IInv, ReceiveTurnEnd
  <1>5. WaiterPart'
    BY WaitersStay DEF IInv, ReceiveTurnEnd
  <1>6. RegistryPart'
    BY DEF IInv, RegistryPart, ReceiveTurnEnd
  <1> QED BY <1>3, <1>4, <1>5, <1>6 DEF IInv

LEMMA FailedHolds ==
    ASSUME IInv, NEW id \in Id, ReceiveFailed(id)
    PROVE  IInv'
  <1> USE DEF ReceiveFailed
  <1>1. StreamPart'
    BY SettleHolds DEF IInv, PendingIds
  <1>2. WaiterPart' /\ DeltaPart'
    BY WaitersStay, DeltasStay DEF IInv
  <1>3. RegistryPart'
    BY DEF IInv, RegistryPart
  <1> QED BY <1>1, <1>2, <1>3 DEF IInv

LEMMA InterruptResultHolds ==
    ASSUME IInv, NEW id \in Id \cup {None}, NEW turn \in TurnId \cup {None},
           NEW interrupted \in BOOLEAN,
           ReceiveInterruptResult(id, turn, interrupted)
    PROVE  IInv'
  <1> USE DEF ReceiveInterruptResult
  <1>1. WaiterPart'
    <2>1. CASE MayMatch(id, "session.interrupt.result") /\ Resolve(id)
      BY <2>1, ResolveHolds DEF IInv, MayMatch
    <2>2. CASE UNCHANGED waiterVars
      BY <2>2, WaitersStay DEF IInv
    <2> QED BY <2>1, <2>2
  <1>2. StreamPart'
    <2>1. CASE UNCHANGED <<pendingTurns, stream>>
      BY <2>1, StreamsStay DEF IInv
    <2>2. CASE \E p \in Routes(None, turn) : Settle(p, "interrupted")
      <3>1. PICK p \in Routes(None, turn) : Settle(p, "interrupted")
        BY <2>2
      <3> QED BY <3>1, RoutesHeld, SettleHolds DEF IInv
    <2> QED BY <2>1, <2>2
  <1>3. DeltaPart'
    BY DeltasStay DEF IInv
  <1>4. RegistryPart'
    BY DEF IInv, RegistryPart
  <1> QED BY <1>1, <1>2, <1>3, <1>4 DEF IInv

LEMMA NextHolds == IInv /\ [Next]_vars => IInv'
  <1> SUFFICES ASSUME IInv, [Next]_vars PROVE IInv'
    OBVIOUS
  <1>1. CASE HostCalls
    BY <1>1, RegisterHolds, CloseHolds, RequestStreamHolds,
       RequestControlHolds DEF HostCalls
  <1>2. CASE AdapterMessages
    BY <1>2, TurnMessageHolds, TurnEndHolds, InterruptResultHolds
       DEF AdapterMessages
  <1>3. CASE CorrelatedMessages
    BY <1>3, FailedHolds, ResponseHolds DEF CorrelatedMessages
  <1>4. CASE UNCHANGED vars
    <2>1. RegistryPart'
      BY <1>4 DEF IInv, RegistryPart, vars
    <2> QED BY <1>4, <2>1, StreamsStay, WaitersStay, DeltasStay DEF IInv, vars
  <1> QED BY <1>1, <1>2, <1>3, <1>4 DEF Next

-----------------------------------------------------------------------------
\* The strengthening the properties follow from.
THEOREM Invariance == Spec => []IInv
  BY InitHolds, NextHolds, PTL DEF Spec

\* Every variable keeps its type.
THEOREM ClientTypes == Spec => []TypeOK
  <1>1. IInv => TypeOK
    BY DEF IInv, RegistryPart, StreamPart, WaiterPart, DeltaPart, TypeOK
  <1> QED BY <1>1, Invariance, PTL

\* What the maps of the session hold is unsettled, each under one id: nothing is
\* settled twice, whatever the adapter sends and however careless the host is.
THEOREM HeldOnce == Spec => []HeldIsUnsettled
  <1>1. IInv => HeldIsUnsettled
    BY DEF IInv, StreamPart, WaiterPart, HeldIsUnsettled, PendingIds
  <1> QED BY <1>1, Invariance, PTL

\* A careful host loses no stream and no waiter: every unsettled one is held by
\* the registered session.
THEOREM NothingIsLost == Spec => []UnsettledIsHeld
  <1>1. IInv => UnsettledIsHeld
    BY DEF IInv, StreamPart, WaiterPart, UnsettledIsHeld
  <1> QED BY <1>1, Invariance, PTL

\* A settled stream is held under no id, so no step reaches it; and a delta's
\* number is how many were pushed to its stream.
THEOREM StreamsSound == Spec => StreamsAreSound
  <1>1. ASSUME IInv, [Next]_vars, NEW s \in Stream,
               stream[s] \in {"ended", "failed", "interrupted"}
        PROVE  stream'[s] = stream[s] /\ delivered'[s] = delivered[s]
    <2>1. \A p \in Id : pendingTurns[p] # s
      BY <1>1 DEF IInv, StreamPart
    <2>2. \A t \in Stream, d \in BOOLEAN :
            t # s /\ Push(t, d) => delivered'[s] = delivered[s]
      BY <1>1 DEF IInv, DeltaPart, Push
    <2>3. \A p \in Id, how \in StreamState :
            Settle(p, how) => stream'[s] = stream[s]
      BY <1>1, <2>1 DEF IInv, StreamPart, Settle
    <2>4. CASE HostCalls
      BY <1>1, <2>1, <2>4 DEF HostCalls, RegisterSession, CloseSession,
         RequestTurnStream, RequestControl, IInv, StreamPart
    <2>5. CASE AdapterMessages
      <3>1. ASSUME NEW id, NEW turn, NEW p \in Routes(id, turn)
            PROVE  p \in Id /\ pendingTurns[p] \in Stream \ {s}
        BY <3>1, <1>1, <2>1, RoutesHeld DEF IInv, StreamPart
      <3>2. PICK id \in Id \cup {None}, turn \in TurnId \cup {None} :
              \/ \E d \in BOOLEAN : ReceiveTurnMessage(id, turn, d)
              \/ ReceiveTurnEnd(id, turn)
              \/ \E d \in BOOLEAN : ReceiveInterruptResult(id, turn, d)
        BY <2>5 DEF AdapterMessages
      <3>3. CASE \E d \in BOOLEAN : ReceiveTurnMessage(id, turn, d)
        BY <3>3, <3>1, <2>2 DEF ReceiveTurnMessage
      <3>4. CASE ReceiveTurnEnd(id, turn)
        BY <3>4, <3>1, <2>2, <2>3 DEF ReceiveTurnEnd
      <3>5. CASE \E d \in BOOLEAN : ReceiveInterruptResult(id, turn, d)
        BY <3>5, <3>1, <2>3 DEF ReceiveInterruptResult
      <3> QED BY <3>2, <3>3, <3>4, <3>5
    <2>6. CASE CorrelatedMessages
      BY <2>6, <2>3 DEF CorrelatedMessages, ReceiveFailed, ReceiveResponse
    <2>7. CASE UNCHANGED vars
      BY <2>7 DEF vars
    <2> QED BY <1>1, <2>4, <2>5, <2>6, <2>7 DEF Next
  <1>2. IInv /\ IInv' /\ [Next]_vars =>
          [/\ DeltasAreNumbered'
           /\ \A s \in Stream :
                stream[s] \in {"ended", "failed", "interrupted"} =>
                  stream'[s] = stream[s] /\ delivered'[s] = delivered[s]]_vars
    <2>1. IInv' => DeltasAreNumbered'
      BY DEF IInv, DeltaPart, DeltasAreNumbered, DeltasUpTo
    <2> QED BY <1>1, <2>1
  <1> QED BY <1>2, Invariance, PTL DEF Spec, StreamsAreSound

\* The result of an interrupt settles the one stream a careful host has open for
\* the turn, under whatever id it is held by then.
THEOREM InterruptSettles == Spec => InterruptEndsTheTurn
  <1>1. ASSUME IInv, careful, NEW id \in Id \cup {None}, NEW turn \in TurnId,
               NEW interrupted \in BOOLEAN,
               ReceiveInterruptResult(id, turn, interrupted),
               NEW s \in Stream, turnId[s] = turn
        PROVE  stream'[s] # "open"
    <2>1. CASE stream[s] = "open"
      <3>1. PICK p \in Id : pendingTurns[p] = s
        BY <1>1, <2>1 DEF IInv, StreamPart
      <3>2. Routes(None, turn) =
              {q \in PendingIds : turnId[pendingTurns[q]] = turn}
        BY DEF Routes, PendingIds
      <3>3. p \in Routes(None, turn)
        BY <3>1, <3>2, <1>1 DEF PendingIds
      <3>4. PICK q \in Routes(None, turn) : Settle(q, "interrupted")
        BY <3>3, <1>1 DEF ReceiveInterruptResult
      <3>5. q = p
        BY <3>1, <3>2, <1>1 DEF IInv, StreamPart, PendingIds
      <3> QED BY <3>1, <3>4, <3>5, <1>1 DEF Settle, IInv, StreamPart
    <2>2. CASE stream[s] # "open"
      <3>1. \A p \in Routes(None, turn) : pendingTurns[p] \in Stream
        BY <1>1, RoutesHeld DEF IInv, StreamPart
      <3> QED BY <3>1, <2>2, <1>1
              DEF ReceiveInterruptResult, Settle, IInv, StreamPart
    <2> QED BY <2>1, <2>2
  <1>2. IInv /\ [Next]_vars =>
          [careful =>
             \A id \in Id \cup {None}, turn \in TurnId,
                interrupted \in BOOLEAN :
                ReceiveInterruptResult(id, turn, interrupted) =>
                   \A s \in Stream : turnId[s] = turn =>
                      stream'[s] # "open"]_vars
    BY <1>1
  <1> QED BY <1>2, Invariance, PTL DEF Spec, InterruptEndsTheTurn
=============================================================================
