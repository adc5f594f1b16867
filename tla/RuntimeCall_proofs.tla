-------------------------- MODULE RuntimeCall_proofs --------------------------
(***************************************************************************)
(* What holds of every invoke and threads call, for any streams and any    *)
(* number of messages, and that the emitter implements the abstract        *)
(* channel.                                                                *)
(***************************************************************************)
EXTENDS RuntimeCall, FiniteSetTheorems, SequenceTheorems, TLAPS

\* The call is settled once a terminal message is emitted.
SettledByTerminal ==
    \A k \in DOMAIN emitted : emitted[k].kind \in Terminal => settled

\* The sink is called only while it has not thrown, for a message that is there.
SinkingInOrder ==
    sinking => ~broken /\ taken < Len(emitted)

\* A threads call is settled when its handler has ended, so that its terminal
\* message is among those that drain waits for.
ThreadsSettle ==
    /\ settled => \E k \in DOMAIN emitted : emitted[k].kind \in Terminal
    /\ Threads /\ phase \notin {"idle", "running"} => settled
    /\ Threads /\ phase \in {"draining", "resolved", "rejected"} =>
         \E k \in 1..owed : emitted[k].kind \in Terminal

QueueInv == /\ DeliveredInOrder
            /\ SinkingInOrder
            /\ ResolvedMeansDelivered

\* Nothing happens before the call is accepted or refused.
Handling == phase = "idle" => ~handled /\ ~settled

IInv == /\ TypeOK
        /\ Handling
        /\ TerminalIsFinal
        /\ SettledByTerminal
        /\ ThreadsSettle
        /\ QueueInv

-----------------------------------------------------------------------------
USE StreamAssumption, CallAssumption
    DEF Phase, Terminal, Kind, contextVars, queueVars

LEMMA InitHolds == Init => IInv
  <1> SUFFICES ASSUME Init PROVE IInv
    OBVIOUS
  <1>3. handled \in BOOLEAN /\ settled \in BOOLEAN
        /\ sinking \in BOOLEAN /\ broken \in BOOLEAN
    BY DEF Init
  <1>4. emitted \in Seq(Message) /\ delivered \in Seq(Message)
    BY DEF Init
  <1>1. TypeOK
    BY <1>3, <1>4 DEF Init, TypeOK
  <1>2. emitted = <<>> /\ delivered = <<>> /\ DOMAIN emitted = {}
        /\ Len(emitted) = 0 /\ Len(delivered) = 0 /\ DOMAIN delivered = {}
    BY DEF Init
  <1> QED BY <1>1, <1>2 DEF Init, IInv, Handling, TerminalIsFinal,
        SettledByTerminal, ThreadsSettle, QueueInv, DeliveredInOrder,
        SinkingInOrder, ResolvedMeansDelivered

(***************************************************************************)
(* Steps that emit.  What they add is what the invariant asks of it: only  *)
(* events once the call is settled, a terminal message only as the last.   *)
(***************************************************************************)
Extends ==
    /\ emitted' \in Seq(Message)
    /\ Len(emitted') >= Len(emitted)
    /\ \A k \in 1..Len(emitted) : emitted'[k] = emitted[k]
    /\ \A k \in Len(emitted)+1..Len(emitted') :
         /\ settled => emitted'[k].kind = "event"
         /\ emitted'[k].kind \in Terminal => k = Len(emitted')

SettlesWith ==
    /\ settled' \in BOOLEAN
    /\ settled => settled'
    /\ settled' /\ ~settled =>
           /\ Len(emitted') > Len(emitted)
           /\ emitted'[Len(emitted')].kind \in Terminal
    /\ /\ Len(emitted') > Len(emitted)
       /\ emitted'[Len(emitted')].kind \in Terminal
       => settled'

Adds == Extends /\ SettlesWith

LEMMA PlainIsMessage ==
    ASSUME NEW kinds, kinds \in Seq(Kind)
    PROVE  /\ Plain(kinds) \in Seq(Message)
           /\ Len(Plain(kinds)) = Len(kinds)
           /\ \A k \in 1..Len(kinds) : Plain(kinds)[k].kind = kinds[k]
           /\ \A k \in 1..Len(kinds) : Plain(kinds)[k].stream = NoStream
  BY DEF Plain, Message

LEMMA EmitAdds ==
    ASSUME TypeOK, NEW kinds \in Seq(Kind), Emit(kinds),
           \A k \in 1..Len(kinds) :
             /\ settled => kinds[k] = "event"
             /\ kinds[k] \in Terminal => k = Len(kinds),
           settled' \in BOOLEAN, settled => settled',
           settled' /\ ~settled =>
             Len(kinds) > 0 /\ kinds[Len(kinds)] \in Terminal,
           Len(kinds) > 0 /\ kinds[Len(kinds)] \in Terminal => settled'
    PROVE  Adds
  <1> DEFINE more == Plain(kinds)
  <1>1. /\ more \in Seq(Message) /\ Len(more) = Len(kinds)
        /\ \A k \in 1..Len(kinds) : more[k].kind = kinds[k]
    BY PlainIsMessage
  <1>2. emitted \in Seq(Message) /\ emitted' = emitted \o more
    BY DEF TypeOK, Emit
  <1> HIDE DEF more
  <1>3. /\ emitted' \in Seq(Message)
        /\ Len(emitted') = Len(emitted) + Len(more)
    <2>1. /\ emitted \o more \in Seq(Message)
          /\ Len(emitted \o more) = Len(emitted) + Len(more)
      BY <1>1, <1>2, ConcatProperties
    <2> QED BY <1>2, <2>1
  <1>n. Len(emitted) \in Nat /\ Len(kinds) \in Nat
    BY <1>2
  <1>8. ASSUME NEW k \in 1..Len(emitted)
        PROVE  emitted'[k] = emitted[k]
    BY <1>1, <1>2
  <1>4. ASSUME NEW k \in Len(emitted)+1..Len(emitted')
        PROVE  /\ k - Len(emitted) \in 1..Len(kinds)
               /\ emitted'[k].kind = kinds[k - Len(emitted)]
    <2>1. k - Len(emitted) \in 1..Len(kinds)
      BY <1>1, <1>3, <1>n
    <2>2. emitted'[k] = more[k - Len(emitted)]
      BY <1>1, <1>2, <1>n, <2>1
    <2> QED BY <1>1, <2>1, <2>2
  <1>5. ASSUME NEW k \in Len(emitted)+1..Len(emitted')
        PROVE  /\ settled => emitted'[k].kind = "event"
               /\ emitted'[k].kind \in Terminal => k = Len(emitted')
    <2>1. k - Len(emitted) = Len(kinds) => k = Len(emitted')
      BY <1>1, <1>3, <1>n
    <2> QED BY <1>4, <2>1
  <1>6. ASSUME Len(kinds) > 0
        PROVE  emitted'[Len(emitted')].kind = kinds[Len(kinds)]
    <2>1. Len(emitted') \in Len(emitted)+1..Len(emitted')
          /\ Len(emitted') - Len(emitted) = Len(kinds)
      BY <1>1, <1>3, <1>n, <1>6
    <2> QED BY <1>4, <2>1
  <1>7. Len(emitted') > Len(emitted) <=> Len(kinds) > 0
    BY <1>1, <1>3, <1>n
  <1>9. Extends
    BY <1>1, <1>3, <1>n, <1>5, <1>8 DEF Extends
  <1> QED BY <1>3, <1>6, <1>7, <1>9 DEF Adds, SettlesWith

LEMMA AddsHolds ==
    ASSUME IInv, Adds, UNCHANGED <<queueVars, owed>>,
           phase' \in Phase, handled' \in BOOLEAN,
           numbers' \in [Stream -> Nat], Handling',
           \/ phase' = phase
           \/ phase \in {"idle", "running"} /\ phase' \in {"running", "ended"},
           Threads /\ phase' = "ended" => settled'
    PROVE  IInv'
  <1> USE DEF IInv
  <1> DEFINE n == Len(emitted)
             m == Len(emitted')
  <1>1. /\ n \in Nat /\ m \in Nat /\ n <= m
        /\ emitted \in Seq(Message) /\ emitted' \in Seq(Message)
        /\ DOMAIN emitted = 1..n /\ DOMAIN emitted' = 1..m
    BY DEF TypeOK, Adds, Extends
  <1>2. settled' \in BOOLEAN
    BY DEF Adds, SettlesWith
  <1>3. TypeOK'
    BY <1>1, <1>2 DEF TypeOK
  <1>4. TerminalIsFinal'
    <2>1. ASSUME NEW j \in 1..m, NEW k \in 1..m, j < k,
                 emitted'[j].kind \in Terminal
          PROVE  emitted'[k].kind = "event"
      <3>1. CASE j \notin 1..n
        <4>1. j \in n+1..m
          BY <1>1, <3>1
        <4>2. j = m
          BY <2>1, <4>1 DEF Adds, Extends
        <4> QED BY <1>1, <2>1, <4>2
      <3>2. CASE j \in 1..n /\ k \in 1..n
        BY <1>1, <2>1, <3>2 DEF Adds, Extends, TerminalIsFinal
      <3>3. CASE j \in 1..n /\ k \notin 1..n
        <4>1. settled
          BY <1>1, <2>1, <3>3 DEF Adds, Extends, SettledByTerminal
        <4>2. k \in n+1..m
          BY <1>1, <3>3
        <4> QED BY <4>1, <4>2 DEF Adds, Extends
      <3> QED BY <3>1, <3>2, <3>3
    <2> QED BY <1>1, <2>1 DEF TerminalIsFinal
  <1>5. SettledByTerminal'
    <2>1. ASSUME NEW k \in 1..m, emitted'[k].kind \in Terminal
          PROVE  settled'
      <3>1. CASE k \in 1..n
        BY <1>1, <2>1, <3>1 DEF Adds, Extends, SettlesWith, SettledByTerminal
      <3>2. CASE k \notin 1..n
        <4>1. k \in n+1..m
          BY <1>1, <3>2
        <4>2. k = m
          BY <2>1, <4>1 DEF Adds, Extends
        <4>3. n < m
          BY <1>1, <4>1
        <4> QED BY <2>1, <4>2, <4>3 DEF Adds, SettlesWith
      <3> QED BY <3>1, <3>2
    <2> QED BY <1>1, <2>1 DEF SettledByTerminal
  <1>6. ThreadsSettle'
    <2>1. settled' => \E k \in 1..m : emitted'[k].kind \in Terminal
      <3>1. CASE settled
        <4>1. PICK k \in 1..n : emitted[k].kind \in Terminal
          BY <1>1, <3>1 DEF ThreadsSettle
        <4>2. k \in 1..m
          BY <1>1
        <4>3. emitted'[k] = emitted[k]
          BY DEF Adds, Extends
        <4> QED BY <4>1, <4>2, <4>3
      <3>2. CASE ~settled
        <4>1. ASSUME settled'
              PROVE  m \in 1..m /\ emitted'[m].kind \in Terminal
          BY <1>1, <3>2, <4>1 DEF Adds, SettlesWith
        <4> QED BY <4>1
      <3> QED BY <3>1, <3>2
    <2>2. Threads /\ phase' \notin {"idle", "running"} => settled'
      BY DEF ThreadsSettle, Adds, SettlesWith
    <2>3. ASSUME Threads, phase' \in {"draining", "resolved", "rejected"}
          PROVE  \E k \in 1..owed' : emitted'[k].kind \in Terminal
      <3>1. PICK k \in 1..owed : emitted[k].kind \in Terminal
        BY <2>3 DEF ThreadsSettle
      <3>2. k \in 1..n
        BY <1>1 DEF TypeOK
      <3> QED BY <1>1, <3>1, <3>2 DEF Adds, Extends
    <2> QED BY <1>1, <2>1, <2>2, <2>3 DEF ThreadsSettle
  <1>7. QueueInv'
    <2>1. Len(delivered) <= m
      BY <1>1 DEF QueueInv, DeliveredInOrder, TypeOK
    <2>2. \A k \in DOMAIN delivered : delivered[k] = emitted'[k]
      <3>1. DOMAIN delivered = 1..Len(delivered) /\ Len(delivered) \in Nat
        BY DEF TypeOK
      <3>2. ASSUME NEW k \in 1..Len(delivered)
            PROVE  delivered[k] = emitted'[k]
        <4>1. k \in 1..n /\ delivered[k] = emitted[k]
          BY <1>1, <3>1 DEF QueueInv, DeliveredInOrder
        <4> QED BY <4>1 DEF Adds, Extends
      <3> QED BY <3>1, <3>2
    <2> QED BY <1>1, <2>1, <2>2 DEF QueueInv, DeliveredInOrder, SinkingInOrder,
               ResolvedMeansDelivered, TypeOK
  <1> QED BY <1>3, <1>4, <1>5, <1>6, <1>7

LEMMA SilentAdds ==
    ASSUME TypeOK, UNCHANGED <<settled, emitted>>
    PROVE  Adds
  BY DEF Adds, Extends, SettlesWith, TypeOK

LEMMA AppendAdds ==
    ASSUME TypeOK, NEW x \in Message, emitted' = Append(emitted, x),
           ~settled, UNCHANGED settled, x.kind \notin Terminal
    PROVE  Adds
  <1>1. /\ emitted' \in Seq(Message)
        /\ Len(emitted') = Len(emitted) + 1
        /\ \A k \in 1..Len(emitted) : emitted'[k] = emitted[k]
        /\ emitted'[Len(emitted) + 1] = x
    BY AppendProperties DEF TypeOK
  <1>2. Len(emitted) \in Nat
    BY DEF TypeOK
  <1>3. \A k \in Len(emitted)+1..Len(emitted') : k = Len(emitted) + 1
    BY <1>1, <1>2
  <1> QED BY <1>1, <1>2, <1>3 DEF Adds, Extends, SettlesWith, TypeOK

LEMMA EmitOneAdds ==
    ASSUME TypeOK, NEW kind \in Kind, Emit(<<kind>>), settled' \in BOOLEAN,
           settled => settled' /\ kind = "event",
           ~settled => (settled' <=> kind \in Terminal)
    PROVE  Adds
  <1> DEFINE kinds == <<kind>>
  <1>1. kinds \in Seq(Kind) /\ Len(kinds) = 1 /\ kinds[1] = kind
    OBVIOUS
  <1>2. Emit(kinds) /\ settled \in BOOLEAN
    BY DEF TypeOK
  <1> HIDE DEF kinds
  <1>3. \A k \in 1..Len(kinds) :
          /\ settled => kinds[k] = "event"
          /\ kinds[k] \in Terminal => k = Len(kinds)
    BY <1>1
  <1>4. kind \in Terminal => kind # "event"
    OBVIOUS
  <1> QED BY <1>1, <1>2, <1>3, <1>4, EmitAdds

-----------------------------------------------------------------------------
(* The steps that emit or may emit *)

LEMMA EntryHolds == ASSUME IInv, Refuse \/ Accept PROVE Adds /\ IInv'
  <1> USE DEF IInv, Handling
  <1>1. CASE Refuse
    <2>1. Adds
      BY <1>1, EmitOneAdds DEF Refuse, Settle, TypeOK, SettledByTerminal,
         ThreadsSettle
    <2> QED BY <1>1, <2>1, AddsHolds DEF Refuse, Settle, TypeOK
  <1>2. CASE Accept
    <2>1. Adds
      BY <1>2, SilentAdds DEF Accept
    <2> QED BY <1>2, <2>1, AddsHolds DEF Accept, TypeOK
  <1> QED BY <1>1, <1>2

LEMMA ContextHolds == ASSUME IInv, ContextCall PROVE Adds /\ IInv'
  <1> USE DEF IInv, Handling
  <1>1. ASSUME NEW valid \in BOOLEAN, Output(valid) PROVE Adds /\ IInv'
    <2>1. Adds
      <3>1. \/ Emit(<<"output">>) /\ UNCHANGED settled
            \/ Emit(<<"failed">>) /\ settled' = TRUE
        <4>1. CASE valid
          BY <1>1, <4>1 DEF Output
        <4>2. CASE ~valid
          BY <1>1, <4>2 DEF Output, Settle
        <4> QED BY <4>1, <4>2
      <3>2. ~settled
        BY <1>1 DEF Output
      <3>3. CASE Emit(<<"output">>) /\ UNCHANGED settled
        BY <3>2, <3>3, EmitOneAdds DEF TypeOK
      <3>4. CASE Emit(<<"failed">>) /\ settled' = TRUE
        BY <3>2, <3>4, EmitOneAdds
      <3> QED BY <3>1, <3>3, <3>4
    <2> QED BY <1>1, <2>1, AddsHolds DEF Output, Settle, TypeOK, ThreadsSettle
  <1>2. ASSUME NEW s \in Stream, Delta(s) PROVE Adds /\ IInv'
    <2>1. numbers' \in [Stream -> Nat]
      BY <1>2 DEF Delta, TypeOK
    <2>2. Adds
      <3>1. CASE settled
        BY <1>2, <3>1, SilentAdds DEF Delta
      <3>2. CASE ~settled
        <4> DEFINE x == [kind |-> "delta", stream |-> s,
                         number |-> numbers[s] + 1]
        <4>1. x \in Message /\ x.kind \notin Terminal
          BY DEF Message, TypeOK
        <4>2. emitted' = Append(emitted, x)
          BY <1>2, <3>2 DEF Delta
        <4>3. UNCHANGED settled
          BY <1>2 DEF Delta
        <4> QED BY <3>2, <4>1, <4>2, <4>3, AppendAdds
      <3> QED BY <3>1, <3>2
    <2> QED BY <1>2, <2>1, <2>2, AddsHolds DEF Delta, TypeOK, ThreadsSettle
  <1>3. ASSUME Report PROVE Adds /\ IInv'
    <2>1. Adds
      BY <1>3, EmitOneAdds DEF Report, TypeOK
    <2> QED BY <1>3, <2>1, AddsHolds DEF Report, TypeOK, ThreadsSettle
  <1>4. ASSUME NEW kind \in Terminal, SettleBy(kind) PROVE Adds /\ IInv'
    <2>1. Adds
      BY <1>4, EmitOneAdds DEF SettleBy, Settle, TypeOK
    <2> QED BY <1>4, <2>1, AddsHolds DEF SettleBy, Settle, TypeOK, ThreadsSettle
  <1> QED BY <1>1, <1>2, <1>3, <1>4 DEF ContextCall

LEMMA HandlerEndsHolds == ASSUME IInv, HandlerEnds PROVE Adds /\ IInv'
  <1> USE DEF IInv, Handling
  <1>1. ASSUME Throws PROVE Adds /\ IInv'
    <2>1. Adds
      <3>1. CASE settled
        BY <1>1, <3>1, SilentAdds DEF Throws
      <3>2. CASE ~settled
        BY <1>1, <3>2, EmitOneAdds DEF Throws, Settle, TypeOK
      <3> QED BY <3>1, <3>2
    <2> QED BY <1>1, <2>1, AddsHolds DEF Throws, Settle, TypeOK
  <1>2. ASSUME NEW result \in Result, Returns(result) PROVE Adds /\ IInv'
    <2>1. Adds
      <3>1. CASE UNCHANGED <<settled, emitted>>
        BY <3>1, SilentAdds
      <3>2. CASE ~settled /\ Settle(<<"completed">>)
        BY <3>2, EmitOneAdds DEF Settle, TypeOK
      <3>3. CASE ~settled /\ Settle(<<"output", "completed">>)
        <4> DEFINE kinds == <<"output", "completed">>
        <4>1. /\ kinds \in Seq(Kind) /\ Len(kinds) = 2
              /\ kinds[1] = "output" /\ kinds[2] = "completed"
          OBVIOUS
        <4>2. Emit(kinds) /\ settled' = TRUE /\ ~settled
          BY <3>3 DEF Settle
        <4> HIDE DEF kinds
        <4> QED BY <4>1, <4>2, EmitAdds
      <3>4. CASE ~settled /\ Settle(<<"failed">>)
        BY <3>4, EmitOneAdds DEF Settle, TypeOK
      <3> QED BY <1>2, <3>1, <3>2, <3>3, <3>4 DEF Returns
    <2>2. Threads => settled'
      BY <1>2 DEF Returns, Settle
    <2> QED BY <1>2, <2>1, <2>2, AddsHolds DEF Returns, TypeOK
  <1> QED BY <1>1, <1>2 DEF HandlerEnds

-----------------------------------------------------------------------------
(* The steps of the queue emit nothing *)

LEMMA DrainHolds == ASSUME IInv, Drain \/ DrainEnds PROVE IInv'
  <1> USE DEF IInv
  <1>1. UNCHANGED <<handled, settled, numbers, emitted,
                    taken, sinking, broken, delivered>>
    BY DEF Drain, DrainEnds
  <1>2. phase' \in Phase /\ owed' \in 0..Len(emitted)
    BY DEF Drain, DrainEnds, TypeOK
  <1>3. TypeOK' /\ Handling' /\ TerminalIsFinal' /\ SettledByTerminal'
    BY <1>1, <1>2 DEF TypeOK, Handling, Drain, DrainEnds, TerminalIsFinal,
       SettledByTerminal
  <1>4. ThreadsSettle'
    BY <1>1 DEF ThreadsSettle, Drain, DrainEnds, TypeOK
  <1>5. DeliveredInOrder' /\ SinkingInOrder'
    BY <1>1 DEF QueueInv, DeliveredInOrder, SinkingInOrder
  <1>6. ResolvedMeansDelivered'
    BY <1>1 DEF QueueInv, DeliveredInOrder, SinkingInOrder,
       ResolvedMeansDelivered, Drain, DrainEnds, TypeOK
  <1> QED BY <1>3, <1>4, <1>5, <1>6 DEF QueueInv

LEMMA SinkHolds ==
    ASSUME IInv, SinkCalled \/ Skipped \/ SinkSettles
    PROVE  IInv'
  <1> USE DEF IInv
  <1>1. UNCHANGED <<phase, handled, settled, numbers, emitted, owed>>
    BY DEF SinkCalled, Skipped, SinkSettles, SinkEnds
  <1>2. Handling' /\ TerminalIsFinal' /\ SettledByTerminal' /\ ThreadsSettle'
    BY <1>1 DEF Handling, TerminalIsFinal, SettledByTerminal, ThreadsSettle
  <1>3. Len(emitted) \in Nat /\ Len(delivered) \in Nat
        /\ DOMAIN delivered = 1..Len(delivered) /\ taken \in Nat /\ owed \in Nat
    BY DEF TypeOK
  <1>4. CASE SinkCalled
    <2>1. taken < Len(emitted) /\ ~sinking /\ ~broken
          /\ Len(delivered) = taken
      BY <1>3, <1>4 DEF SinkCalled, Reached, QueueInv, DeliveredInOrder
    <2> DEFINE x == emitted[taken + 1]
    <2>2. x \in Message
      BY <1>3, <2>1 DEF TypeOK
    <2>3. delivered \in Seq(Message) /\ delivered' = Append(delivered, x)
      BY <1>4 DEF SinkCalled, TypeOK
    <2> HIDE DEF x
    <2>4. /\ delivered' \in Seq(Message)
          /\ Len(delivered') = taken + 1
          /\ \A k \in 1..taken : delivered'[k] = delivered[k]
          /\ delivered'[taken + 1] = x
      BY <2>1, <2>2, <2>3, AppendProperties
    <2>5. DOMAIN delivered' = 1..taken + 1
      BY <2>4
    <2>6. \A k \in 1..taken + 1 : delivered'[k] = emitted[k]
      BY <1>3, <2>1, <2>4 DEF QueueInv, DeliveredInOrder, x
    <2>7. UNCHANGED <<taken, broken>> /\ sinking' = TRUE
      BY <1>4 DEF SinkCalled
    <2>8. TypeOK'
      BY <1>1, <2>4, <2>7 DEF TypeOK
    <2> QED BY <1>1, <1>2, <1>3, <2>1, <2>4, <2>5, <2>6, <2>7, <2>8
            DEF QueueInv, DeliveredInOrder, SinkingInOrder,
                ResolvedMeansDelivered
  <1>5. CASE Skipped
    <2>1. taken < Len(emitted) /\ broken /\ ~sinking /\ taken' = taken + 1
          /\ UNCHANGED <<sinking, broken, delivered>>
      BY <1>5 DEF Skipped, Reached
    <2>2. taken' \in 0..Len(emitted)
      BY <1>3, <2>1
    <2> QED BY <1>1, <1>2, <1>3, <2>1, <2>2 DEF TypeOK, QueueInv,
            DeliveredInOrder, SinkingInOrder, ResolvedMeansDelivered
  <1>6. CASE SinkSettles
    <2>1. /\ sinking /\ sinking' = FALSE /\ taken' = taken + 1
          /\ broken' \in BOOLEAN /\ UNCHANGED delivered
      BY <1>6 DEF SinkSettles, SinkEnds
    <2>2. ~broken /\ taken < Len(emitted) /\ Len(delivered) = taken + 1
      BY <2>1 DEF QueueInv, SinkingInOrder, DeliveredInOrder
    <2>3. taken' \in 0..Len(emitted)
      BY <1>3, <2>1, <2>2
    <2>4. TypeOK'
      BY <1>1, <2>1, <2>3 DEF TypeOK
    <2>5. phase # "rejected"
      BY <2>2 DEF QueueInv, ResolvedMeansDelivered
    <2> QED BY <1>1, <1>2, <1>3, <2>1, <2>2, <2>4, <2>5 DEF QueueInv,
            DeliveredInOrder, SinkingInOrder, ResolvedMeansDelivered
  <1> QED BY <1>4, <1>5, <1>6

-----------------------------------------------------------------------------
(* Theorems *)

LEMMA NextHolds == ASSUME IInv, [Next]_vars PROVE IInv'
  <1>1. CASE UNCHANGED vars
    BY <1>1 DEF vars, IInv, TypeOK, Handling, TerminalIsFinal,
       SettledByTerminal, ThreadsSettle, QueueInv, DeliveredInOrder,
       SinkingInOrder, ResolvedMeansDelivered
  <1>2. CASE Next
    BY <1>2, EntryHolds, ContextHolds, HandlerEndsHolds, DrainHolds, SinkHolds
       DEF Next, ChainStep
  <1> QED BY <1>1, <1>2

THEOREM Invariance == Spec => []IInv
  BY InitHolds, NextHolds, PTL DEF Spec

\* Every state of a call has its type: the queue is never ahead of what was
\* emitted.
THEOREM CallTypes == Spec => []TypeOK
  <1>1. IInv => TypeOK
    BY DEF IInv
  <1> QED BY Invariance, <1>1, PTL

\* At most one terminal message, and nothing but events after it.
THEOREM TerminalOnce == Spec => []TerminalIsFinal
  <1>1. IInv => TerminalIsFinal
    BY DEF IInv
  <1> QED BY Invariance, <1>1, PTL

\* The sink sees the messages in the order of emission, without gap or repeat.
THEOREM InOrder == Spec => []DeliveredInOrder
  <1>1. IInv => DeliveredInOrder
    BY DEF IInv, QueueInv
  <1> QED BY Invariance, <1>1, PTL

\* What drain waited for has reached the sink when handleStream resolves.
THEOREM DrainDelivers == Spec => []ResolvedMeansDelivered
  <1>1. IInv => ResolvedMeansDelivered
    BY DEF IInv, QueueInv
  <1> QED BY Invariance, <1>1, PTL

\* A threads call that resolves has delivered its terminal message.
THEOREM ThreadsTerminate == Spec => []ThreadsCallTerminates
  <1>1. ASSUME IInv, Threads, phase = "resolved"
        PROVE  \E k \in DOMAIN delivered : delivered[k].kind \in Terminal
    <2>1. PICK k \in 1..owed : emitted[k].kind \in Terminal
      BY <1>1 DEF IInv, ThreadsSettle
    <2>2. k \in 1..Len(delivered) /\ DOMAIN delivered = 1..Len(delivered)
      BY <1>1 DEF IInv, TypeOK, QueueInv, ResolvedMeansDelivered
    <2>3. delivered[k] = emitted[k]
      BY <1>1, <2>2 DEF IInv, QueueInv, DeliveredInOrder
    <2> QED BY <2>1, <2>2, <2>3
  <1>2. IInv => ThreadsCallTerminates
    BY <1>1 DEF ThreadsCallTerminates
  <1> QED BY Invariance, <1>2, PTL

-----------------------------------------------------------------------------
(* The emitter implements the abstract channel *)

LEMMA EmitterInit == Init => Emitter!Init
  BY DEF Init, Emitter!Init

LEMMA EmitStep ==
    ASSUME IInv, Refuse \/ Accept \/ ContextCall \/ HandlerEnds
    PROVE  Emitter!Send
  <1>1. Adds
    BY EntryHolds, ContextHolds, HandlerEndsHolds
  <1>2. UNCHANGED <<queueVars, owed>>
    BY DEF Refuse, Accept, ContextCall, Output, Delta, Report, SettleBy,
       HandlerEnds, Throws, Returns
  <1>3. phase' = phase \/ (phase \in {"idle", "running"}
                          /\ phase' \in {"running", "ended"})
    BY DEF Refuse, Accept, ContextCall, Output, Delta, Report, SettleBy,
       HandlerEnds, Throws, Returns
  <1>4. DOMAIN emitted = 1..Len(emitted)
    BY DEF IInv, TypeOK
  <1>5. Emitter!Continues(emitted, emitted')
    BY <1>1, <1>4 DEF Adds, Extends, Emitter!Continues
  <1>6. /\ (phase \in {"draining", "resolved", "rejected"})'
           = (phase \in {"draining", "resolved", "rejected"})
        /\ (phase = "resolved")' = (phase = "resolved")
    BY <1>3
  <1> QED BY <1>2, <1>5, <1>6 DEF Emitter!Send

LEMMA DrainStep ==
    ASSUME IInv, Drain \/ DrainEnds
    PROVE  Emitter!Close \/ Emitter!Tell \/ UNCHANGED Emitter!channelVars
  <1>1. CASE Drain
    BY <1>1 DEF Drain, Emitter!Close
  <1>2. CASE DrainEnds /\ broken
    BY <1>2 DEF DrainEnds, Emitter!channelVars
  <1>3. CASE DrainEnds /\ ~broken
    <2>1. Len(delivered) >= owed
      BY <1>3 DEF DrainEnds, IInv, TypeOK, QueueInv, DeliveredInOrder
    <2> QED BY <1>3, <2>1 DEF DrainEnds, Emitter!Tell
  <1> QED BY <1>1, <1>2, <1>3

LEMMA SinkStep ==
    ASSUME IInv, SinkCalled \/ Skipped \/ SinkSettles
    PROVE  Emitter!Receive \/ Emitter!Cut \/ UNCHANGED Emitter!channelVars
  <1>1. CASE SinkCalled
    <2>1. taken < Len(emitted) /\ ~sinking /\ ~broken
          /\ Len(delivered) = taken
      BY <1>1 DEF SinkCalled, Reached, IInv, TypeOK, QueueInv,
         DeliveredInOrder
    <2> QED BY <1>1, <2>1 DEF SinkCalled, Emitter!Receive
  <1>2. CASE Skipped
    BY <1>2 DEF Skipped, Emitter!channelVars
  <1>3. ASSUME NEW threw \in BOOLEAN, SinkEnds(threw)
        PROVE  Emitter!Cut \/ UNCHANGED Emitter!channelVars
    <2>1. broken = FALSE
      BY <1>3 DEF SinkEnds, IInv, TypeOK, QueueInv, SinkingInOrder
    <2>2. CASE threw = TRUE
      BY <1>3, <2>2 DEF SinkEnds, Emitter!Cut
    <2>3. CASE threw = FALSE
      BY <1>3, <2>1, <2>3 DEF SinkEnds, Emitter!channelVars
    <2> QED BY <2>2, <2>3
  <1> QED BY <1>1, <1>2, <1>3 DEF SinkSettles

\* Whatever the handler emits and whenever the sink settles, the sink receives
\* it in order, nothing is lost before the sink throws, and handleStream
\* resolves only when everything emitted before the handler ended has arrived.
THEOREM EmitterRefinesChannel == Spec => SinkIsChannel
  <1>1. ASSUME IInv, [Next]_vars
        PROVE  [Emitter!Next]_Emitter!channelVars
    <2>1. CASE Next
      BY <1>1, <2>1, EmitStep, DrainStep, SinkStep
         DEF Next, ChainStep, Emitter!Next
    <2>2. CASE UNCHANGED vars
      BY <2>2 DEF vars, Emitter!channelVars
    <2> QED BY <1>1, <2>1, <2>2
  <1> QED BY EmitterInit, <1>1, Invariance, PTL
          DEF Spec, SinkIsChannel, Emitter!Spec
=============================================================================
