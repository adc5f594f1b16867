------------------------ MODULE RuntimeSessions_proofs ------------------------
(***************************************************************************)
(* What holds of the session table for any number of overlapping handlers  *)
(* and whatever the adapter implements.                                    *)
(***************************************************************************)
EXTENDS RuntimeSessions, TLAPS

\* Object ids are given out in order and never twice.
Numbered ==
    /\ \A s \in Session : sessions[s] <= created
    /\ \A o \in gone : o <= created
    /\ \A h \in Handler : object[h] <= created

\* An object stands for one session id.
OneSession ==
    /\ \A s, t \in Session : sessions[s] # NoObject /\ sessions[s] = sessions[t]
                                => s = t
    /\ \A h \in Handler, s \in Session :
         object[h] # NoObject /\ object[h] = sessions[s] => session[h] = s

\* A handler has an object once its message has arrived, and has ended its
\* session only when it is done.
Arrived ==
    \A h \in Handler : /\ stage[h] = "idle" <=> object[h] = NoObject
                       /\ stage[h] = "idle" => ends[h] = 0 /\ answers[h] = 0
                       /\ stage[h] # "done" => ~ended[h]

\* The flag counts the terminal messages of the handler's own emitter.
Flagged == \A h \in Handler : ends[h] = 0 <=> ~terminal[h]

IInv == /\ TypeOK
        /\ Numbered
        /\ OneSession
        /\ Arrived
        /\ Flagged
        /\ ObjectIsShared
        /\ EndedIsForgotten
        /\ OnlyAnEndForgets

-----------------------------------------------------------------------------
USE SessionsAssumption DEF Op, Object, NoObject, table, call, told

LEMMA InitHolds == Init => IInv
  BY DEF Init, IInv, TypeOK, Numbered, OneSession, Arrived, Flagged,
         ObjectIsShared, EndedIsForgotten, OnlyAnEndForgets

(***************************************************************************)
(* A message arrives.  The object is the table's, or a new one that no     *)
(* handler works on and no id stands for; either way it was not deleted.   *)
(***************************************************************************)
LEMMA ArriveFacts ==
    ASSUME IInv, NEW h \in Handler, NEW o \in Object, NEW kind \in Op,
           Arrive(h, o, kind)
    PROVE  /\ o \notin gone
           /\ \A s \in Session : s # session[h] => sessions[s] # o
           /\ \A g \in Handler : object[g] = o => session[g] = session[h]
           /\ sessions[session[h]] \in {NoObject, o}
           /\ created' \in 0 .. MaxObjects
           /\ created <= created' /\ o <= created'
           /\ object[h] = NoObject
  <1> USE DEF IInv, TypeOK, Arrive, EnsureSession
  <1>1. CASE sessions[session[h]] # NoObject
    BY <1>1 DEF Numbered, OneSession, Arrived, ObjectIsShared
  <1>2. CASE sessions[session[h]] = NoObject
    BY <1>2 DEF Numbered, OneSession, Arrived
  <1> QED BY <1>1, <1>2

LEMMA KeptHolds ==
    ASSUME IInv, NEW h \in Handler, NEW o \in Object, NEW kind \in Op,
           Arrive(h, o, kind),
           sessions' = [sessions EXCEPT ![session[h]] = o], gone' = gone,
           stage' \in {[stage EXCEPT ![h] = "running"],
                       [stage EXCEPT ![h] = "done"]},
           terminal' \in [Handler -> BOOLEAN],
           ends' \in [Handler -> 0 .. 1], answers' \in [Handler -> 0 .. 2],
           \A g \in Handler \ {h} : ends'[g] = ends[g] /\ answers'[g] = answers[g],
           Flagged', ended' = ended
    PROVE  IInv'
  <1> DEFINE s == session[h]
  <1> USE DEF IInv
  <1>f. /\ o \notin gone
        /\ \A t \in Session : t # s => sessions[t] # o
        /\ \A g \in Handler : object[g] = o => session[g] = s
        /\ sessions[s] \in {NoObject, o}
        /\ created' \in 0 .. MaxObjects
        /\ created <= created' /\ o <= created'
        /\ object[h] = NoObject
    BY ArriveFacts
  <1>0. /\ s \in Session /\ session' = session
        /\ object' = [object EXCEPT ![h] = o]
        /\ stage[h] = "idle"
        /\ op' = [op EXCEPT ![h] = kind]
    BY DEF Arrive, TypeOK
  <1>1. TypeOK'
    BY <1>0, <1>f DEF TypeOK
  <1>2. Numbered'
    BY <1>0, <1>f DEF Numbered, TypeOK
  <1>3. OneSession'
    BY <1>0, <1>f DEF OneSession, TypeOK
  <1>4. Arrived'
    BY <1>0, <1>f DEF Arrived, TypeOK
  <1>5. ObjectIsShared'
    <2>1. \A t \in Session : sessions'[t] \notin gone'
      BY <1>0, <1>f DEF ObjectIsShared, TypeOK
    <2>2. ASSUME NEW g \in Handler, stage'[g] # "idle", object'[g] \notin gone'
          PROVE  sessions'[session'[g]] = object'[g]
      <3>1. CASE g = h
        BY <1>0, <3>1 DEF TypeOK
      <3>2. CASE g # h
        <4>1. sessions[session[g]] = object[g] /\ object[g] # NoObject
          BY <1>0, <2>2, <3>2 DEF ObjectIsShared, Arrived, TypeOK
        <4> QED BY <1>0, <1>f, <3>2, <4>1 DEF TypeOK
      <3> QED BY <3>1, <3>2
    <2> QED BY <2>1, <2>2 DEF ObjectIsShared
  <1>6. EndedIsForgotten'
    BY <1>0, <1>f DEF EndedIsForgotten, Arrived, TypeOK
  <1>7. OnlyAnEndForgets'
    BY <1>0, <1>f DEF OnlyAnEndForgets, Arrived, TypeOK
  <1> QED BY <1>1, <1>2, <1>3, <1>4, <1>5, <1>6, <1>7

LEMMA RefuseAndForgetHolds ==
    ASSUME IInv, NEW h \in Handler, NEW o \in Object, NEW kind \in Op,
           RefuseAndForget(h, o, kind)
    PROVE  IInv'
  <1> DEFINE s == session[h]
  <1> USE DEF IInv
  <1>a. Arrive(h, o, kind)
    BY DEF RefuseAndForget
  <1>f. /\ o \notin gone
        /\ \A t \in Session : t # s => sessions[t] # o
        /\ \A g \in Handler : object[g] = o => session[g] = s
        /\ sessions[s] \in {NoObject, o}
        /\ created' \in 0 .. MaxObjects
        /\ created <= created' /\ o <= created'
        /\ object[h] = NoObject
    BY <1>a, ArriveFacts
  <1>0. /\ s \in Session /\ session' = session
        /\ object' = [object EXCEPT ![h] = o]
        /\ stage[h] = "idle"
        /\ op' = [op EXCEPT ![h] = kind]
        /\ sessions' = [sessions EXCEPT ![s] = NoObject]
        /\ gone' = gone \cup {o}
        /\ stage' = [stage EXCEPT ![h] = "done"]
        /\ terminal' = [terminal EXCEPT ![h] = TRUE]
        /\ ends' = [ends EXCEPT ![h] = 1]
        /\ ended' = [ended EXCEPT ![h] = TRUE]
        /\ answers' = answers
    BY DEF RefuseAndForget, Arrive, TypeOK
  <1>1. TypeOK'
    BY <1>0, <1>f DEF TypeOK
  <1>2. Numbered'
    BY <1>0, <1>f DEF Numbered, TypeOK
  <1>3. OneSession'
    BY <1>0, <1>f DEF OneSession, TypeOK
  <1>4. Arrived' /\ Flagged'
    BY <1>0, <1>f DEF Arrived, Flagged, TypeOK
  <1>5. ObjectIsShared'
    <2>1. \A t \in Session : sessions'[t] \notin gone'
      BY <1>0, <1>f DEF ObjectIsShared, TypeOK
    <2>2. ASSUME NEW g \in Handler, stage'[g] # "idle", object'[g] \notin gone'
          PROVE  sessions'[session'[g]] = object'[g]
      <3>1. g # h /\ object[g] # o
        BY <1>0, <2>2 DEF TypeOK
      <3>2. sessions[session[g]] = object[g] /\ object[g] # NoObject
        BY <1>0, <2>2, <3>1 DEF ObjectIsShared, Arrived, TypeOK
      <3> QED BY <1>0, <1>f, <3>1, <3>2 DEF TypeOK
    <2> QED BY <2>1, <2>2 DEF ObjectIsShared
  <1>6. EndedIsForgotten'
    BY <1>0, <1>f DEF EndedIsForgotten, Arrived, TypeOK
  <1>7. OnlyAnEndForgets'
    <2>1. ended'[h] /\ session'[h] = s
      BY <1>0 DEF TypeOK
    <2>2. \A g \in Handler : ended[g] => ended'[g]
      BY <1>0 DEF TypeOK
    <2>3. ASSUME NEW g \in Handler, object'[g] \in gone'
          PROVE  \E k \in Handler : session'[k] = session'[g] /\ ended'[k]
      <3>1. CASE object'[g] = o
        BY <1>0, <1>f, <2>1, <3>1 DEF TypeOK
      <3>2. CASE object'[g] # o
        BY <1>0, <2>2, <2>3, <3>2 DEF OnlyAnEndForgets, TypeOK
      <3> QED BY <3>1, <3>2
    <2> QED BY <2>3 DEF OnlyAnEndForgets
  <1> QED BY <1>1, <1>2, <1>3, <1>4, <1>5, <1>6, <1>7

LEMMA ReceiveHolds ==
    ASSUME IInv, NEW h \in Handler, Receive(h)
    PROVE  IInv'
  <1> PICK o \in Object, kind \in Op :
        \/ Enter(h, o, kind) \/ RefuseAndForget(h, o, kind)
        \/ RefuseAndKeep(h, o, kind) \/ AnswerUnsupported(h, o, kind)
    BY DEF Receive
  <1>1. CASE Enter(h, o, kind)
    <2>1. /\ terminal' = terminal /\ ends' = ends /\ answers' = answers
          /\ Arrive(h, o, kind)
      BY <1>1 DEF Enter
    <2>2. Flagged'
      BY <2>1 DEF IInv, Flagged
    <2> QED BY <1>1, <2>1, <2>2, KeptHolds DEF Enter, IInv, TypeOK
  <1>2. CASE RefuseAndForget(h, o, kind)
    BY <1>2, RefuseAndForgetHolds
  <1>3. CASE RefuseAndKeep(h, o, kind)
    <2>1. /\ terminal' = [terminal EXCEPT ![h] = TRUE]
          /\ ends' = [ends EXCEPT ![h] = 1]
          /\ answers' = answers /\ Arrive(h, o, kind)
      BY <1>3 DEF RefuseAndKeep
    <2>2. Flagged'
      BY <2>1 DEF IInv, Flagged, TypeOK
    <2>3. /\ terminal' \in [Handler -> BOOLEAN]
          /\ ends' \in [Handler -> 0 .. 1] /\ answers' \in [Handler -> 0 .. 2]
          /\ \A g \in Handler \ {h} :
               ends'[g] = ends[g] /\ answers'[g] = answers[g]
      BY <2>1 DEF IInv, TypeOK
    <2>4. /\ sessions' = [sessions EXCEPT ![session[h]] = o] /\ gone' = gone
          /\ stage' = [stage EXCEPT ![h] = "done"] /\ ended' = ended
      BY <1>3 DEF RefuseAndKeep
    <2> QED BY <2>1, <2>2, <2>3, <2>4, KeptHolds
  <1>4. CASE AnswerUnsupported(h, o, kind)
    <2>1. /\ terminal' = terminal /\ ends' = ends
          /\ answers' = [answers EXCEPT ![h] = 1] /\ Arrive(h, o, kind)
      BY <1>4 DEF AnswerUnsupported
    <2>2. Flagged'
      BY <2>1 DEF IInv, Flagged
    <2>3. /\ terminal' \in [Handler -> BOOLEAN]
          /\ ends' \in [Handler -> 0 .. 1] /\ answers' \in [Handler -> 0 .. 2]
          /\ \A g \in Handler \ {h} :
               ends'[g] = ends[g] /\ answers'[g] = answers[g]
      BY <2>1 DEF IInv, TypeOK
    <2>4. /\ sessions' = [sessions EXCEPT ![session[h]] = o] /\ gone' = gone
          /\ stage' = [stage EXCEPT ![h] = "done"] /\ ended' = ended
      BY <1>4 DEF AnswerUnsupported
    <2> QED BY <2>1, <2>2, <2>3, <2>4, KeptHolds
  <1> QED BY <1>1, <1>2, <1>3, <1>4

(***************************************************************************)
(* The context is used: only the flag and the counters change.             *)
(***************************************************************************)
LEMMA ContextHolds ==
    ASSUME IInv, NEW h \in Handler, Settle(h) \/ Answer(h)
    PROVE  IInv'
  <1> USE DEF IInv, TypeOK, Numbered, OneSession, Arrived, Flagged,
              ObjectIsShared, EndedIsForgotten, OnlyAnEndForgets, InUse
  <1>1. CASE Settle(h)
    <2>1. ends' \in [Handler -> 0 .. 1]
      BY <1>1 DEF Settle
    <2> QED BY <1>1, <2>1 DEF Settle
  <1>2. CASE Answer(h)
    <2>1. answers' \in [Handler -> 0 .. 2]
      BY <1>2 DEF Answer
    <2> QED BY <1>2, <2>1 DEF Answer
  <1> QED BY <1>1, <1>2

(***************************************************************************)
(* The adapter's code is back.                                             *)
(***************************************************************************)
LEMMA BackHolds ==
    ASSUME IInv, NEW h \in Handler, NEW over \in BOOLEAN, Back(h, over),
           terminal' \in [Handler -> BOOLEAN],
           ends' \in [Handler -> 0 .. 1], answers' \in [Handler -> 0 .. 2],
           \A g \in Handler \ {h} : ends'[g] = ends[g] /\ answers'[g] = answers[g],
           Flagged'
    PROVE  IInv'
  <1> USE DEF IInv
  <1> DEFINE s == session[h]
             last == over \/ op[h] = "stop"
  <1>0. /\ s \in Session /\ session' = session /\ object' = object /\ op' = op
        /\ created' = created
        /\ stage[h] = "running" /\ stage' = [stage EXCEPT ![h] = "done"]
        /\ ended' = [ended EXCEPT ![h] = last]
        /\ last \in BOOLEAN
    BY DEF Back, TypeOK
  <1>1. CASE ~last
    <2>1. sessions' = sessions /\ gone' = gone /\ ended' = ended
      BY <1>0, <1>1 DEF Back, ForgetEnded, TypeOK, Arrived
    <2> QED BY <1>0, <2>1 DEF TypeOK, Numbered, OneSession, Arrived, Flagged,
                 ObjectIsShared, EndedIsForgotten, OnlyAnEndForgets
  <1>2. CASE last
    <2>1. /\ sessions' = [sessions EXCEPT ![s] = NoObject]
          /\ gone' = gone \cup ({sessions[s]} \ {NoObject})
          /\ ended' = [ended EXCEPT ![h] = TRUE]
      BY <1>0, <1>2 DEF Back, ForgetEnded, Forget
    <2>2. TypeOK'
      <3>1. ended' \in [Handler -> BOOLEAN]
        BY <2>1, <1>0 DEF TypeOK
      <3>4. gone' \subseteq Object
        <4>1. sessions[s] \in Object \cup {NoObject} /\ gone \subseteq Object
          BY <1>0 DEF TypeOK
        <4>2. {sessions[s]} \ {NoObject} \subseteq Object
          BY <4>1
        <4> QED BY <2>1, <4>1, <4>2
      <3>2. sessions' \in [Session -> Object \cup {NoObject}]
        BY <2>1, <1>0 DEF TypeOK
      <3>3. stage' \in [Handler -> {"idle", "running", "done"}]
        BY <1>0 DEF TypeOK
      <3> QED BY <1>0, <3>1, <3>2, <3>3, <3>4 DEF TypeOK
    <2>3. Numbered'
      BY <1>0, <2>1 DEF Numbered, TypeOK
    <2>4. OneSession'
      BY <1>0, <2>1 DEF OneSession, TypeOK
    <2>5. Arrived'
      BY <1>0, <2>1 DEF Arrived, TypeOK
    <2>6. ObjectIsShared'
      <3>1. \A t \in Session : sessions'[t] \notin gone'
        BY <1>0, <2>1 DEF ObjectIsShared, OneSession, TypeOK
      <3>2. ASSUME NEW g \in Handler, stage'[g] # "idle",
                   object'[g] \notin gone'
            PROVE  sessions'[session'[g]] = object'[g]
        <4>1. sessions[session[g]] = object[g] /\ object[g] # NoObject
          BY <1>0, <2>1, <3>2 DEF ObjectIsShared, Arrived, TypeOK
        <4> QED BY <1>0, <2>1, <3>2, <4>1 DEF TypeOK
      <3> QED BY <3>1, <3>2 DEF ObjectIsShared
    <2>7. EndedIsForgotten'
      <3>1. object[h] \in gone'
        BY <1>0, <2>1 DEF ObjectIsShared, Arrived, TypeOK
      <3> QED BY <1>0, <2>1, <3>1 DEF EndedIsForgotten, TypeOK
    <2>8. OnlyAnEndForgets'
      <3>1. ended'[h] /\ session'[h] = s
        BY <1>0, <2>1 DEF TypeOK
      <3>2. \A g \in Handler : ended[g] => ended'[g]
        BY <2>1 DEF TypeOK
      <3>3. ASSUME NEW g \in Handler, object'[g] \in gone'
            PROVE  \E k \in Handler : session'[k] = session'[g] /\ ended'[k]
        <4>1. CASE object[g] \in gone
          BY <1>0, <3>2, <4>1 DEF OnlyAnEndForgets, TypeOK
        <4>2. CASE object[g] = sessions[s] /\ object[g] # NoObject
          BY <1>0, <3>1, <4>2 DEF OneSession, TypeOK
        <4> QED BY <1>0, <2>1, <3>3, <4>1, <4>2
      <3> QED BY <3>3 DEF OnlyAnEndForgets
    <2> QED BY <2>2, <2>3, <2>4, <2>5, <2>6, <2>7, <2>8
  <1> QED BY <1>0, <1>1, <1>2

LEMMA ReturnHolds ==
    ASSUME IInv, NEW h \in Handler, Returns(h) \/ Throws(h)
    PROVE  IInv'
  <1> USE DEF IInv
  <1>1. CASE Returns(h)
    <2>1. /\ Back(h, terminal[h]) /\ terminal' = terminal /\ ends' = ends
          /\ terminal[h] \in BOOLEAN
      BY <1>1 DEF Returns, TypeOK
    <2>2. /\ answers' \in [Handler -> 0 .. 2]
          /\ \A g \in Handler \ {h} : answers'[g] = answers[g]
      BY <1>1 DEF Returns, TypeOK
    <2>3. Flagged'
      BY <2>1 DEF Flagged
    <2> QED BY <2>1, <2>2, <2>3, BackHolds DEF TypeOK
  <1>2. CASE Throws(h)
    <2>1. /\ Back(h, TRUE) /\ answers' = answers
          /\ terminal' = [terminal EXCEPT ![h] = TRUE]
      BY <1>2 DEF Throws
    <2>2. /\ ends' \in [Handler -> 0 .. 1]
          /\ \A g \in Handler \ {h} : ends'[g] = ends[g]
      BY <1>2 DEF Throws, TypeOK, Flagged
    <2>3. Flagged'
      BY <1>2, <2>1 DEF Throws, TypeOK, Flagged
    <2> QED BY <2>1, <2>2, <2>3, BackHolds DEF TypeOK
  <1> QED BY <1>1, <1>2

LEMMA NextHolds == IInv /\ [Next]_vars => IInv'
  <1> SUFFICES ASSUME IInv, [Next]_vars PROVE IInv'
    OBVIOUS
  <1>1. CASE UNCHANGED vars
    BY <1>1 DEF vars, IInv, TypeOK, Numbered, OneSession, Arrived, Flagged,
                ObjectIsShared, EndedIsForgotten, OnlyAnEndForgets
  <1>2. ASSUME NEW h \in Handler, Receive(h) PROVE IInv'
    BY <1>2, ReceiveHolds
  <1>3. ASSUME NEW h \in Handler, Settle(h) \/ Answer(h) PROVE IInv'
    BY <1>3, ContextHolds
  <1>4. ASSUME NEW h \in Handler, Returns(h) \/ Throws(h) PROVE IInv'
    BY <1>4, ReturnHolds
  <1> QED BY <1>1, <1>2, <1>3, <1>4 DEF Next

(* The inductive invariant, and with it the facts about object ids that    *)
(* the theorems below rest on.                                             *)
THEOREM Invariance == Spec => []IInv
  BY InitHolds, NextHolds, PTL DEF Spec

(* Types; a handler's own emitter emits at most one terminal message,      *)
(* whether the adapter's code ends the session, throws, or does both.      *)
THEOREM SessionTypes == Spec => []TypeOK
  <1>1. IInv => TypeOK
    BY DEF IInv
  <1> QED BY Invariance, <1>1, PTL

(* Handlers of one session share the object in the table unless theirs was *)
(* deleted, and no deleted object comes back.                              *)
THEOREM SessionIsShared == Spec => []ObjectIsShared
  <1>1. IInv => ObjectIsShared
    BY DEF IInv
  <1> QED BY Invariance, <1>1, PTL

(* A handler that ended its session leaves no entry with its object; the   *)
(* code deletes by id, and the theorem needs that the object in the table  *)
(* under that id is the handler's or the handler's is deleted already.     *)
THEOREM EndForgets == Spec => []EndedIsForgotten
  <1>1. IInv => EndedIsForgotten
    BY DEF IInv
  <1> QED BY Invariance, <1>1, PTL

(* Whoever lost its object lost it to a handler of the same session that   *)
(* ended it.                                                               *)
THEOREM ForgottenByAnEnd == Spec => []OnlyAnEndForgets
  <1>1. IInv => OnlyAnEndForgets
    BY DEF IInv
  <1> QED BY Invariance, <1>1, PTL

(* The entry of a session goes with its end and only then. *)
THEOREM ForgottenExactly == Spec => []ForgottenWhenEnded
  BY EndForgets, ForgottenByAnEnd, PTL DEF ForgottenWhenEnded
-----------------------------------------------------------------------------
(***************************************************************************)
(* Controls.  A handler of controls is done by AnswerUnsupported, which    *)
(* answers, or comes back: then it answers if nothing was answered before, *)
(* or its exception ends the session, which Flagged ties to a terminal     *)
(* message.                                                                *)
(***************************************************************************)
LEMMA ControlsReceive ==
    ASSUME IInv, NEW h \in Handler, Receive(h)
    PROVE  \A g \in Handler : TellsOnce(g)
  <1> PICK o \in Object, kind \in Op :
        \/ Enter(h, o, kind) \/ RefuseAndForget(h, o, kind)
        \/ RefuseAndKeep(h, o, kind) \/ AnswerUnsupported(h, o, kind)
    BY DEF Receive
  <1>1. op' = [op EXCEPT ![h] = kind]
    BY DEF Enter, RefuseAndForget, RefuseAndKeep, AnswerUnsupported, Arrive
  <1>2. /\ \A g \in Handler \ {h} : stage'[g] = stage[g]
        /\ op'[h] = kind
    BY <1>1 DEF Enter, RefuseAndForget, RefuseAndKeep, AnswerUnsupported,
                IInv, TypeOK
  <1>3. stage[h] = "idle" /\ answers[h] = 0
    BY DEF Enter, RefuseAndForget, RefuseAndKeep, AnswerUnsupported, Arrive,
           IInv, Arrived, TypeOK
  <1>4. CASE kind # "controls" \/ stage'[h] = "running"
    BY <1>2, <1>4 DEF TellsOnce
  <1>5. CASE kind = "controls" /\ stage'[h] # "running"
    <2>1. answers'[h] = 1
      BY <1>5 DEF Enter, RefuseAndForget, RefuseAndKeep, AnswerUnsupported,
                  IInv, TypeOK
    <2> QED BY <2>1, <1>2, <1>3 DEF TellsOnce
  <1> QED BY <1>4, <1>5

LEMMA ControlsReturn ==
    ASSUME IInv, NEW h \in Handler, Returns(h) \/ Throws(h)
    PROVE  \A g \in Handler : TellsOnce(g)
  <1>1. /\ op' = op /\ \A g \in Handler \ {h} : stage'[g] = stage[g]
    BY DEF Returns, Throws, Back, IInv, TypeOK
  <1>2. CASE Returns(h)
    <2>1. op[h] = "controls" =>
            answers'[h] = IF answers[h] = 0 THEN 1 ELSE answers[h]
      BY <1>2 DEF Returns, IInv, TypeOK
    <2> QED BY <1>1, <2>1 DEF TellsOnce
  <1>3. CASE Throws(h)
    <2>1. answers' = answers /\ ends'[h] = 1
      BY <1>3 DEF Throws, IInv, TypeOK, Flagged
    <2> QED BY <1>1, <2>1 DEF TellsOnce
  <1> QED BY <1>2, <1>3

(* Whoever asks for the controls of a session is told something, however   *)
(* its handler ends, and not again what the adapter's code has told        *)
(* already (handleSessionControls).                                        *)
THEOREM ControlsAlwaysAnswered == Spec => ControlsAreAnswered
  <1>1. IInv /\ [Next]_vars => [\A h \in Handler : TellsOnce(h)]_vars
    <2>1. ASSUME NEW h \in Handler, Settle(h) \/ Answer(h)
          PROVE  \A g \in Handler : TellsOnce(g)
      BY <2>1 DEF Settle, Answer, TellsOnce
    <2> QED BY <2>1, ControlsReceive, ControlsReturn DEF Next
  <1> QED BY <1>1, Invariance, PTL DEF Spec, ControlsAreAnswered
=============================================================================
