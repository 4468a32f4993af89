-------------------------- MODULE SubscriptionProofs --------------------------
(***************************************************************************)
(* Proofs about a subscription, for any number of events, any query, any   *)
(* batch size of two or more and any idle threshold.                       *)
(***************************************************************************)
EXTENDS Subscription, TLAPS

-----------------------------------------------------------------------------
(* Types *)

\* The batches that a backend may return are sequences of events.
LEMMA BatchIsSeq == ASSUME NEW b \in Batches PROVE b \in Seq(Events) /\ Len(b) \in Nat
<1>1. PICK n \in 0 .. BatchSize + 1 : b \in [1 .. n -> Events] BY Zenon DEF Batches
<1>2. n \in Nat BY SubscriptionAssumption
<1>3. QED BY <1>1, <1>2

\* What is left of a batch when its first event is taken off.
LEMMA RestOfBatch ==
    ASSUME NEW b \in Seq(Events), b # <<>>
    PROVE  /\ Head(b) \in Events /\ Head(b) = b[1] /\ 1 \in DOMAIN b
           /\ Tail(b) \in Seq(Events)
           /\ DOMAIN Tail(b) = 1 .. Len(b) - 1 /\ DOMAIN b = 1 .. Len(b)
           /\ Len(b) \in Nat /\ Len(b) >= 1 /\ Len(Tail(b)) = Len(b) - 1
           /\ \A i \in DOMAIN Tail(b) : Tail(b)[i] = b[i + 1]
OBVIOUS

\* The Boolean variables, and the others with what is needed of a batch.
Flags ==
    /\ connected \in BOOLEAN /\ inflight \in BOOLEAN /\ active \in BOOLEAN
    /\ pending \in BOOLEAN /\ initialized \in BOOLEAN /\ again \in BOOLEAN
    /\ changed \in BOOLEAN /\ restored \in BOOLEAN

Data ==
    /\ stored \in 0 .. MaxEvents
    /\ stable \in 0 .. stored
    /\ disconnects \in Nat
    /\ reader \in {"waiting", "reading", "delivering", "handling", "ended", "returned"}
    /\ cursor \in {Nil} \cup Nat
    /\ batch \in Seq(Events)
    /\ receiver \in {"opening", "watching", "ended"}
    /\ elapsed \in 0 .. Threshold
    /\ timer \in 0 .. Threshold
    /\ sessions \in Nat
    /\ floor \in Nat
    /\ delivered \subseteq Events
    /\ announced \in 0 .. stable
    /\ silent \in 0 .. Threshold + 1
    /\ reader = "handling" => batch # <<>>

Types == Flags /\ Data

\* Types is TypeOK and that the handler has an event.
LEMMA TypesOK == Types => TypeOK
BY Zenon DEF Types, Flags, Data, TypeOK

\* The initial states are well typed.
LEMMA TypeInit == Init => Types
<1> SUFFICES ASSUME Init PROVE Flags /\ Data
  BY Zenon DEF Types
<1>1. Flags BY Zenon DEF Init, Flags
<1>2. cursor \in {Nil} \cup Nat BY SubscriptionAssumption, Zenon DEF Init
<1>3. floor \in Nat BY <1>2, Zenon DEF Init, Nil
<1>4. QED BY <1>1, <1>2, <1>3, SubscriptionAssumption DEF Init, Data

\* No step gives a Boolean variable another value.
LEMMA FlagsStep == Flags /\ [Next]_vars => Flags'
<1> SUFFICES ASSUME Flags, [Next]_vars PROVE Flags'
  BY Zenon
<1>1. CASE Open BY <1>1, Zenon DEF Flags, Open, Ping, logVars, readerVars
<1>2. CASE ReceiveHint BY <1>2, Zenon DEF Flags, ReceiveHint, Wake, logVars, readerVars
<1>3. CASE NoteActivity BY <1>3, Zenon DEF Flags, NoteActivity, logVars, natsVars, readerVars
<1>4. CASE TimerFires BY <1>4, Zenon DEF Flags, TimerFires, Ping, logVars, readerVars
<1>5. CASE NoteRestored BY <1>5, Zenon DEF Flags, NoteRestored, Ping, logVars, readerVars
<1>6. CASE StopReceiving BY <1>6, Zenon DEF Flags, StopReceiving, logVars, natsVars, readerVars
<1>7. CASE Take BY <1>7, Zenon DEF Flags, Take, logVars, natsVars, receiverVars
<1>8. CASE Read BY <1>8, Zenon DEF Flags, Read, GoesOn, logVars, natsVars, receiverVars
<1>9. CASE Deliver BY <1>9, Zenon DEF Flags, Deliver, logVars, natsVars, receiverVars
<1>10. CASE Handle BY <1>10, Zenon DEF Flags, Handle, logVars, natsVars, receiverVars
<1>11. CASE EndBatch BY <1>11, Zenon DEF Flags, EndBatch, logVars, natsVars, receiverVars
<1>12. CASE StopReading BY <1>12, Zenon DEF Flags, StopReading, logVars, natsVars, receiverVars
<1>13. CASE Return BY <1>13, Zenon DEF Flags, Return, logVars, natsVars, receiverVars
<1>14. CASE Save BY <1>14, Zenon DEF Flags, Save, natsVars, readerVars, receiverVars
<1>15. CASE Settle BY <1>15, Zenon DEF Flags, Settle, natsVars, readerVars, receiverVars
<1>16. CASE Relay BY <1>16, Zenon DEF Flags, Relay, logVars, readerVars, receiverVars
<1>17. CASE LoseHint BY <1>17, Zenon DEF Flags, LoseHint, logVars, readerVars, receiverVars
<1>18. CASE Disconnect BY <1>18, Zenon DEF Flags, Disconnect, logVars, readerVars, receiverVars
<1>19. CASE Reconnect BY <1>19, Zenon DEF Flags, Reconnect, logVars, readerVars, receiverVars
<1>20. CASE Deactivate BY <1>20, Zenon DEF Flags, Deactivate, logVars, natsVars, readerVars, receiverVars
<1>21. CASE Tick BY <1>21, Zenon DEF Flags, Tick, logVars, natsVars, readerVars
<1>22. CASE Resubscribe BY <1>22, Zenon DEF Flags, Resubscribe, logVars, natsVars
<1>23. CASE UNCHANGED vars BY <1>23, Zenon DEF Flags, vars, logVars, natsVars, readerVars, receiverVars
<1>24. QED
  BY Zenon, <1>1, <1>2, <1>3, <1>4, <1>5, <1>6, <1>7, <1>8, <1>9, <1>10, <1>11, <1>12,
     <1>13, <1>14, <1>15, <1>16, <1>17, <1>18, <1>19, <1>20, <1>21, <1>22, <1>23
  DEF Next, Receiving, Reading, Environment

\* Every step keeps the others: the watchdog's clocks stay in their ranges
\* and a batch only gets shorter while it is delivered.
LEMMA DataStep == Data /\ [Next]_vars => Data'
<1> SUFFICES ASSUME Data, [Next]_vars PROVE Data'
  BY Zenon
<1> USE SubscriptionAssumption
<1>r. Remaining \in 0 .. Threshold BY DEF Data, Remaining
<1>b. batch \in Seq(Events) BY Zenon DEF Data
<1>1. CASE Open BY <1>1 DEF Data, Open, Ping, logVars, readerVars
<1>2. CASE ReceiveHint BY <1>2 DEF Data, ReceiveHint, Wake, logVars, readerVars
<1>3. CASE NoteActivity BY <1>3, <1>r, Zenon DEF Data, NoteActivity, logVars, natsVars, readerVars
<1>4. CASE TimerFires BY <1>4, <1>r DEF Data, TimerFires, Ping, logVars, readerVars
<1>5. CASE NoteRestored BY <1>5 DEF Data, NoteRestored, Ping, logVars, readerVars
<1>6. CASE StopReceiving BY <1>6, Zenon DEF Data, StopReceiving, logVars, natsVars, readerVars
<1>7. CASE Take BY <1>7, Zenon DEF Data, Take, logVars, natsVars, receiverVars
<1>8. CASE Read
  <2>1. batch' \in Seq(Events) /\ floor' \in Nat
    <3>1. CASE UNCHANGED <<batch, again, floor>> BY <3>1, Zenon DEF Data
    <3>2. CASE \E b \in Batches : /\ batch' = b
                                  /\ floor' = IF initialized THEN floor ELSE IF b = <<>> THEN 0 ELSE b[1] - 1
      <4>1. PICK b \in Batches : /\ batch' = b
                                 /\ floor' = IF initialized THEN floor ELSE IF b = <<>> THEN 0 ELSE b[1] - 1
        BY <3>2, Zenon
      <4>2. b \in Seq(Events) BY BatchIsSeq, Zenon
      <4>3. b # <<>> => b[1] \in Events BY <4>2, RestOfBatch, Zenon
      <4>4. floor' \in Nat BY <4>1, <4>3 DEF Data, Events
      <4>5. QED BY <4>1, <4>2, <4>4, Zenon
    <3>3. QED BY <1>8, <3>1, <3>2, Zenon DEF Read
  <2>2. reader' \in {"delivering", "ended"} BY <1>8, Zenon DEF Read
  <2>3. QED BY <1>8, <2>1, <2>2, Zenon DEF Data, Read, logVars, natsVars, receiverVars
<1>9. CASE Deliver
  <2>1. batch' \in Seq(Events) BY <1>9, <1>b, RestOfBatch, Zenon DEF Deliver
  <2>2. reader' \in {"delivering", "handling", "ended"} /\ (reader' = "handling" => batch' # <<>>)
    BY <1>9, Zenon DEF Deliver
  <2>3. QED BY <1>9, <2>1, <2>2, Zenon DEF Data, Deliver, logVars, natsVars, receiverVars
<1>10. CASE Handle
  <2>1. batch # <<>> BY <1>10, Zenon DEF Data, Handle
  <2>2. Head(batch) \in Events /\ Tail(batch) \in Seq(Events) BY <2>1, <1>b, RestOfBatch, Zenon
  <2>3. cursor' \in {cursor, Head(batch)} BY <1>10, Zenon DEF Handle, CursorAfter
  <2>4. delivered' \subseteq Events /\ batch' \in Seq(Events) BY <1>10, <2>2, <1>b, Zenon DEF Handle, Data
  <2>5. reader' \in {"delivering", "ended"} BY <1>10, Zenon DEF Handle
  <2>6. cursor' \in {Nil} \cup Nat BY <2>2, <2>3 DEF Data, Events
  <2>7. QED BY <1>10, <2>4, <2>5, <2>6, Zenon DEF Data, Handle, logVars, natsVars, receiverVars
<1>11. CASE EndBatch BY <1>11, Zenon DEF Data, EndBatch, logVars, natsVars, receiverVars
<1>12. CASE StopReading BY <1>12, Zenon DEF Data, StopReading, logVars, natsVars, receiverVars
<1>13. CASE Return BY <1>13, Zenon DEF Data, Return, logVars, natsVars, receiverVars
<1>14. CASE Save BY <1>14 DEF Data, Save, natsVars, readerVars, receiverVars
<1>15. CASE Settle BY <1>15 DEF Data, Settle, natsVars, readerVars, receiverVars
<1>16. CASE Relay BY <1>16, Zenon DEF Data, Relay, logVars, readerVars, receiverVars
<1>17. CASE LoseHint BY <1>17, Zenon DEF Data, LoseHint, logVars, readerVars, receiverVars
<1>18. CASE Disconnect BY <1>18 DEF Data, Disconnect, logVars, readerVars, receiverVars
<1>19. CASE Reconnect BY <1>19, Zenon DEF Data, Reconnect, logVars, readerVars, receiverVars
<1>20. CASE Deactivate BY <1>20, Zenon DEF Data, Deactivate, logVars, natsVars, readerVars, receiverVars
<1>21. CASE Tick BY <1>21 DEF Data, Tick, logVars, natsVars, readerVars
<1>22. CASE Resubscribe BY <1>22 DEF Data, Resubscribe, logVars, natsVars
<1>23. CASE UNCHANGED vars BY <1>23, Zenon DEF Data, vars, logVars, natsVars, readerVars, receiverVars
<1>24. QED
  BY Zenon, <1>1, <1>2, <1>3, <1>4, <1>5, <1>6, <1>7, <1>8, <1>9, <1>10, <1>11, <1>12,
     <1>13, <1>14, <1>15, <1>16, <1>17, <1>18, <1>19, <1>20, <1>21, <1>22, <1>23
  DEF Next, Receiving, Reading, Environment

\* Every state of a subscription is well typed.
THEOREM SubscriptionType == Spec => []TypeOK
<1>1. Types /\ [Next]_vars => Types' BY FlagsStep, DataStep, Zenon DEF Types
<1>2. QED BY TypeInit, <1>1, TypesOK, PTL DEF Spec
-----------------------------------------------------------------------------
(* The watchdog *)

\* What is left of the timer covers what is left of the permitted silence,
\* and a ping does not count as activity.
SilenceInv ==
    /\ silent <= Threshold
    /\ receiver = "watching" => silent + timer <= Threshold /\ silent <= elapsed

\* The bound on silence is kept by every step, whichever of the timer and the
\* note of activity is looked at first.
LEMMA SilenceStep == Types /\ SilenceInv /\ [Next]_vars => SilenceInv'
<1> SUFFICES ASSUME Types, SilenceInv, [Next]_vars PROVE SilenceInv'
  BY Zenon
<1> USE SubscriptionAssumption
<1>t. elapsed \in 0 .. Threshold /\ timer \in 0 .. Threshold /\ silent \in 0 .. Threshold + 1
  BY Zenon DEF Types, Data
<1>r. Remaining \in 0 .. Threshold /\ (Remaining = 0 <=> elapsed = Threshold) /\ Remaining = Threshold - elapsed
  BY <1>t DEF Remaining
<1>1. CASE Open BY <1>1, <1>t, <1>r DEF SilenceInv, Open, Ping
<1>2. CASE ReceiveHint BY <1>2, <1>t, <1>r DEF SilenceInv, ReceiveHint, Wake
<1>3. CASE NoteActivity BY <1>3, <1>t, <1>r DEF SilenceInv, NoteActivity
<1>4. CASE TimerFires BY <1>4, <1>t, <1>r DEF SilenceInv, TimerFires, Ping
<1>5. CASE NoteRestored BY <1>5, <1>t, <1>r DEF SilenceInv, NoteRestored, Ping
<1>6. CASE StopReceiving BY <1>6, Zenon DEF SilenceInv, StopReceiving, logVars, natsVars, readerVars
<1>7. CASE Take BY <1>7, Zenon DEF SilenceInv, Take, logVars, natsVars, receiverVars
<1>8. CASE Read BY <1>8, Zenon DEF SilenceInv, Read, logVars, natsVars, receiverVars
<1>9. CASE Deliver BY <1>9, Zenon DEF SilenceInv, Deliver, logVars, natsVars, receiverVars
<1>10. CASE Handle BY <1>10, Zenon DEF SilenceInv, Handle, logVars, natsVars, receiverVars
<1>11. CASE EndBatch BY <1>11, Zenon DEF SilenceInv, EndBatch, logVars, natsVars, receiverVars
<1>12. CASE StopReading BY <1>12, Zenon DEF SilenceInv, StopReading, logVars, natsVars, receiverVars
<1>13. CASE Return BY <1>13, Zenon DEF SilenceInv, Return, logVars, natsVars, receiverVars
<1>14. CASE Save BY <1>14, Zenon DEF SilenceInv, Save, natsVars, readerVars, receiverVars
<1>15. CASE Settle BY <1>15, Zenon DEF SilenceInv, Settle, natsVars, readerVars, receiverVars
<1>16. CASE Relay BY <1>16, Zenon DEF SilenceInv, Relay, logVars, readerVars, receiverVars
<1>17. CASE LoseHint BY <1>17, Zenon DEF SilenceInv, LoseHint, logVars, readerVars, receiverVars
<1>18. CASE Disconnect BY <1>18, Zenon DEF SilenceInv, Disconnect, logVars, readerVars, receiverVars
<1>19. CASE Reconnect BY <1>19, Zenon DEF SilenceInv, Reconnect, logVars, readerVars, receiverVars
<1>20. CASE Deactivate BY <1>20, Zenon DEF SilenceInv, Deactivate, logVars, natsVars, readerVars, receiverVars
<1>21. CASE Tick BY <1>21, <1>t, <1>r DEF SilenceInv, Tick
<1>22. CASE Resubscribe BY <1>22, <1>t, <1>r DEF SilenceInv, Resubscribe
<1>23. CASE UNCHANGED vars BY <1>23, Zenon DEF SilenceInv, vars, logVars, natsVars, readerVars, receiverVars
<1>24. QED
  BY Zenon, <1>1, <1>2, <1>3, <1>4, <1>5, <1>6, <1>7, <1>8, <1>9, <1>10, <1>11, <1>12,
     <1>13, <1>14, <1>15, <1>16, <1>17, <1>18, <1>19, <1>20, <1>21, <1>22, <1>23
  DEF Next, Receiving, Reading, Environment

\* A subscription that listens is never silent for longer than its idle
\* threshold, for every threshold and any delay in noticing activity.
THEOREM SilenceIsBounded == Spec => []BoundedSilence
<1>1. Init => SilenceInv BY SubscriptionAssumption DEF Init, SilenceInv
<1>2. Types /\ [Next]_vars => Types' BY FlagsStep, DataStep, Zenon DEF Types
<1>3. SilenceInv => BoundedSilence BY Zenon DEF SilenceInv, BoundedSilence
<1>4. QED BY TypeInit, <1>1, <1>2, <1>3, SilenceStep, PTL DEF Spec

-----------------------------------------------------------------------------
(* The order of delivery *)

\* A batch under delivery ascends from the cursor, and the handler is given
\* an event after it.
OrderInv ==
    /\ \A e \in delivered : e <= cursor
    /\ reader \in {"delivering", "handling"} =>
          \A i \in DOMAIN batch : IF i = 1 THEN cursor <= batch[i] ELSE batch[i - 1] < batch[i]
    /\ reader = "handling" => cursor < Head(batch)

\* Validation of the whole batch before its first event makes the order of
\* delivery independent of what the backend returned.
LEMMA OrderStep == Types /\ OrderInv /\ [Next]_vars => OrderInv'
<1> SUFFICES ASSUME Types, OrderInv, [Next]_vars PROVE OrderInv'
  BY Zenon
<1> USE SubscriptionAssumption
<1>t. /\ batch \in Seq(Events) /\ cursor \in Int /\ delivered \subseteq Events
      /\ reader = "handling" => batch # <<>>
  BY DEF Types, Data, Nil
<1>1. CASE Open BY <1>1, Zenon DEF OrderInv, Open, Ping, logVars, readerVars
<1>2. CASE ReceiveHint BY <1>2, Zenon DEF OrderInv, ReceiveHint, Wake, logVars, readerVars
<1>3. CASE NoteActivity BY <1>3, Zenon DEF OrderInv, NoteActivity, logVars, natsVars, readerVars
<1>4. CASE TimerFires BY <1>4, Zenon DEF OrderInv, TimerFires, Ping, logVars, readerVars
<1>5. CASE NoteRestored BY <1>5, Zenon DEF OrderInv, NoteRestored, Ping, logVars, readerVars
<1>6. CASE StopReceiving BY <1>6, Zenon DEF OrderInv, StopReceiving, logVars, natsVars, readerVars
<1>7. CASE Take BY <1>7, Zenon DEF OrderInv, Take, logVars, natsVars, receiverVars
<1>8. CASE Read
  <2>1. CASE reader' = "ended" BY <2>1, <1>8, Zenon DEF OrderInv, Read
  <2>2. CASE reader' # "ended"
    <3>1. PICK b \in Batches : batch' = b /\ Valid(b) BY <2>2, <1>8, Zenon DEF Read
    <3>2. \A i \in DOMAIN b : IF i = 1 THEN cursor <= b[i] ELSE b[i - 1] < b[i]
      <4>1. SUFFICES ASSUME NEW i \in DOMAIN b PROVE IF i = 1 THEN cursor <= b[i] ELSE b[i - 1] < b[i]
        BY Zenon
      <4>2. b \in Seq(Events) BY BatchIsSeq, Zenon
      <4>3. b[i] \in Int /\ i \in Nat BY <4>2 DEF Events
      <4>4. i # 1 => i - 1 \in DOMAIN b BY <4>2
      <4>5. i # 1 => b[i - 1] \in Int BY <4>2, <4>4 DEF Events
      <4>6. QED BY <3>1, <4>3, <4>4, <4>5, <1>t DEF Valid
    <3>3. reader' = "delivering" /\ UNCHANGED <<cursor, delivered>> BY <2>2, <1>8, Zenon DEF Read
    <3>4. QED BY <3>1, <3>2, <3>3, Zenon DEF OrderInv
  <2>3. QED BY <2>1, <2>2, Zenon
<1>9. CASE Deliver
  <2>1. batch # <<>> /\ reader = "delivering" /\ UNCHANGED <<cursor, delivered>> BY <1>9, Zenon DEF Deliver
  <2>2. Head(batch) = batch[1] /\ 1 \in DOMAIN batch /\ Head(batch) \in Int BY <2>1, <1>t, RestOfBatch DEF Events
  <2>3. CASE batch' = Tail(batch) /\ Head(batch) = cursor /\ UNCHANGED reader
    <3>1. SUFFICES ASSUME NEW i \in DOMAIN batch'
                   PROVE  IF i = 1 THEN cursor <= batch'[i] ELSE batch'[i - 1] < batch'[i]
      BY <2>1, <2>3, Zenon DEF OrderInv
    <3>2. i \in 1 .. Len(batch) - 1 /\ batch'[i] = batch[i + 1] BY <2>3, <2>1, <1>t, RestOfBatch, Zenon
    <3>3. i + 1 \in DOMAIN batch /\ i + 1 # 1 BY <3>2, <1>t
    <3>4. batch[i] < batch[i + 1] BY <3>3, <3>2, <2>1 DEF OrderInv
    <3>5. batch[i + 1] \in Int BY <3>3, <1>t DEF Events
    <3>6. CASE i = 1 BY <3>6, <3>4, <3>2, <3>5, <2>2, <2>3, <1>t
    <3>7. CASE i # 1
      <4>1. i - 1 \in DOMAIN Tail(batch) BY <3>7, <3>2, <2>1, <1>t, RestOfBatch
      <4>2. batch'[i - 1] = batch[i] BY <4>1, <2>3, <2>1, <1>t, <3>2, RestOfBatch, SMTT(30)
      <4>3. QED BY <4>2, <3>4, <3>2, <3>7, Zenon
    <3>8. QED BY <3>6, <3>7, Zenon
  <2>4. CASE UNCHANGED batch /\ Head(batch) # cursor /\ reader' \in {"handling", "ended"}
    BY <2>4, <2>1, <2>2, <1>t DEF OrderInv
  <2>5. QED BY <2>3, <2>4, <1>9, Zenon DEF Deliver
<1>10. CASE Handle
  <2>1. batch # <<>> /\ reader = "handling" BY <1>10, <1>t, Zenon DEF Handle
  <2>2. Head(batch) = batch[1] /\ Head(batch) \in Int /\ cursor < Head(batch)
    BY <2>1, <1>t, RestOfBatch DEF Events, OrderInv
  <2>3. CASE cursor' = cursor /\ delivered' = delivered /\ reader' = "ended" BY <2>3, Zenon DEF OrderInv
  <2>4. CASE /\ cursor' = Head(batch) /\ delivered' = delivered \cup {Head(batch)}
             /\ batch' = Tail(batch) /\ reader' = "delivering"
    <3>1. \A e \in delivered' : e <= cursor' BY <2>4, <2>2, <1>t DEF OrderInv, Events
    <3>2. SUFFICES ASSUME NEW i \in DOMAIN batch'
                   PROVE  IF i = 1 THEN cursor' <= batch'[i] ELSE batch'[i - 1] < batch'[i]
      BY <3>1, <2>4, Zenon DEF OrderInv
    <3>3. i \in 1 .. Len(batch) - 1 /\ batch'[i] = batch[i + 1] BY <2>4, <2>1, <1>t, RestOfBatch, Zenon
    <3>4. i + 1 \in DOMAIN batch /\ i + 1 # 1 BY <3>3, <1>t
    <3>5. batch[i] < batch[i + 1] BY <3>4, <3>3, <2>1 DEF OrderInv
    <3>6. batch[i + 1] \in Int BY <3>4, <1>t DEF Events
    <3>7. CASE i = 1 BY <3>7, <3>5, <3>3, <3>6, <2>2, <2>4
    <3>8. CASE i # 1
      <4>1. i - 1 \in DOMAIN Tail(batch) BY <3>8, <3>3, <2>1, <1>t, RestOfBatch
      <4>2. batch'[i - 1] = batch[i] BY <4>1, <2>4, <2>1, <1>t, <3>3, RestOfBatch
      <4>3. QED BY <4>2, <3>5, <3>3, <3>8, Zenon
    <3>9. QED BY <3>7, <3>8, Zenon
  <2>5. QED BY <2>3, <2>4, <1>10, Zenon DEF Handle, CursorAfter
<1>11. CASE EndBatch BY <1>11, Zenon DEF OrderInv, EndBatch
<1>12. CASE StopReading BY <1>12, Zenon DEF OrderInv, StopReading, logVars, natsVars, receiverVars
<1>13. CASE Return BY <1>13, Zenon DEF OrderInv, Return, logVars, natsVars, receiverVars
<1>14. CASE Save BY <1>14, Zenon DEF OrderInv, Save, natsVars, readerVars, receiverVars
<1>15. CASE Settle BY <1>15, Zenon DEF OrderInv, Settle, natsVars, readerVars, receiverVars
<1>16. CASE Relay BY <1>16, Zenon DEF OrderInv, Relay, logVars, readerVars, receiverVars
<1>17. CASE LoseHint BY <1>17, Zenon DEF OrderInv, LoseHint, logVars, readerVars, receiverVars
<1>18. CASE Disconnect BY <1>18, Zenon DEF OrderInv, Disconnect, logVars, readerVars, receiverVars
<1>19. CASE Reconnect BY <1>19, Zenon DEF OrderInv, Reconnect, logVars, readerVars, receiverVars
<1>20. CASE Deactivate BY <1>20, Zenon DEF OrderInv, Deactivate, logVars, natsVars, readerVars, receiverVars
<1>21. CASE Tick BY <1>21, Zenon DEF OrderInv, Tick, logVars, natsVars, readerVars
<1>22. CASE Resubscribe BY <1>22, Zenon DEF OrderInv, Resubscribe, logVars, natsVars
<1>23. CASE UNCHANGED vars BY <1>23, Zenon DEF OrderInv, vars, logVars, natsVars, readerVars, receiverVars
<1>24. QED
  BY Zenon, <1>1, <1>2, <1>3, <1>4, <1>5, <1>6, <1>7, <1>8, <1>9, <1>10, <1>11, <1>12,
     <1>13, <1>14, <1>15, <1>16, <1>17, <1>18, <1>19, <1>20, <1>21, <1>22, <1>23
  DEF Next, Receiving, Reading, Environment

\* Events are delivered in ascending order and never twice, whatever the
\* backend returns and however often the client subscribes again.
THEOREM DeliveryOrder == Spec => DeliveryAscends
<1>1. Init => OrderInv BY Zenon DEF Init, OrderInv
<1>2. Types /\ [Next]_vars => Types' BY FlagsStep, DataStep, Zenon DEF Types
<1>3. ASSUME Types, OrderInv, [Next]_vars
      PROVE  [\A e \in delivered' \ delivered : e > cursor /\ cursor' = e /\ \A d \in delivered : d < e]_vars
  <2>1. CASE Handle
    <3>1. batch # <<>> /\ batch \in Seq(Events) /\ reader = "handling" BY <1>3, <2>1, Zenon DEF Types, Data, Handle
    <3>2. Head(batch) \in Int /\ cursor \in Int /\ cursor < Head(batch) /\ delivered \subseteq Int
      BY <3>1, <1>3, RestOfBatch DEF Events, OrderInv, Types, Data, Nil
    <3>3. \A d \in delivered : d < Head(batch) BY <3>2, <1>3 DEF OrderInv
    <3>4. \A e \in delivered' \ delivered : e = Head(batch) /\ cursor' = Head(batch)
      BY <2>1, Zenon DEF Handle, CursorAfter
    <3>5. QED BY <3>2, <3>3, <3>4, Zenon
  <2>2. CASE ~Handle
    <3>1. delivered' = delivered
      BY <1>3, <2>2, Zenon DEF Next, Receiving, Reading, Environment, vars, readerVars, receiverVars, logVars, natsVars, Open,
         ReceiveHint, NoteActivity, TimerFires, NoteRestored, StopReceiving, Take, Read, Deliver, EndBatch, StopReading,
         Return, Save, Settle, Relay, LoseHint, Disconnect, Reconnect, Deactivate, Tick, Resubscribe
    <3>2. QED BY <3>1, Zenon
  <2>3. QED BY <2>1, <2>2, Zenon
<1>4. QED BY TypeInit, <1>1, <1>2, <1>3, OrderStep, PTL DEF Spec, DeliveryAscends
-----------------------------------------------------------------------------
(* What is delivered *)

\* Where a subscription starts and what the batch under delivery leaves out:
\* nothing between the cursor and any of its events.
SkipInv ==
    /\ NothingSkipped
    /\ cursor # Nil => floor <= cursor
    /\ cursor = Nil /\ initialized => floor = 0
    /\ ~initialized /\ reader \in {"waiting", "reading"} => cursor = Nil
    /\ cursor = Nil /\ reader = "delivering" /\ batch = <<>> => floor = 0
    /\ reader \in {"delivering", "handling"} =>
          \A i \in DOMAIN batch :
              /\ batch[i] \in Matching
              /\ cursor < batch[i] => floor < batch[i]
              /\ \A e \in Matching : floor < e /\ cursor < e /\ e < batch[i] =>
                    \E j \in DOMAIN batch : j < i /\ batch[j] = e

\* Nothing is delivered and nothing is skipped at the start.
LEMMA SkipInit == Init => SkipInv
<1>1. SUFFICES ASSUME Init PROVE SkipInv
  BY Zenon
<1>2. cursor \in {Nil} \cup Nat /\ Matching \subseteq Events BY <1>1, SubscriptionAssumption, Zenon DEF Init, Events
<1>3. \A e \in Matching : ~(floor < e /\ e <= cursor) BY <1>1, <1>2 DEF Init, Nil, Events
<1>4. NothingSkipped BY <1>1, <1>3, Zenon DEF Init, NothingSkipped
<1>5. (initialized <=> cursor # Nil) /\ reader = "waiting" BY <1>1, Zenon DEF Init
<1>6. cursor # Nil => floor <= cursor BY <1>1, <1>2 DEF Init
<1>7. QED BY <1>4, <1>5, <1>6, Zenon DEF SkipInv

\* The length of a batch of the latest read that is not empty.
LEMMA OnlyOne == ASSUME NEW n \in Nat, n # 0, n <= 1 PROVE n = 1
OBVIOUS

\* A read from a backend that keeps its promise leaves nothing out.
LEMMA SkipRead == ASSUME Types, SkipInv, Read PROVE SkipInv'
<1> USE SubscriptionAssumption
<1>t. cursor \in {Nil} \cup Nat /\ floor \in Nat /\ stored \in Nat /\ initialized \in BOOLEAN /\ Matching \subseteq Events
  BY DEF Types, Flags, Data, Events
<1>m. \A e \in Matching : e \in Nat /\ e >= 1 OBVIOUS
<1>u. UNCHANGED <<cursor, initialized, delivered>> /\ reader = "reading" BY Zenon DEF Read
<1>1. CASE reader' = "ended"
  <2>1. UNCHANGED <<floor, batch>> BY <1>1, Zenon DEF Read
  <2>2. QED BY <1>1, <2>1, <1>u, Zenon DEF SkipInv, NothingSkipped
<1>2. CASE reader' # "ended"
  <2>1. PICK b \in Batches : /\ Returned(b) /\ Valid(b) /\ batch' = b
                             /\ floor' = IF initialized THEN floor ELSE IF b = <<>> THEN 0 ELSE b[1] - 1
    BY <1>2, Zenon DEF Read
  <2>2. b \in Seq(Events) /\ reader' = "delivering" BY <1>2, BatchIsSeq, Zenon DEF Read
  <2>3. CASE initialized
    <3>1. floor' = floor BY <2>1, <2>3, Zenon
    <3>2. IsAscendingRead(b) BY <2>1, <2>3, Zenon DEF Returned
    <3>3. ASSUME NEW k \in DOMAIN b
          PROVE  /\ b[k] \in Matching /\ (cursor < b[k] => floor < b[k])
                 /\ \A e \in Matching : floor < e /\ cursor < e /\ e < b[k] => \E j \in DOMAIN b : j < k /\ b[j] = e
      <4>1. b[k] \in Matching /\ b[k] <= stable BY <3>2, Zenon DEF IsAscendingRead
      <4>2. b[k] \in Nat /\ b[k] >= 1 BY <4>1, <1>m, Zenon
      <4>3. cursor < b[k] => floor < b[k]
        <5>1. CASE cursor = Nil BY <5>1, <4>2, <2>3 DEF SkipInv
        <5>2. CASE cursor # Nil
          <6>1. floor <= cursor /\ cursor \in Nat BY <5>2, <1>t, Zenon DEF SkipInv
          <6>2. QED BY <6>1, <4>2, <1>t
        <5>3. QED BY <5>1, <5>2, Zenon
      <4>4. ASSUME NEW e \in Matching, cursor < e, e < b[k] PROVE \E j \in DOMAIN b : j < k /\ b[j] = e
        <5>1. e \in Nat /\ stable \in Nat BY <1>t DEF Events, Types, Data
        <5>2. cursor <= e /\ e <= stable BY <4>4, <4>1, <4>2, <5>1, <1>t DEF Nil
        <5>3. ~(b[k] < e) BY <4>4, <4>2, <5>1
        <5>4. PICK j \in DOMAIN b : b[j] = e BY <3>2, <5>2, <5>3, Zenon DEF IsAscendingRead
        <5>5. j \in Nat /\ k \in Nat BY <2>2
        <5>6. ~(k < j) BY <5>4, <5>1, <4>2, <4>4, <2>1 DEF Valid
        <5>7. j # k BY <5>4, <5>1, <4>2, <4>4
        <5>8. QED BY <5>4, <5>5, <5>6, <5>7
      <4>5. QED BY <4>1, <4>3, <4>4, Zenon
    <3>4. QED BY <3>1, <3>3, <2>1, <2>2, <2>3, <1>u DEF SkipInv, NothingSkipped
  <2>4. CASE ~initialized
    <3>1. cursor = Nil BY <2>4, <1>u, Zenon DEF SkipInv
    <3>2. IsLatestRead(b) BY <2>1, <2>4, Zenon DEF Returned
    <3>3. delivered = {}
      <4>1. \A e \in Matching : ~(e <= cursor) BY <3>1, <1>t DEF Nil, Events
      <4>2. QED BY <4>1, Zenon DEF SkipInv, NothingSkipped
    <3>4. CASE b = <<>>
      <4>1. floor' = 0 BY <2>1, <2>4, <3>4, Zenon
      <4>2. NothingSkipped'
        <5>1. \A e \in Matching : ~(e <= cursor') BY <3>1, <1>u, <1>t DEF Nil, Events
        <5>2. QED BY <5>1, <3>3, <1>u, Zenon DEF NothingSkipped
      <4>3. DOMAIN b = {} BY <3>4
      <4>4. QED BY <4>1, <4>2, <4>3, <2>1, <2>2, <2>4, <3>1, <3>4, <1>u, Zenon DEF SkipInv
    <3>5. CASE b # <<>>
      <4>1. PICK e \in Matching : b = <<e>>
        <5>1. Len(b) = 1
          <6>1. Count = 1 BY <2>4, Zenon DEF Count
          <6>2. Len(b) <= 1 BY <2>1, <6>1, Zenon DEF Valid
          <6>3. Len(b) # 0 /\ Len(b) \in Nat BY <2>2, <3>5
          <6>4. QED BY <6>2, <6>3, OnlyOne, Zenon
        <5>2. b[1] \in Matching BY <5>1, <2>2, <3>2 DEF IsLatestRead
        <5>3. b = <<b[1]>> BY <5>1, <2>2
        <5>4. QED BY <5>2, <5>3, Zenon
      <4>2. floor' = e - 1 /\ e \in Nat BY <2>1, <2>4, <3>5, <4>1, <1>t DEF Events
      <4>3. NothingSkipped'
        <5>1. \A d \in Matching : ~(d <= cursor') BY <3>1, <1>u, <1>t DEF Nil, Events
        <5>2. QED BY <5>1, <3>3, <1>u, Zenon DEF NothingSkipped
      <4>4. \A k \in DOMAIN b : b[k] = e BY <4>1
      <4>5. \A d \in Matching : ~(floor' < d /\ d < e) BY <4>2, <1>t DEF Events
      <4>6. floor' < e BY <4>2
      <4>7. QED BY <4>3, <4>4, <4>5, <4>6, <2>1, <2>2, <2>4, <3>1, <3>5, <1>u DEF SkipInv
    <3>6. QED BY <3>4, <3>5, Zenon
  <2>5. QED BY <2>3, <2>4, <1>t, Zenon
<1>3. QED BY <1>1, <1>2, Zenon

\* The first event of a batch comes right after what was delivered.
LEMMA SkipDeliver == ASSUME Types, OrderInv, SkipInv, Deliver \/ Handle PROVE SkipInv'
<1> USE SubscriptionAssumption
<1>t. /\ cursor \in {Nil} \cup Nat /\ floor \in Nat /\ initialized \in BOOLEAN /\ Matching \subseteq Events
      /\ batch \in Seq(Events)
  BY Zenon DEF Types, Flags, Data, Events
<1>b. batch # <<>> /\ reader \in {"delivering", "handling"} BY Zenon DEF Types, Data, Deliver, Handle
<1>h. /\ Head(batch) = batch[1] /\ 1 \in DOMAIN batch /\ Head(batch) \in Nat /\ Head(batch) >= 1
  BY <1>b, <1>t, RestOfBatch DEF Events
<1>u. UNCHANGED <<floor, initialized>> BY Zenon DEF Deliver, Handle
<1>r. ASSUME NEW c \in Nat, c = Head(batch), cursor <= c
      PROVE  \A i \in DOMAIN Tail(batch) :
                /\ Tail(batch)[i] \in Matching
                /\ c < Tail(batch)[i] => floor < Tail(batch)[i]
                /\ \A e \in Matching : floor < e /\ c < e /\ e < Tail(batch)[i] =>
                      \E j \in DOMAIN Tail(batch) : j < i /\ Tail(batch)[j] = e
  <2> SUFFICES ASSUME NEW i \in DOMAIN Tail(batch)
               PROVE  /\ Tail(batch)[i] \in Matching
                      /\ c < Tail(batch)[i] => floor < Tail(batch)[i]
                      /\ \A e \in Matching : floor < e /\ c < e /\ e < Tail(batch)[i] =>
                            \E j \in DOMAIN Tail(batch) : j < i /\ Tail(batch)[j] = e
    BY Zenon
  <2>1. i \in Nat /\ i + 1 \in DOMAIN batch /\ Tail(batch)[i] = batch[i + 1] BY <1>b, <1>t, RestOfBatch
  <2>2. batch[i + 1] \in Matching /\ (cursor < batch[i + 1] => floor < batch[i + 1]) BY <2>1, <1>b, Zenon DEF SkipInv
  <2>3. batch[i + 1] \in Nat BY <2>2, <1>t DEF Events
  <2>4. c < batch[i + 1] => floor < batch[i + 1] BY <2>2, <2>3, <1>r, <1>t DEF Nil
  <2>5. ASSUME NEW e \in Matching, floor < e, c < e, e < batch[i + 1]
        PROVE  \E j \in DOMAIN Tail(batch) : j < i /\ Tail(batch)[j] = e
    <3>1. e \in Nat /\ cursor < e BY <2>5, <1>r, <1>t DEF Events, Nil
    <3>2. PICK j \in DOMAIN batch : j < i + 1 /\ batch[j] = e BY <2>1, <2>5, <3>1, <1>b, Zenon DEF SkipInv
    <3>3. j # 1 BY <3>2, <2>5, <1>r, <1>h
    <3>4. j \in 1 .. Len(batch) BY <1>t
    <3>5. j - 1 \in DOMAIN Tail(batch) BY <3>3, <3>4, <1>b, <1>t, RestOfBatch
    <3>6. Tail(batch)[j - 1] = batch[j] BY <3>5, <3>4, <1>b, <1>t, RestOfBatch
    <3>7. j - 1 < i BY <3>2, <3>4, <2>1
    <3>8. QED BY <3>2, <3>5, <3>6, <3>7, Zenon
  <2>6. QED BY <2>1, <2>2, <2>4, <2>5, Zenon
<1>1. CASE Deliver
  <2>1. UNCHANGED <<cursor, delivered>> /\ reader = "delivering" BY <1>1, Zenon DEF Deliver
  <2>2. CASE Head(batch) = cursor /\ batch' = Tail(batch) /\ UNCHANGED reader
    <3>1. cursor # Nil /\ cursor \in Nat BY <2>2, <1>h DEF Nil
    <3>2. QED BY <3>1, <2>1, <2>2, <1>r, <1>u, <1>h DEF SkipInv, NothingSkipped
  <2>3. CASE UNCHANGED batch /\ reader' \in {"handling", "ended"}
    BY <2>1, <2>3, <1>u, <1>b, Zenon DEF SkipInv, NothingSkipped
  <2>4. QED BY <1>1, <2>2, <2>3, Zenon DEF Deliver
<1>2. CASE Handle
  <2>1. reader = "handling" /\ cursor < Head(batch) BY <1>2, Zenon DEF Handle, OrderInv
  <2>2. CASE UNCHANGED <<cursor, delivered>> /\ reader' = "ended"
    BY <2>2, <2>1, <1>u, <1>t, Zenon DEF SkipInv, NothingSkipped
  <2>3. CASE /\ cursor' = Head(batch) /\ delivered' = delivered \cup {Head(batch)}
             /\ batch' = Tail(batch) /\ reader' = "delivering"
    <3>1. Head(batch) \in Matching /\ floor < Head(batch) BY <2>1, <1>h, Zenon DEF SkipInv
    <3>2. ASSUME NEW e \in Matching, floor < e, cursor < e, e < Head(batch) PROVE FALSE
      <4>1. PICK j \in DOMAIN batch : j < 1 BY <3>2, <2>1, <1>h, Zenon DEF SkipInv
      <4>2. QED BY <4>1, <1>t
    <3>3. NothingSkipped'
      <4>1. ASSUME NEW e \in Matching
            PROVE  (floor < e /\ e <= Head(batch)) <=> (e = Head(batch) \/ (floor < e /\ e <= cursor))
        <5>1. e \in Nat BY <1>t DEF Events
        <5>2. QED BY <5>1, <3>1, <3>2, <2>1, <1>h, <1>t DEF Nil
      <4>2. QED BY <4>1, <2>3, <1>u, <3>1, Zenon DEF NothingSkipped, SkipInv
    <3>4. cursor' # Nil /\ floor' <= cursor' BY <2>3, <1>h, <3>1, <1>u, <1>t DEF Nil
    <3>5. QED BY <3>3, <3>4, <2>3, <1>r, <2>1, <1>h, <1>t, <1>u DEF SkipInv, Nil
  <2>4. QED BY <1>2, <2>2, <2>3, Zenon DEF Handle, CursorAfter
<1>3. QED BY <1>1, <1>2, Zenon

\* No step skips an event.
LEMMA SkipStep == Types /\ OrderInv /\ SkipInv /\ [Next]_vars => SkipInv'
<1> SUFFICES ASSUME Types, OrderInv, SkipInv, [Next]_vars PROVE SkipInv'
  BY Zenon
<1>1. CASE Open BY <1>1, Zenon DEF SkipInv, NothingSkipped, Open, Ping, logVars, readerVars
<1>2. CASE ReceiveHint BY <1>2, Zenon DEF SkipInv, NothingSkipped, ReceiveHint, Wake, logVars, readerVars
<1>3. CASE NoteActivity BY <1>3, Zenon DEF SkipInv, NothingSkipped, NoteActivity, logVars, natsVars, readerVars
<1>4. CASE TimerFires BY <1>4, Zenon DEF SkipInv, NothingSkipped, TimerFires, Ping, logVars, readerVars
<1>5. CASE NoteRestored BY <1>5, Zenon DEF SkipInv, NothingSkipped, NoteRestored, Ping, logVars, readerVars
<1>6. CASE StopReceiving BY <1>6, Zenon DEF SkipInv, NothingSkipped, StopReceiving, logVars, natsVars, readerVars
<1>7. CASE Take BY <1>7, Zenon DEF SkipInv, NothingSkipped, Take, logVars, natsVars, receiverVars
<1>8. CASE Read BY <1>8, SkipRead, Zenon
<1>9. CASE Deliver BY <1>9, SkipDeliver, Zenon
<1>10. CASE Handle BY <1>10, SkipDeliver, Zenon
<1>11. CASE EndBatch BY <1>11, Zenon DEF SkipInv, NothingSkipped, EndBatch, logVars, natsVars, receiverVars
<1>12. CASE StopReading BY <1>12, Zenon DEF SkipInv, NothingSkipped, StopReading, logVars, natsVars, receiverVars
<1>13. CASE Return BY <1>13, Zenon DEF SkipInv, NothingSkipped, Return, logVars, natsVars, receiverVars
<1>14. CASE Save BY <1>14, Zenon DEF SkipInv, NothingSkipped, Save, natsVars, readerVars, receiverVars
<1>15. CASE Settle BY <1>15, Zenon DEF SkipInv, NothingSkipped, Settle, natsVars, readerVars, receiverVars
<1>16. CASE Relay BY <1>16, Zenon DEF SkipInv, NothingSkipped, Relay, logVars, readerVars, receiverVars
<1>17. CASE LoseHint BY <1>17, Zenon DEF SkipInv, NothingSkipped, LoseHint, logVars, readerVars, receiverVars
<1>18. CASE Disconnect BY <1>18, Zenon DEF SkipInv, NothingSkipped, Disconnect, logVars, readerVars, receiverVars
<1>19. CASE Reconnect BY <1>19, Zenon DEF SkipInv, NothingSkipped, Reconnect, logVars, readerVars, receiverVars
<1>20. CASE Deactivate BY <1>20, Zenon DEF SkipInv, NothingSkipped, Deactivate, logVars, natsVars, readerVars, receiverVars
<1>21. CASE Tick BY <1>21, Zenon DEF SkipInv, NothingSkipped, Tick, logVars, natsVars, readerVars
<1>22. CASE Resubscribe BY <1>22, Zenon DEF SkipInv, NothingSkipped, Resubscribe, logVars, natsVars
<1>23. CASE UNCHANGED vars BY <1>23, Zenon DEF SkipInv, NothingSkipped, vars, logVars, natsVars, readerVars, receiverVars
<1>24. QED
  BY Zenon, <1>1, <1>2, <1>3, <1>4, <1>5, <1>6, <1>7, <1>8, <1>9, <1>10, <1>11, <1>12,
     <1>13, <1>14, <1>15, <1>16, <1>17, <1>18, <1>19, <1>20, <1>21, <1>22, <1>23
  DEF Next, Receiving, Reading, Environment

\* With a backend that keeps its promise, every match from the start of the
\* subscription up to its cursor has been delivered, over failures and new
\* sessions, for every query, batch size and history.
THEOREM NothingIsSkipped == Spec => []NothingSkipped
<1>1. Init => OrderInv BY Zenon DEF Init, OrderInv
<1>2. Init => SkipInv BY SkipInit, Zenon
<1>3. Types /\ [Next]_vars => Types' BY FlagsStep, DataStep, Zenon DEF Types
<1>4. SkipInv => NothingSkipped BY Zenon DEF SkipInv
<1>5. QED BY TypeInit, <1>1, <1>2, <1>3, <1>4, OrderStep, SkipStep, PTL DEF Spec
-----------------------------------------------------------------------------
(* What a hint is good for *)

\* A drain that ends with its batch delivers what the last hint announced,
\* unless another hint is pending.
ServedInv ==
    /\ HintsAreServed
    /\ reader \in {"delivering", "handling"} /\ ~pending /\ ~again =>
          \A e \in Matching : floor < e /\ e <= announced =>
              e \in delivered \/ \E i \in DOMAIN batch : batch[i] = e

\* The last read of a drain sees everything that was visible at the hint.
LEMMA ServedRead == ASSUME Types, SkipInv, ServedInv, Read PROVE ServedInv'
<1> USE SubscriptionAssumption
<1>t. /\ cursor \in {Nil} \cup Nat /\ floor \in Nat /\ stored \in Nat /\ stable \in 0 .. stored
      /\ announced \in 0 .. stable /\ initialized \in BOOLEAN /\ Matching \subseteq Events
  BY DEF Types, Flags, Data, Events
<1>u. UNCHANGED <<cursor, initialized, delivered, pending, announced>> /\ reader = "reading"
  BY Zenon DEF Read, receiverVars
<1>1. CASE reader' = "ended" BY <1>1, Zenon DEF ServedInv, HintsAreServed
<1>2. CASE reader' # "ended"
  <2>1. PICK b \in Batches : /\ Returned(b) /\ batch' = b /\ again' = GoesOn(b)
                             /\ floor' = IF initialized THEN floor ELSE IF b = <<>> THEN 0 ELSE b[1] - 1
    BY <1>2, Zenon DEF Read
  <2>2. b \in Seq(Events) /\ Len(b) \in Nat /\ reader' = "delivering" BY <1>2, BatchIsSeq, Zenon DEF Read
  <2>3. SUFFICES ASSUME ~again', NEW e \in Matching, floor' < e, e <= announced
                 PROVE  e \in delivered \/ \E i \in DOMAIN b : b[i] = e
    BY <2>1, <2>2, <1>u, Zenon DEF ServedInv, HintsAreServed
  <2>4. e \in Nat /\ e <= stable /\ e <= stored BY <2>3, <1>t DEF Events
  <2>5. CASE initialized
    <3>1. floor' = floor /\ IsAscendingRead(b) BY <2>1, <2>5, Zenon DEF Returned
    <3>2. ~(Len(b) >= BatchSize)
      <4>1. ~GoesOn(b) BY <2>1, <2>3, Zenon
      <4>2. b = <<>> \/ Len(b) < BatchSize BY <4>1, <2>2, <2>5 DEF GoesOn
      <4>3. QED BY <4>2, <2>2
    <3>3. CASE cursor <= e BY <3>1, <3>2, <3>3, <2>4, Zenon DEF IsAscendingRead
    <3>4. CASE ~(cursor <= e)
      <4>1. e <= cursor /\ floor < e BY <3>4, <3>1, <2>3, <2>4, <1>t DEF Nil
      <4>2. QED BY <4>1, Zenon DEF SkipInv, NothingSkipped
    <3>5. QED BY <3>3, <3>4, Zenon
  <2>6. CASE ~initialized
    <3>1. b = <<>> BY <2>1, <2>3, <2>6, Zenon DEF GoesOn
    <3>2. IsLatestRead(b) BY <2>1, <2>6, Zenon DEF Returned
    <3>3. QED BY <3>1, <3>2, <2>4 DEF IsLatestRead
  <2>7. QED BY <2>5, <2>6, <1>t, Zenon
<1>3. QED BY <1>1, <1>2, Zenon

\* An event that leaves the batch is delivered, now or before.
LEMMA ServedDeliver == ASSUME Types, SkipInv, ServedInv, Deliver \/ Handle PROVE ServedInv'
<1> USE SubscriptionAssumption
<1>t. batch \in Seq(Events) /\ cursor \in {Nil} \cup Nat /\ Matching \subseteq Events BY Zenon DEF Types, Data, Events
<1>b. batch # <<>> /\ reader \in {"delivering", "handling"} BY Zenon DEF Types, Data, Deliver, Handle
<1>u. UNCHANGED <<floor, pending, again, announced>> BY Zenon DEF Deliver, Handle, receiverVars
<1>r. \A i \in DOMAIN batch : batch[i] = Head(batch) \/ \E j \in DOMAIN Tail(batch) : Tail(batch)[j] = batch[i]
  <2>1. SUFFICES ASSUME NEW i \in DOMAIN batch, i # 1 PROVE \E j \in DOMAIN Tail(batch) : Tail(batch)[j] = batch[i]
    BY <1>b, <1>t, RestOfBatch, Zenon
  <2>2. i - 1 \in DOMAIN Tail(batch) /\ i \in Nat BY <2>1, <1>b, <1>t, RestOfBatch
  <2>3. Tail(batch)[i - 1] = batch[i] BY <2>2, <1>b, <1>t, RestOfBatch
  <2>4. QED BY <2>2, <2>3, Zenon
<1>1. CASE Deliver
  <2>1. UNCHANGED <<cursor, delivered>> /\ reader = "delivering" BY <1>1, Zenon DEF Deliver
  <2>2. CASE Head(batch) = cursor /\ batch' = Tail(batch) /\ UNCHANGED reader
    <3>1. SUFFICES ASSUME ~pending, ~again, NEW e \in Matching, floor < e, e <= announced
                   PROVE  e \in delivered \/ \E j \in DOMAIN batch' : batch'[j] = e
      BY <2>1, <2>2, <1>u, Zenon DEF ServedInv, HintsAreServed
    <3>2. e \in delivered \/ \E i \in DOMAIN batch : batch[i] = e BY <3>1, <2>1, Zenon DEF ServedInv
    <3>3. e = cursor => e \in delivered
      <4>1. e \in Nat BY <1>t DEF Events
      <4>2. QED BY <3>1, <4>1 DEF SkipInv, NothingSkipped
    <3>4. QED BY <3>2, <3>3, <1>r, <2>2, Zenon
  <2>3. CASE UNCHANGED batch /\ reader' \in {"handling", "ended"}
    BY <2>1, <2>3, <1>u, Zenon DEF ServedInv, HintsAreServed
  <2>4. QED BY <1>1, <2>2, <2>3, Zenon DEF Deliver
<1>2. CASE Handle
  <2>1. reader = "handling" BY <1>2, Zenon DEF Handle
  <2>2. CASE reader' = "ended" BY <2>2, Zenon DEF ServedInv, HintsAreServed
  <2>3. CASE delivered' = delivered \cup {Head(batch)} /\ batch' = Tail(batch) /\ reader' = "delivering"
    <3>1. SUFFICES ASSUME ~pending, ~again, NEW e \in Matching, floor < e, e <= announced
                   PROVE  e \in delivered' \/ \E j \in DOMAIN batch' : batch'[j] = e
      BY <2>3, <1>u, Zenon DEF ServedInv, HintsAreServed
    <3>2. e \in delivered \/ \E i \in DOMAIN batch : batch[i] = e BY <3>1, <2>1, Zenon DEF ServedInv
    <3>3. QED BY <3>2, <1>r, <2>3, Zenon
  <2>4. QED BY <1>2, <2>2, <2>3, Zenon DEF Handle
<1>3. QED BY <1>1, <1>2, Zenon

\* No step of the receiver or the reader wastes a hint.
LEMMA ServedStep ==
    Types /\ SkipInv /\ ServedInv /\ [Next]_vars => ServedInv'
<1> SUFFICES ASSUME Types, SkipInv, ServedInv, [Next]_vars PROVE ServedInv'
  BY Zenon
<1>1. CASE Open BY <1>1, Zenon DEF ServedInv, HintsAreServed, Open, Ping, logVars, readerVars
<1>2. CASE ReceiveHint BY <1>2, Zenon DEF ServedInv, HintsAreServed, ReceiveHint, Wake, readerVars
<1>3. CASE NoteActivity BY <1>3, Zenon DEF ServedInv, HintsAreServed, NoteActivity, logVars, natsVars, readerVars
<1>4. CASE TimerFires BY <1>4, Zenon DEF ServedInv, HintsAreServed, TimerFires, Ping, logVars, readerVars
<1>5. CASE NoteRestored BY <1>5, Zenon DEF ServedInv, HintsAreServed, NoteRestored, Ping, logVars, readerVars
<1>6. CASE StopReceiving BY <1>6, Zenon DEF ServedInv, HintsAreServed, StopReceiving, logVars, natsVars, readerVars
<1>7. CASE Take BY <1>7, Zenon DEF ServedInv, HintsAreServed, Take, logVars, natsVars, receiverVars
<1>8. CASE Read BY <1>8, ServedRead, Zenon
<1>9. CASE Deliver BY <1>9, ServedDeliver, Zenon
<1>10. CASE Handle BY <1>10, ServedDeliver, Zenon
<1>11. CASE EndBatch
  <2>1. /\ reader = "delivering" /\ batch = <<>> /\ reader' = (IF again THEN "reading" ELSE "waiting")
        /\ UNCHANGED <<pending, floor, announced, delivered, again, batch>>
    BY <1>11, Zenon DEF EndBatch, receiverVars
  <2>2. DOMAIN batch = {} BY <2>1
  <2>3. CASE again BY <2>1, <2>3, Zenon DEF ServedInv, HintsAreServed
  <2>4. CASE ~again BY <2>1, <2>2, <2>4, Zenon DEF ServedInv, HintsAreServed
  <2>5. QED BY <2>3, <2>4, Zenon
<1>12. CASE StopReading BY <1>12, Zenon DEF ServedInv, HintsAreServed, StopReading, logVars, natsVars, receiverVars
<1>13. CASE Return BY <1>13, Zenon DEF ServedInv, HintsAreServed, Return, logVars, natsVars, receiverVars
<1>14. CASE Save BY <1>14, Zenon DEF ServedInv, HintsAreServed, Save, natsVars, readerVars, receiverVars
<1>15. CASE Settle BY <1>15, Zenon DEF ServedInv, HintsAreServed, Settle, natsVars, readerVars, receiverVars
<1>16. CASE Relay BY <1>16, Zenon DEF ServedInv, HintsAreServed, Relay, logVars, readerVars, receiverVars
<1>17. CASE LoseHint BY <1>17, Zenon DEF ServedInv, HintsAreServed, LoseHint, logVars, readerVars, receiverVars
<1>18. CASE Disconnect BY <1>18, Zenon DEF ServedInv, HintsAreServed, Disconnect, logVars, readerVars, receiverVars
<1>19. CASE Reconnect BY <1>19, Zenon DEF ServedInv, HintsAreServed, Reconnect, logVars, readerVars, receiverVars
<1>20. CASE Deactivate BY <1>20, Zenon DEF ServedInv, HintsAreServed, Deactivate, logVars, natsVars, readerVars, receiverVars
<1>21. CASE Tick BY <1>21, Zenon DEF ServedInv, HintsAreServed, Tick, logVars, natsVars, readerVars
<1>22. CASE Resubscribe
  <2>1. announced' = 0 /\ reader' = "waiting" /\ Matching \subseteq 1 .. MaxEvents
    BY <1>22, SubscriptionAssumption, Zenon DEF Resubscribe
  <2>2. \A e \in Matching : ~(e <= announced') BY <2>1, SubscriptionAssumption
  <2>3. QED BY <2>1, <2>2, Zenon DEF ServedInv, HintsAreServed
<1>23. CASE UNCHANGED vars BY <1>23, Zenon DEF ServedInv, HintsAreServed, vars, logVars, natsVars, readerVars, receiverVars
<1>24. QED
  BY Zenon, <1>1, <1>2, <1>3, <1>4, <1>5, <1>6, <1>7, <1>8, <1>9, <1>10, <1>11, <1>12,
     <1>13, <1>14, <1>15, <1>16, <1>17, <1>18, <1>19, <1>20, <1>21, <1>22, <1>23
  DEF Next, Receiving, Reading, Environment

\* With a backend that keeps its promise, a reader that waits with nothing
\* pending has delivered every match that was visible when the last hint
\* came, however the hint met the drain.
THEOREM NoHintIsWasted == Spec => []HintsAreServed
<1>1. Init => OrderInv BY Zenon DEF Init, OrderInv
<1>2. Init => SkipInv BY SkipInit, Zenon
<1>3. Init => ServedInv
  <2>1. SUFFICES ASSUME Init PROVE ServedInv
    BY Zenon
  <2>2. \A e \in Matching : ~(e <= announced) BY <2>1, SubscriptionAssumption DEF Init
  <2>3. QED BY <2>1, <2>2, Zenon DEF Init, ServedInv, HintsAreServed
<1>4. Types /\ [Next]_vars => Types' BY FlagsStep, DataStep, Zenon DEF Types
<1>5. ServedInv => HintsAreServed BY Zenon DEF ServedInv
<1>6. QED BY TypeInit, <1>1, <1>2, <1>3, <1>4, <1>5, OrderStep, SkipStep, ServedStep, PTL DEF Spec
=============================================================================
