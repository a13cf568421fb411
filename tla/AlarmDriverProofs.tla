-------------------------- MODULE AlarmDriverProofs ---------------------------
(***************************************************************************)
(* Theorems about AlarmDriver, for any number of channels and any width of *)
(* the compare registers.                                                  *)
(***************************************************************************)
EXTENDS AlarmDriver, TLAPS

\* Who may be calling set_alarm, and what is known of the alarm at each step.
CallInv ==
  /\ call["thread"].at # "idle" => handler = "off"
  /\ call["isr"].at # "idle" =>
       handler \in {"again", "callback"} /\ call["isr"].alarm = serving
  /\ handler = "again" => call["isr"].at # "idle" /\ call["isr"].timestamp = due
  /\ handler = "callback" => serving \in callback
  /\ \A c \in Contexts :
       /\ call[c].at \in {"write", "recheck"} => slot[call[c].alarm] = call[c].timestamp
       /\ call[c].at = "recheck" =>
            compare[call[c].alarm] = call[c].timestamp % Wrap
       /\ call[c].at \in {"clear", "zero"} => call[c].timestamp <= time

\* A client's call for alarm a is in progress; that of alarm_interrupt for the
\* rest of an alarm's time is not a client's.
Setting(a) ==
  \E c \in Contexts :
    call[c].at # "idle" /\ call[c].alarm = a /\ (c = "thread" \/ handler = "callback")

\* The handler has acknowledged the match of alarm a, and not looked at the
\* time since.
Serving(a) == handler \in {"load", "test", "again"} /\ serving = a

\* What becomes of a promise while it lasts.
Kept(a) ==
  /\ a \in callback
  /\ ~ Setting(a)
  /\ compare[a] = promised[a] % Wrap
  /\ slot[a] = promised[a] \/ (handler = "test" /\ serving = a /\ due <= time)
  /\ handler \in {"test", "again"} /\ serving = a => due = promised[a]
  /\ promised[a] <= time => a \in match \/ Serving(a)

PromiseInv == \A a \in Alarms : promised[a] # NoAlarm => Kept(a)

\* A client's alarm has its callback.
ClientInv == \A a \in Alarms : Setting(a) => a \in callback

IInv == TypeOK /\ CallInv /\ ClientInv /\ PromiseInv

Steps == {"idle", "check", "store", "write", "recheck", "clear", "zero"}
Calls1 == [at : Steps, alarm : Alarms, timestamp : Times]

-----------------------------------------------------------------------------
(* Types.                                                                  *)

\* The two contexts, without looking at the set that holds them.
LEMMA TwoContexts ==
  /\ "thread" \in Contexts /\ "isr" \in Contexts
  /\ \A c \in Contexts : c = "thread" \/ c = "isr"
BY DEF Contexts

\* What a compare register is set to fits in it.
LEMMA Residue == \A n \in Nat : n % Wrap \in 0 .. Wrap - 1
BY AlarmAssumption

\* The calls, as TypeOK has them.
LEMMA CallTypes ==
  ASSUME TypeOK
  PROVE  /\ call \in [Contexts -> Calls1]
         /\ \A c \in Contexts :
              call[c].at \in Steps /\ call[c].alarm \in Alarms /\ call[c].timestamp \in Times
BY DEF TypeOK, Calls1, Steps

\* A call goes on to its next step and keeps its arguments.
LEMMA GotoIs ==
  ASSUME TypeOK, NEW c \in Contexts, NEW step \in Steps, Goto(c, step)
  PROVE  /\ call' \in [Contexts -> Calls1]
         /\ call'[c].at = step /\ call'[c].alarm = call[c].alarm
         /\ call'[c].timestamp = call[c].timestamp
         /\ \A d \in Contexts \ {c} : call'[d] = call[d]
<1>1. call' = [call EXCEPT ![c] = [call[c] EXCEPT !.at = step]]
  BY DEF Goto
<1>2. call \in [Contexts -> Calls1] /\ call[c] \in Calls1
  BY CallTypes
<1>3. /\ [call[c] EXCEPT !.at = step] \in Calls1
      /\ [call[c] EXCEPT !.at = step].at = step
      /\ [call[c] EXCEPT !.at = step].alarm = call[c].alarm
      /\ [call[c] EXCEPT !.at = step].timestamp = call[c].timestamp
  BY <1>2 DEF Calls1
<1> QED
  BY <1>1, <1>2, <1>3

\* A call begins.
LEMMA BeginIs ==
  ASSUME TypeOK, NEW c \in Contexts, NEW a \in Alarms, NEW t \in Times,
         call' = [call EXCEPT ![c] = [at |-> "check", alarm |-> a, timestamp |-> t]]
  PROVE  /\ call' \in [Contexts -> Calls1]
         /\ call'[c].at = "check" /\ call'[c].alarm = a /\ call'[c].timestamp = t
         /\ \A d \in Contexts \ {c} : call'[d] = call[d]
<1>1. [at |-> "check", alarm |-> a, timestamp |-> t] \in Calls1
  BY DEF Calls1, Steps
<1> QED
  BY <1>1, CallTypes

\* A call ends: what becomes of the promise and of the handler.
LEMMA AnswerIs ==
  ASSUME TypeOK, NEW c \in Contexts, NEW ok \in BOOLEAN, Answer(c, ok)
  PROVE  /\ call' \in [Contexts -> Calls1] /\ call'[c].at = "idle"
         /\ \A d \in Contexts \ {c} : call'[d] = call[d]
         /\ UNCHANGED <<todo, serving, due>>
         /\ handler' \in {handler, "next", "test"}
         /\ promised' \in [Alarms -> Times \cup {NoAlarm}]
<1>1. NoCall \in Calls1 /\ NoCall.at = "idle"
  BY AlarmAssumption DEF NoCall, Calls1, Steps, Alarms, Times
<1>2. call' \in [Contexts -> Calls1] /\ call'[c] = NoCall
      /\ \A d \in Contexts \ {c} : call'[d] = call[d]
  BY <1>1, CallTypes DEF Answer
<1>3. promised' \in [Alarms -> Times \cup {NoAlarm}]
  BY CallTypes DEF Answer, TypeOK
<1>4. handler' \in {handler, "next", "test"} /\ UNCHANGED <<todo, serving, due>>
  BY DEF Answer
<1> QED
  BY <1>1, <1>2, <1>3, <1>4

\* The driver starts with free slots and with whatever the channels hold.
LEMMA InitTypes == Init => TypeOK
<1> SUFFICES ASSUME Init PROVE TypeOK
  OBVIOUS
<1>1. 1 \in Alarms /\ 0 \in Times
  BY AlarmAssumption DEF Alarms, Times
<1>2. NoCall \in Calls1
  BY <1>1 DEF NoCall, Calls1, Steps
<1> QED
  BY <1>1, <1>2 DEF Init, TypeOK, Calls1, Steps

\* Every step of a call keeps the types.
LEMMA CallStepTypes ==
  ASSUME TypeOK, NEW c \in Contexts,
         \/ CheckPast(c) \/ Store(c) \/ WriteCompare(c)
         \/ Recheck(c) \/ ClearMatch(c) \/ ZeroTimestamp(c)
  PROVE  TypeOK'
<1>0. call[c].alarm \in Alarms /\ call[c].timestamp \in Times /\ Times \subseteq Nat
  BY CallTypes DEF Times
<1>01. Steps = {"idle", "check", "store", "write", "recheck", "clear", "zero"}
  BY DEF Steps
<1> DEFINE Others == /\ time' \in Times /\ compare' \in [Alarms -> 0 .. Wrap - 1]
                     /\ match' \subseteq Alarms /\ slot' \in [Alarms -> Times \cup {Free}]
                     /\ callback' \subseteq Alarms
<1>1. ASSUME Others, NEW ok \in BOOLEAN, Answer(c, ok) PROVE TypeOK'
  BY <1>1, AnswerIs DEF TypeOK, Calls1, Steps
<1>2. ASSUME Others, NEW step \in Steps, Goto(c, step), UNCHANGED <<isr, promised>>
      PROVE  TypeOK'
  BY <1>2, GotoIs DEF TypeOK, Calls1, Steps, isr
<1>3. CASE CheckPast(c)
  <2>1. Others
    BY <1>3 DEF CheckPast, hardware, TypeOK
  <2> QED
    BY <1>3, <1>1, <1>2, <1>01, <2>1 DEF CheckPast
<1>4. CASE Store(c)
  <2>1. Others
    BY <1>0, <1>4 DEF Store, hardware, TypeOK
  <2> QED
    BY <1>4, <1>2, <1>01, <2>1 DEF Store
<1>5. CASE WriteCompare(c)
  <2>1. compare' \in [Alarms -> 0 .. Wrap - 1]
    <3>1. call[c].timestamp % Wrap \in 0 .. Wrap - 1
      BY <1>0, Residue
    <3>2. compare' = [compare EXCEPT ![call[c].alarm] = call[c].timestamp % Wrap]
      BY <1>5 DEF WriteCompare
    <3> QED
      BY <3>1, <3>2 DEF TypeOK
  <2>2. match' \subseteq Alarms
    <3>1. match' = match \/ match' = match \cup {call[c].alarm}
      BY <1>5 DEF WriteCompare
    <3> QED
      BY <1>0, <3>1 DEF TypeOK
  <2>3. Others
    BY <1>5, <2>1, <2>2 DEF WriteCompare, TypeOK
  <2> QED
    BY <1>5, <1>2, <1>01, <2>3 DEF WriteCompare
<1>6. CASE Recheck(c)
  <2>1. Others
    BY <1>6 DEF Recheck, hardware, TypeOK
  <2> QED
    BY <1>6, <1>1, <1>2, <1>01, <2>1 DEF Recheck
<1>7. CASE ClearMatch(c)
  <2>1. Others
    BY <1>7 DEF ClearMatch, TypeOK
  <2> QED
    BY <1>7, <1>2, <1>01, <2>1 DEF ClearMatch
<1>8. CASE ZeroTimestamp(c)
  <2>1. 0 \in Times
    BY AlarmAssumption DEF Times
  <2>2. Others
    BY <1>0, <1>8, <2>1 DEF ZeroTimestamp, hardware, TypeOK
  <2> QED
    BY <1>8, <1>1, <2>2 DEF ZeroTimestamp
<1> QED
  BY <1>3, <1>4, <1>5, <1>6, <1>7, <1>8

\* So does every step of the specification.
LEMMA StepTypes == TypeOK /\ [Next]_vars => TypeOK'
<1> SUFFICES ASSUME TypeOK, [Next]_vars PROVE TypeOK'
  OBVIOUS
<1>0. 0 \in Times
  BY AlarmAssumption DEF Times
<1>1. CASE Tick
  BY <1>1, AlarmAssumption DEF Tick, isr, TypeOK, Times
<1>2. ASSUME NEW a \in Alarms, Allocate(a) PROVE TypeOK'
  BY <1>0, <1>2 DEF Allocate, hardware, isr, TypeOK
<1>3. ASSUME NEW a \in Alarms, SetCallback(a) PROVE TypeOK'
  BY <1>0, <1>3 DEF SetCallback, hardware, isr, TypeOK
<1>4. ASSUME NEW a \in Alarms, NEW t \in Times, SetAlarm(a, t) PROVE TypeOK'
  <2>1. call' \in [Contexts -> Calls1]
    BY <1>4, TwoContexts, BeginIs DEF SetAlarm, Begin
  <2> QED
    BY <1>4, <2>1 DEF SetAlarm, Begin, hardware, isr, TypeOK, Calls1, Steps
<1>5. CASE CallStep
  BY <1>5, CallStepTypes DEF CallStep
<1>6. CASE EnterHandler
  BY <1>6 DEF EnterHandler, hardware, TypeOK
<1>7. CASE LeaveHandler
  BY <1>7 DEF LeaveHandler, hardware, TypeOK
<1>8. ASSUME NEW a \in Alarms, Acknowledge(a) PROVE TypeOK'
  BY <1>8 DEF Acknowledge, TypeOK
<1>9. CASE LoadSlot
  BY <1>9 DEF LoadSlot, hardware, TypeOK
<1>10. CASE Test
  <2>1. CASE due <= time
    BY <1>0, <1>10, <2>1 DEF Test, hardware, TypeOK
  <2>2. CASE ~ (due <= time)
    <3>1. serving \in Alarms /\ due \in Times
      BY DEF TypeOK
    <3>2. call' \in [Contexts -> Calls1]
      BY <1>10, <2>2, <3>1, TwoContexts, BeginIs DEF Test, BeginAgain
    <3> QED
      BY <1>10, <2>2, <3>2 DEF Test, BeginAgain, hardware, TypeOK, Calls1, Steps
  <2> QED
    BY <2>1, <2>2
<1>11. CASE CallbackReturns
  BY <1>11 DEF CallbackReturns, hardware, TypeOK
<1>12. ASSUME NEW t \in Times, CallbackSetsAlarm(t) PROVE TypeOK'
  <2>1. serving \in Alarms
    BY DEF TypeOK
  <2>2. call' \in [Contexts -> Calls1]
    BY <1>12, <2>1, TwoContexts, BeginIs DEF CallbackSetsAlarm, Begin
  <2> QED
    BY <1>12, <2>2 DEF CallbackSetsAlarm, Begin, hardware, isr, TypeOK, Calls1, Steps
<1>13. CASE UNCHANGED vars
  BY <1>13 DEF vars, hardware, isr, TypeOK
<1> QED
  BY <1>1, <1>2, <1>3, <1>4, <1>5, <1>6, <1>7, <1>8, <1>9, <1>10, <1>11, <1>12,
     <1>13 DEF Next, HandlerStep

\* The state of the driver is what the program declares, in every state.
THEOREM TypeCorrect == Spec => []TypeOK
BY InitTypes, StepTypes, PTL DEF Spec

-----------------------------------------------------------------------------
(* Promises.                                                               *)

\* At most one call is in progress, and a client's call has no promise.
LEMMA OneCaller ==
  ASSUME IInv, NEW c \in Contexts, call[c].at # "idle"
  PROVE  /\ call[c].alarm \in Alarms /\ call[c].timestamp \in Times
         /\ \A d \in Contexts \ {c} : call[d].at = "idle"
         /\ \/ /\ c = "thread" /\ handler = "off"
            \/ /\ c = "isr" /\ handler = "callback" /\ call[c].alarm = serving
            \/ /\ c = "isr" /\ handler = "again" /\ call[c].alarm = serving
               /\ call[c].timestamp = due
         /\ handler # "again" =>
              /\ Setting(call[c].alarm)
              /\ promised[call[c].alarm] = NoAlarm
              /\ call[c].alarm \in callback
<1>1. call[c].alarm \in Alarms /\ call[c].timestamp \in Times
  BY CallTypes DEF IInv
<1>2. \/ /\ c = "thread" /\ handler = "off" /\ call["isr"].at = "idle"
      \/ /\ c = "isr" /\ handler = "callback" /\ call[c].alarm = serving
         /\ call["thread"].at = "idle"
      \/ /\ c = "isr" /\ handler = "again" /\ call[c].alarm = serving
         /\ call[c].timestamp = due /\ call["thread"].at = "idle"
  BY TwoContexts DEF IInv, CallInv
<1>3. \A d \in Contexts \ {c} : call[d].at = "idle"
  BY <1>2, TwoContexts
<1>4. handler # "again" => Setting(call[c].alarm)
  BY <1>2 DEF Setting
<1>5. Setting(call[c].alarm) => promised[call[c].alarm] = NoAlarm /\ call[c].alarm \in callback
  BY <1>1 DEF IInv, PromiseInv, Kept, ClientInv
<1> QED
  BY <1>1, <1>2, <1>3, <1>4, <1>5

LEMMA InvInit == Init => CallInv /\ ClientInv /\ PromiseInv
<1> SUFFICES ASSUME Init PROVE CallInv /\ ClientInv /\ PromiseInv
  OBVIOUS
<1>1. \A c \in Contexts : call[c].at = "idle"
  BY DEF Init, NoCall
<1>2. call["thread"].at = "idle" /\ call["isr"].at = "idle"
  BY <1>1, TwoContexts
<1>3. handler = "off" /\ \A a \in Alarms : promised[a] = NoAlarm
  BY DEF Init
<1> QED
  BY <1>1, <1>2, <1>3 DEF CallInv, ClientInv, PromiseInv, Setting

\* The counter goes on: a promise that comes due has just matched.
LEMMA TickKeeps ==
  ASSUME IInv, Tick PROVE CallInv' /\ ClientInv' /\ PromiseInv'
<1>1. time \in Nat /\ time' = time + 1
  BY DEF IInv, TypeOK, Tick, Times
<1>2. UNCHANGED <<compare, slot, callback, call, handler, serving, due, promised>>
  BY DEF Tick, isr
<1>3. CallInv'
  <2>1. \A c \in Contexts : call[c].timestamp <= time => call[c].timestamp <= time'
    BY <1>1, CallTypes DEF IInv, Times
  <2> QED
    BY <1>2, <2>1 DEF IInv, CallInv
<1>4. ClientInv'
  BY <1>2 DEF IInv, ClientInv, Setting
<1>5. ASSUME NEW a \in Alarms, promised'[a] # NoAlarm PROVE Kept(a)'
  <2>1. Kept(a) /\ promised[a] \in Nat /\ due \in Nat
    BY <1>2, <1>5 DEF IInv, PromiseInv, TypeOK, Times, NoAlarm
  <2>2. promised[a] <= time' => a \in match' \/ Serving(a)
    <3>1. CASE promised[a] <= time
      BY <2>1, <3>1 DEF Kept, Tick
    <3>2. CASE promised[a] = time'
      BY <2>1, <3>2, <1>5 DEF Kept, Tick
    <3> QED
      BY <1>1, <2>1, <3>1, <3>2
  <2>3. due <= time => due <= time'
    BY <1>1, <2>1
  <2> QED
    BY <1>2, <2>1, <2>2, <2>3 DEF Kept, Setting, Serving
<1> QED
  BY <1>3, <1>4, <1>5 DEF PromiseInv

\* The client allocates its alarm and sets its callback before any promise.
LEMMA AllocateKeeps ==
  ASSUME IInv, NEW a \in Alarms, Allocate(a) \/ SetCallback(a)
  PROVE  CallInv' /\ ClientInv' /\ PromiseInv'
<1>1. /\ handler = "off" /\ call["thread"].at = "idle"
      /\ UNCHANGED <<time, compare, match, call, handler, serving, due, promised>>
      /\ callback \subseteq callback'
      /\ slot' = [slot EXCEPT ![a] = 0]
      /\ slot[a] = Free \/ a \notin callback
  BY DEF Allocate, SetCallback, Idle, hardware, isr
<1>2. \A c \in Contexts : call[c].at = "idle"
  BY <1>1, TwoContexts DEF IInv, CallInv
<1>3. CallInv' /\ ClientInv'
  BY <1>1, <1>2, TwoContexts DEF CallInv, ClientInv, Setting
<1>4. ASSUME NEW b \in Alarms, promised'[b] # NoAlarm PROVE Kept(b)'
  <2>1. Kept(b) /\ promised[b] \in Nat
    BY <1>1, <1>4 DEF IInv, PromiseInv, TypeOK, Times, NoAlarm
  <2>2. b # a
    BY <1>1, <2>1 DEF Kept, Free
  <2>3. slot'[b] = slot[b]
    BY <1>1, <2>2 DEF IInv, TypeOK
  <2> QED
    BY <1>1, <2>1, <2>3 DEF Kept, Setting, Serving
<1> QED
  BY <1>3, <1>4 DEF PromiseInv

\* A client's call begins: what was promised before is given up.
LEMMA BeginKeeps ==
  ASSUME IInv, NEW c \in Contexts, NEW a \in Alarms, NEW t \in Times, Begin(c, a, t),
         UNCHANGED <<hardware, slot, callback, isr>>,
         \A d \in Contexts : call[d].at = "idle",
         a \in callback,
         \/ c = "thread" /\ handler = "off"
         \/ c = "isr" /\ handler = "callback" /\ a = serving
  PROVE  CallInv' /\ ClientInv' /\ PromiseInv'
<1>1. /\ call'[c].at = "check" /\ call'[c].alarm = a /\ call'[c].timestamp = t
      /\ \A d \in Contexts \ {c} : call'[d] = call[d]
  BY BeginIs DEF Begin, IInv
<1>2. UNCHANGED <<time, compare, match, slot, callback, handler, serving, due>>
  BY DEF hardware, isr
<1>3. promised' = [promised EXCEPT ![a] = NoAlarm]
  BY DEF Begin
<1>4. CallInv'
  <2>1. \A d \in Contexts : call'[d].at \in {"idle", "check"}
    BY <1>1
  <2> QED
    BY <1>1, <1>2, <2>1, TwoContexts DEF IInv, CallInv
<1>5. \A b \in Alarms : Setting(b)' => b = a
  BY <1>1, <1>2 DEF Setting
<1>6. ClientInv'
  BY <1>2, <1>5 DEF ClientInv
<1>7. ASSUME NEW b \in Alarms, promised'[b] # NoAlarm PROVE Kept(b)'
  <2>1. b # a /\ promised'[b] = promised[b]
    BY <1>3, <1>7 DEF IInv, TypeOK
  <2>2. Kept(b)
    BY <1>7, <2>1 DEF IInv, PromiseInv
  <2> QED
    BY <1>2, <1>5, <2>1, <2>2 DEF Kept, Serving
<1> QED
  BY <1>4, <1>6, <1>7 DEF PromiseInv

\* set_alarm answers false: the client has no promise, and the rest of an
\* alarm's time is looked at again.
LEMMA RefusalKeeps ==
  ASSUME IInv, NEW c \in Contexts, call[c].at # "idle", Answer(c, FALSE),
         call[c].timestamp <= time,
         UNCHANGED <<hardware, callback>>,
         \/ slot' = slot
         \/ slot' = [slot EXCEPT ![call[c].alarm] = 0]
  PROVE  CallInv' /\ ClientInv' /\ PromiseInv'
<1> DEFINE a == call[c].alarm
<1>1. call'[c].at = "idle" /\ \A d \in Contexts \ {c} : call'[d] = call[d]
  BY AnswerIs DEF IInv
<1>2. \A d \in Contexts : call'[d].at = "idle"
  BY <1>1, OneCaller
<1>3. UNCHANGED <<time, compare, match, callback, serving, due>>
  BY DEF Answer, hardware
<1>4. /\ \/ handler' = handler /\ handler # "again"
         \/ handler = "again" /\ handler' = "test" /\ a = serving /\ due <= time
      /\ promised' = promised
  BY OneCaller DEF Answer
<1>5. CallInv' /\ ClientInv'
  BY <1>2, <1>3, <1>4, TwoContexts DEF IInv, CallInv, ClientInv, Setting
<1>6. ASSUME NEW b \in Alarms, promised'[b] # NoAlarm PROVE Kept(b)'
  <2>1. Kept(b)
    BY <1>4, <1>6 DEF IInv, PromiseInv
  <2>2. slot'[b] = slot[b] \/ (b = a /\ handler = "again")
    BY <1>4, <1>6, OneCaller DEF IInv, TypeOK
  <2>3. ~ Setting(b)'
    BY <1>2 DEF Setting
  <2>4. slot'[b] = promised[b] \/ (handler' = "test" /\ serving = b /\ due <= time)
    BY <1>4, <2>1, <2>2 DEF Kept
  <2>5. handler' \in {"test", "again"} /\ serving = b => due = promised[b]
    BY <1>4, <2>1 DEF Kept
  <2>6. Serving(b) => Serving(b)'
    BY <1>3, <1>4 DEF Serving
  <2> QED
    BY <1>3, <1>4, <2>1, <2>3, <2>4, <2>5, <2>6 DEF Kept
<1> QED
  BY <1>5, <1>6 DEF PromiseInv

\* set_alarm answers true: the compare register has the timestamp, and its
\* time had not come when the counter was read again.
LEMMA PromiseKeeps ==
  ASSUME IInv, NEW c \in Contexts, call[c].at = "recheck", Answer(c, TRUE),
         ~ (call[c].timestamp <= time),
         UNCHANGED <<hardware, slot, callback>>
  PROVE  CallInv' /\ ClientInv' /\ PromiseInv'
<1> DEFINE a == call[c].alarm
<1>1. call'[c].at = "idle" /\ \A d \in Contexts \ {c} : call'[d] = call[d]
  BY AnswerIs DEF IInv
<1>2. \A d \in Contexts : call'[d].at = "idle"
  BY <1>1, OneCaller
<1>3. UNCHANGED <<time, compare, match, slot, callback, serving, due>>
  BY DEF Answer, hardware
<1>4. /\ a \in Alarms /\ call[c].timestamp \in Times
      /\ slot[a] = call[c].timestamp
      /\ compare[a] = call[c].timestamp % Wrap
  BY OneCaller DEF IInv, CallInv
<1>5. \/ /\ handler = "again" /\ handler' = "next" /\ promised' = promised
         /\ a = serving /\ call[c].timestamp = due
      \/ /\ handler \in {"off", "callback"} /\ handler' = handler
         /\ promised' = [promised EXCEPT ![a] = call[c].timestamp]
         /\ a \in callback
  BY OneCaller DEF Answer
<1>6. CallInv' /\ ClientInv'
  BY <1>2, <1>3, <1>5, TwoContexts DEF IInv, CallInv, ClientInv, Setting
<1>7. ASSUME NEW b \in Alarms, promised'[b] # NoAlarm PROVE Kept(b)'
  <2>1. ~ Setting(b)'
    BY <1>2 DEF Setting
  <2>2. CASE handler = "again"
    <3>1. Kept(b) /\ promised' = promised /\ handler' = "next"
      BY <1>5, <1>7, <2>2 DEF IInv, PromiseInv
    <3>2. promised[b] <= time => b \in match
      BY <1>4, <1>5, <2>2, <3>1 DEF Kept, Serving
    <3> QED
      BY <1>3, <2>1, <2>2, <3>1, <3>2 DEF Kept
  <2>3. CASE handler # "again" /\ b = a
    <3>1. promised'[b] = call[c].timestamp /\ handler' \in {"off", "callback"}
      BY <1>4, <1>5, <2>3 DEF IInv, TypeOK
    <3> QED
      BY <1>3, <1>4, <1>5, <2>1, <2>3, <3>1 DEF Kept
  <2>4. CASE handler # "again" /\ b # a
    <3>1. promised'[b] = promised[b] /\ handler' = handler
      BY <1>5, <2>4 DEF IInv, TypeOK
    <3>2. Kept(b)
      BY <1>7, <3>1 DEF IInv, PromiseInv
    <3> QED
      BY <1>3, <2>1, <3>1, <3>2 DEF Kept, Serving
  <2> QED
    BY <2>2, <2>3, <2>4
<1> QED
  BY <1>6, <1>7 DEF PromiseInv

\* A call goes on: the registers of a promised alarm are written by the call of
\* alarm_interrupt only, with what they are to hold.
LEMMA GotoKeeps ==
  ASSUME IInv, NEW c \in Contexts, NEW step \in {"store", "write", "recheck", "clear", "zero"},
         call[c].at # "idle", Goto(c, step), UNCHANGED <<isr, promised, time, callback>>,
         slot' = slot \/ slot' = [slot EXCEPT ![call[c].alarm] = call[c].timestamp],
         compare' = compare
           \/ compare' = [compare EXCEPT ![call[c].alarm] = call[c].timestamp % Wrap],
         match \ {call[c].alarm} \subseteq match',
         step \in {"write", "recheck"} => slot'[call[c].alarm] = call[c].timestamp,
         step = "recheck" => compare'[call[c].alarm] = call[c].timestamp % Wrap,
         step \in {"clear", "zero"} => call[c].timestamp <= time
  PROVE  CallInv' /\ ClientInv' /\ PromiseInv'
<1> DEFINE a == call[c].alarm
<1>1. /\ call'[c].at = step /\ call'[c].alarm = a
      /\ call'[c].timestamp = call[c].timestamp
      /\ \A d \in Contexts \ {c} : call'[d] = call[d]
  <2>1. step \in Steps
    BY DEF Steps
  <2> QED
    BY <2>1, GotoIs DEF IInv
<1>2. \A d \in Contexts \ {c} : call'[d].at = "idle" /\ call[d].at = "idle"
  BY <1>1, OneCaller
<1>3. UNCHANGED <<handler, serving, due, promised, time, callback>>
  BY DEF isr
<1>4. CallInv'
  <2>1. \A d \in Contexts \ {c} : call'[d].at \notin {"write", "recheck", "clear", "zero"}
    BY <1>2
  <2> QED
    BY <1>1, <1>2, <1>3, <2>1, TwoContexts DEF IInv, CallInv
<1>5. \A b \in Alarms : Setting(b)' => Setting(b)
  BY <1>1, <1>2, <1>3 DEF Setting
<1>6. ClientInv'
  BY <1>3, <1>5 DEF IInv, ClientInv
<1>7. ASSUME NEW b \in Alarms, promised'[b] # NoAlarm PROVE Kept(b)'
  <2>1. Kept(b)
    BY <1>3, <1>7 DEF IInv, PromiseInv
  <2>2. CASE b # a
    <3>1. slot'[b] = slot[b] /\ compare'[b] = compare[b] /\ (b \in match => b \in match')
      BY <2>2 DEF IInv, TypeOK
    <3> QED
      BY <1>3, <1>5, <2>1, <3>1 DEF Kept, Serving
  <2>3. CASE b = a
    <3>1. handler = "again" /\ a = serving /\ call[c].timestamp = due
      BY <1>3, <1>7, <2>3, OneCaller
    <3>2. due = promised[b]
      BY <2>1, <2>3, <3>1 DEF Kept
    <3>3. slot'[b] = promised[b]
      BY <2>1, <2>3, <3>1, <3>2 DEF Kept, IInv, TypeOK
    <3>4. compare'[b] = promised[b] % Wrap
      BY <2>1, <2>3, <3>1, <3>2 DEF Kept, IInv, TypeOK
    <3>5. Serving(b)'
      BY <1>3, <2>3, <3>1 DEF Serving
    <3> QED
      BY <1>3, <1>5, <2>1, <2>3, <3>1, <3>2, <3>3, <3>4, <3>5 DEF Kept
  <2> QED
    BY <2>2, <2>3
<1> QED
  BY <1>4, <1>6, <1>7 DEF PromiseInv

\* Every step of a call keeps the promises.
LEMMA CallStepKeeps ==
  ASSUME IInv, NEW c \in Contexts,
         \/ CheckPast(c) \/ Store(c) \/ WriteCompare(c)
         \/ Recheck(c) \/ ClearMatch(c) \/ ZeroTimestamp(c)
  PROVE  CallInv' /\ ClientInv' /\ PromiseInv'
<1> DEFINE a == call[c].alarm
           steps == {"store", "write", "recheck", "clear", "zero"}
<1>0. /\ a \in Alarms
      /\ slot \in [Alarms -> Times \cup {Free}] /\ compare \in [Alarms -> 0 .. Wrap - 1]
      /\ call[c].timestamp \in Times
  BY CallTypes DEF IInv, TypeOK
<1>1. CASE CheckPast(c)
  <2>1. call[c].at # "idle"
    BY <1>1 DEF CheckPast, At
  <2>2. CASE call[c].timestamp <= time
    <3>1. Answer(c, FALSE) /\ UNCHANGED <<hardware, callback>> /\ slot' = slot
      BY <1>1, <2>2 DEF CheckPast
    <3> QED
      BY <2>1, <2>2, <3>1, RefusalKeeps
  <2>3. CASE ~ (call[c].timestamp <= time)
    <3>1. Goto(c, "store") /\ UNCHANGED <<isr, promised>>
          /\ UNCHANGED <<time, match, compare, slot, callback>>
      BY <1>1, <2>3 DEF CheckPast, hardware
    <3> QED
      BY <2>1, <3>1, GotoKeeps
  <2> QED
    BY <2>2, <2>3
<1>2. CASE Store(c)
  <2>1. call[c].at # "idle" /\ Goto(c, "write") /\ UNCHANGED <<isr, promised>>
        /\ UNCHANGED <<time, match, compare, callback>>
        /\ slot' = [slot EXCEPT ![call[c].alarm] = call[c].timestamp]
    BY <1>2 DEF Store, At, hardware
  <2>2. slot'[call[c].alarm] = call[c].timestamp
    BY <1>0, <2>1
  <2> QED
    BY <2>1, <2>2, GotoKeeps
<1>3. CASE WriteCompare(c)
  <2>1. call[c].at = "write" /\ Goto(c, "recheck") /\ UNCHANGED <<isr, promised>>
        /\ UNCHANGED <<time, slot, callback>>
        /\ compare' = [compare EXCEPT ![call[c].alarm] = call[c].timestamp % Wrap]
    BY <1>3 DEF WriteCompare, At
  <2>2. match \ {call[c].alarm} \subseteq match'
    BY <1>3 DEF WriteCompare
  <2>3. slot'[call[c].alarm] = call[c].timestamp
    BY <2>1 DEF IInv, CallInv
  <2>4. compare'[call[c].alarm] = call[c].timestamp % Wrap
    BY <1>0, <2>1
  <2> QED
    BY <2>1, <2>2, <2>3, <2>4, GotoKeeps
<1>4. CASE Recheck(c)
  <2>1. call[c].at = "recheck"
    BY <1>4 DEF Recheck, At
  <2>2. CASE call[c].timestamp <= time
    <3>1. Goto(c, "clear") /\ UNCHANGED <<isr, promised>>
          /\ UNCHANGED <<time, match, compare, slot, callback>>
      BY <1>4, <2>2 DEF Recheck, hardware
    <3> QED
      BY <2>1, <2>2, <3>1, GotoKeeps
  <2>3. CASE ~ (call[c].timestamp <= time)
    <3>1. Answer(c, TRUE) /\ UNCHANGED <<hardware, slot, callback>>
      BY <1>4, <2>3 DEF Recheck
    <3> QED
      BY <2>1, <2>3, <3>1, PromiseKeeps
  <2> QED
    BY <2>2, <2>3
<1>5. CASE ClearMatch(c)
  <2>1. call[c].at = "clear" /\ Goto(c, "zero") /\ UNCHANGED <<isr, promised>>
        /\ UNCHANGED <<time, compare, slot, callback>>
        /\ match' = match \ {call[c].alarm}
    BY <1>5 DEF ClearMatch, At
  <2>2. call[c].timestamp <= time
    BY <2>1 DEF IInv, CallInv
  <2> QED
    BY <2>1, <2>2, GotoKeeps
<1>6. CASE ZeroTimestamp(c)
  <2>1. call[c].at = "zero" /\ Answer(c, FALSE) /\ UNCHANGED <<hardware, callback>>
        /\ slot' = [slot EXCEPT ![call[c].alarm] = 0]
    BY <1>6 DEF ZeroTimestamp, At
  <2>2. call[c].timestamp <= time
    BY <2>1 DEF IInv, CallInv
  <2> QED
    BY <2>1, <2>2, RefusalKeeps
<1> QED
  BY <1>1, <1>2, <1>3, <1>4, <1>5, <1>6

\* While the handler is not in a call, no call is in progress.
LEMMA NoCaller ==
  ASSUME IInv, handler \notin {"off", "again", "callback"}
  PROVE  /\ \A c \in Contexts : call[c].at = "idle"
         /\ \A a \in Alarms : ~ Setting(a)
BY TwoContexts DEF IInv, CallInv, Setting

\* The handler is entered and left: nothing is being served.
LEMMA BoundaryKeeps ==
  ASSUME IInv, EnterHandler \/ LeaveHandler \/ CallbackReturns
  PROVE  CallInv' /\ ClientInv' /\ PromiseInv'
<1>1. /\ UNCHANGED <<time, compare, match, slot, callback, call, serving, due, promised>>
      /\ handler \in {"off", "next", "callback"} /\ handler' \in {"off", "next"}
      /\ handler = "off" => call["thread"].at = "idle"
      /\ handler = "callback" => call["isr"].at = "idle"
  BY DEF EnterHandler, LeaveHandler, CallbackReturns, hardware
<1>2. \A c \in Contexts : call'[c].at = "idle"
  BY <1>1, TwoContexts DEF IInv, CallInv
<1>3. CallInv' /\ ClientInv'
  BY <1>1, <1>2, TwoContexts DEF CallInv, ClientInv, Setting
<1>4. ASSUME NEW b \in Alarms, promised'[b] # NoAlarm PROVE Kept(b)'
  <2>1. Kept(b) /\ ~ Setting(b)'
    BY <1>1, <1>2, <1>4 DEF IInv, PromiseInv, Setting
  <2> QED
    BY <1>1, <2>1 DEF Kept, Serving
<1> QED
  BY <1>3, <1>4 DEF PromiseInv

\* The match bit is cleared, and the alarm is being served.
LEMMA AcknowledgeKeeps ==
  ASSUME IInv, NEW a \in Alarms, Acknowledge(a)
  PROVE  CallInv' /\ ClientInv' /\ PromiseInv'
<1>1. /\ UNCHANGED <<time, compare, slot, callback, call, due, promised>>
      /\ handler = "next" /\ handler' = "load" /\ serving' = a
      /\ match' = match \ {a}
  BY DEF Acknowledge
<1>2. \A c \in Contexts : call'[c].at = "idle"
  BY <1>1, NoCaller
<1>3. CallInv' /\ ClientInv'
  BY <1>1, <1>2, TwoContexts DEF CallInv, ClientInv, Setting
<1>4. ASSUME NEW b \in Alarms, promised'[b] # NoAlarm PROVE Kept(b)'
  <2>1. Kept(b) /\ ~ Setting(b)'
    BY <1>1, <1>2, <1>4 DEF IInv, PromiseInv, Setting
  <2>2. promised[b] <= time => b \in match
    BY <1>1, <2>1 DEF Kept, Serving
  <2>3. slot[b] = promised[b]
    BY <1>1, <2>1 DEF Kept
  <2> QED
    BY <1>1, <2>1, <2>2, <2>3 DEF Kept, Serving
<1> QED
  BY <1>3, <1>4 DEF PromiseInv

\* The handler finds the timestamp that was promised.
LEMMA LoadSlotKeeps ==
  ASSUME IInv, LoadSlot PROVE CallInv' /\ ClientInv' /\ PromiseInv'
<1>1. /\ UNCHANGED <<time, compare, match, slot, callback, call, serving, promised>>
      /\ handler = "load"
      /\ \/ slot[serving] # Free /\ due' = slot[serving] /\ handler' = "test"
         \/ slot[serving] = Free /\ due' = due /\ handler' = "panic"
  BY DEF LoadSlot, hardware
<1>2. \A c \in Contexts : call'[c].at = "idle"
  BY <1>1, NoCaller
<1>3. CallInv' /\ ClientInv'
  BY <1>1, <1>2, TwoContexts DEF CallInv, ClientInv, Setting
<1>4. ASSUME NEW b \in Alarms, promised'[b] # NoAlarm PROVE Kept(b)'
  <2>1. Kept(b) /\ ~ Setting(b)' /\ promised[b] # Free
    BY <1>1, <1>2, <1>4 DEF IInv, PromiseInv, Setting, Free, NoAlarm
  <2>2. slot[b] = promised[b]
    BY <1>1, <2>1 DEF Kept
  <2>3. handler' # "test" => serving # b
    BY <1>1, <2>1, <2>2
  <2> QED
    BY <1>1, <2>1, <2>2, <2>3 DEF Kept, Serving
<1> QED
  BY <1>3, <1>4 DEF PromiseInv

\* The callback ends the promise; before its time, the alarm is set again.
LEMMA TestKeeps ==
  ASSUME IInv, Test PROVE CallInv' /\ ClientInv' /\ PromiseInv'
<1>1. /\ UNCHANGED <<time, compare, match, callback, serving, due>> /\ handler = "test"
      /\ serving \in Alarms /\ due \in Times
      /\ \A c \in Contexts : call[c].at = "idle"
  BY NoCaller DEF Test, hardware, IInv, TypeOK
<1>2. CASE due <= time
  <2>1. /\ slot' = [slot EXCEPT ![serving] = 0]
        /\ promised' = [promised EXCEPT ![serving] = NoAlarm]
        /\ call' = call
        /\ handler' = IF serving \in callback THEN "callback" ELSE "next"
    BY <1>2 DEF Test
  <2>2. CallInv' /\ ClientInv'
    BY <1>1, <2>1, TwoContexts DEF CallInv, ClientInv, Setting
  <2>3. ASSUME NEW b \in Alarms, promised'[b] # NoAlarm PROVE Kept(b)'
    <3>1. b # serving /\ promised'[b] = promised[b] /\ slot'[b] = slot[b]
      BY <1>1, <2>1, <2>3 DEF IInv, TypeOK
    <3>2. Kept(b) /\ ~ Setting(b)'
      BY <1>1, <2>1, <2>3, <3>1 DEF IInv, PromiseInv, Setting
    <3> QED
      BY <1>1, <3>1, <3>2 DEF Kept, Serving
  <2> QED
    BY <2>2, <2>3 DEF PromiseInv
<1>3. CASE ~ (due <= time)
  <2>1. /\ handler' = "again" /\ UNCHANGED <<promised, slot>>
        /\ call' = [call EXCEPT !["isr"] =
                      [at |-> "check", alarm |-> serving, timestamp |-> due]]
    BY <1>3 DEF Test, BeginAgain
  <2>2. /\ call'["isr"].at = "check" /\ call'["isr"].alarm = serving
        /\ call'["isr"].timestamp = due /\ call'["thread"].at = "idle"
    BY <1>1, <2>1, TwoContexts, BeginIs DEF IInv
  <2>3. CallInv' /\ ClientInv'
    BY <1>1, <2>1, <2>2, TwoContexts DEF CallInv, ClientInv, Setting
  <2>4. ASSUME NEW b \in Alarms, promised'[b] # NoAlarm PROVE Kept(b)'
    <3>1. Kept(b)
      BY <2>1, <2>4 DEF IInv, PromiseInv
    <3>2. ~ Setting(b)'
      BY <2>1, <2>2, TwoContexts DEF Setting
    <3> QED
      BY <1>1, <1>3, <2>1, <3>1, <3>2 DEF Kept, Serving
  <2> QED
    BY <2>3, <2>4 DEF PromiseInv
<1> QED
  BY <1>2, <1>3

\* Nothing happens.
LEMMA StutterKeeps ==
  ASSUME IInv, UNCHANGED vars PROVE CallInv' /\ ClientInv' /\ PromiseInv'
BY DEF IInv, CallInv, ClientInv, PromiseInv, Kept, Setting, Serving, vars, hardware, isr

\* What is known of the promises is inductive.
LEMMA InvInductive == Spec => []IInv
<1>1. Init => IInv
  BY InitTypes, InvInit DEF IInv
<1>2. IInv /\ [Next]_vars => IInv'
  <2> SUFFICES ASSUME IInv, [Next]_vars PROVE IInv'
    OBVIOUS
  <2>1. TypeOK'
    BY StepTypes DEF IInv
  <2>2. CASE Tick
    BY <2>1, <2>2, TickKeeps DEF IInv
  <2>3. ASSUME NEW a \in Alarms, Allocate(a) \/ SetCallback(a) PROVE IInv'
    BY <2>1, <2>3, AllocateKeeps DEF IInv
  <2>4. ASSUME NEW a \in Alarms, NEW t \in Times, SetAlarm(a, t) PROVE IInv'
    <3>1. /\ Begin("thread", a, t) /\ UNCHANGED <<hardware, slot, callback, isr>>
          /\ a \in callback /\ handler = "off" /\ call["thread"].at = "idle"
      BY <2>4 DEF SetAlarm, Idle
    <3>2. \A d \in Contexts : call[d].at = "idle"
      BY <3>1, TwoContexts DEF IInv, CallInv
    <3> QED
      BY <2>1, <3>1, <3>2, TwoContexts, BeginKeeps DEF IInv
  <2>5. CASE CallStep
    BY <2>1, <2>5, CallStepKeeps DEF IInv, CallStep
  <2>6. CASE EnterHandler \/ LeaveHandler \/ CallbackReturns
    BY <2>1, <2>6, BoundaryKeeps DEF IInv
  <2>7. ASSUME NEW a \in Alarms, Acknowledge(a) PROVE IInv'
    BY <2>1, <2>7, AcknowledgeKeeps DEF IInv
  <2>8. CASE LoadSlot
    BY <2>1, <2>8, LoadSlotKeeps DEF IInv
  <2>9. CASE Test
    BY <2>1, <2>9, TestKeeps DEF IInv
  <2>10. ASSUME NEW t \in Times, CallbackSetsAlarm(t) PROVE IInv'
    <3>1. /\ Begin("isr", serving, t) /\ UNCHANGED <<hardware, slot, callback, isr>>
          /\ serving \in Alarms /\ handler = "callback" /\ serving \in callback
          /\ call["isr"].at = "idle"
      BY <2>10 DEF CallbackSetsAlarm, IInv, TypeOK, CallInv
    <3>2. \A d \in Contexts : call[d].at = "idle"
      BY <3>1, TwoContexts DEF IInv, CallInv
    <3> QED
      BY <2>1, <3>1, <3>2, TwoContexts, BeginKeeps DEF IInv
  <2>11. CASE UNCHANGED vars
    BY <2>1, <2>11, StutterKeeps DEF IInv
  <2> QED
    BY <2>2, <2>3, <2>4, <2>5, <2>6, <2>7, <2>8, <2>9, <2>10, <2>11
       DEF Next, HandlerStep
<1> QED
  BY <1>1, <1>2, PTL DEF Spec

\* driver.rs:135-182, 64-82: a promised alarm nobody is at work on is in the
\* slot and in the compare register, and has matched once its time has come.
THEOREM PromiseIsArmed == Spec => []Armed
<1>1. IInv => Armed
  <2> SUFFICES ASSUME IInv, NEW a \in Alarms, promised[a] # NoAlarm, ~ Busy(a)
               PROVE  /\ slot[a] = promised[a]
                      /\ compare[a] = promised[a] % Wrap
                      /\ promised[a] <= time => a \in match \/ Panicked
    BY DEF Armed
  <2>1. Kept(a)
    BY DEF IInv, PromiseInv
  <2>2. ~ Serving(a) /\ ~ (handler = "test" /\ serving = a)
    BY DEF Busy, Serving
  <2> QED
    BY <2>1, <2>2 DEF Kept
<1> QED
  BY <1>1, InvInductive, PTL

\* driver.rs:71: the callback of a promised alarm is not called before its
\* time, in whatever turn of the low word the channel matches.
THEOREM PromiseIsNotEarly == Spec => NeverEarly
<1> DEFINE Step == \A a \in Alarms : Calls(a) /\ promised[a] # NoAlarm
                                        => promised[a] <= time
<1>1. IInv /\ [Next]_vars => [Step]_vars
  <2> SUFFICES ASSUME IInv, Next, NEW a \in Alarms, Calls(a), promised[a] # NoAlarm
               PROVE  promised[a] <= time
    BY DEF Calls
  <2>1. handler = "test" /\ handler' = "callback" /\ serving = a
    BY DEF Calls
  <2>2. due = promised[a]
    BY <2>1 DEF IInv, PromiseInv, Kept
  <2>3. Test
    BY <2>1 DEF Next, HandlerStep, Tick, Allocate, SetCallback, SetAlarm, Idle, isr,
       CallStep, EnterHandler, LeaveHandler, Acknowledge, LoadSlot, CallbackReturns,
       CallbackSetsAlarm, CheckPast, Store, WriteCompare, Recheck, ClearMatch,
       ZeroTimestamp, Answer
  <2>4. due <= time
    BY <2>1, <2>3 DEF Test
  <2> QED
    BY <2>2, <2>4
<1> QED
  BY <1>1, InvInductive, PTL DEF Spec, NeverEarly

=============================================================================
