--------------------------- MODULE ExecutorProofs ---------------------------
(***************************************************************************)
(* Theorems about Executor, for every set of tasks.                        *)
(***************************************************************************)
EXTENDS Executor, TLAPS

\* Where the section around the sleep is open.
InSection == pc \in {"swap", "busy", "idle", "wfi", "release"}

\* Interrupts are masked in a section that is not exposed, never elsewhere, and
\* every such section enables them again.
SectionInv ==
  /\ masked <=> InSection /\ ~ exposed
  /\ pc = "disable" \/ (InSection /\ ~ exposed) => restore
  /\ exposed => InSection

\* RUN_QUEUED is set exactly for the tasks that are linked, detached or in
\* the middle of a push; nothing is detached outside of raw.poll.
MarkInv ==
  /\ marked = queue \cup batch \cup (IF pc = "push" THEN {target} ELSE {})
  /\ batch # {} => pc \in {"visit", "body"} \/ current # NoTask
  /\ queue \cap batch = {}
  /\ pc = "push" => target \notin queue \cup batch

\* A push has its task, lost writes or not.
PushInv == pc = "push" => target \in Tasks

\* A task is polled only in "body" and in an enqueue called from there.
CallerInv ==
  /\ pc = "body" => current # NoTask
  /\ current # NoTask => pc \in {"body", "push", "pend"}

\* Whoever made the queue nonempty has set the flag, or is about to, or the
\* main thread has not slept on it since, or sleeps in an exposed section.
SignalInv ==
  queue # {} => \/ signaled
                \/ pc \in {"pend", "busy", "release", "poll"}
                \/ exposed /\ pc \in {"idle", "wfi"}

\* Between the swap and the end of the sleep nobody can make it nonempty.
SleepInv == pc \in {"idle", "wfi"} /\ ~ exposed => queue = {}

\* All this holds while no write has been lost.
WholeInv == ~ lost => MarkInv /\ SignalInv /\ SleepInv

IInv == TypeOK /\ SectionInv /\ PushInv /\ CallerInv /\ WholeInv

-----------------------------------------------------------------------------
\* A handler that runs between two instructions, and the instruction lost to
\* its return.
LEMMA InterruptKeeps ==
  ASSUME IInv, NEW ws \in SUBSET Tasks, Interrupt(ws)
  PROVE  IInv'
<1> USE ExecutorAssumption
    DEF IInv, TypeOK, PCs, InSection, SectionInv, MarkInv, PushInv, CallerInv, SignalInv,
        SleepInv, WholeInv, maskVars, history, Interrupt, Serve
<1>1. CASE SkipDisable
  BY <1>1 DEF SkipDisable
<1>2. CASE SkipTest
  <2>1. pc = "acquire" /\ ~ masked /\ ~ masked' /\ ~ exposed
    BY <1>2 DEF SkipTest
  <2>2. TypeOK' /\ PushInv' /\ CallerInv' /\ WholeInv'
    BY <1>2, <2>1 DEF SkipTest
  <2>3. SectionInv'
    BY <1>2, <2>1 DEF SkipTest
  <2> QED
    BY <2>2, <2>3
<1>3. CASE SkipInSection
  BY <1>3 DEF SkipInSection
<1>4. CASE SkipWrite
  BY <1>4 DEF SkipWrite, InUserCode, Caller
<1>5. CASE SkipOther
  BY <1>5 DEF SkipOther
<1> QED
  BY <1>1, <1>2, <1>3, <1>4, <1>5

\* Every action of the loop, the tasks and the interrupts keeps IInv.
LEMMA InvIsInductive == IInv /\ [Next]_vars => IInv'
<1> SUFFICES ASSUME IInv, [Next]_vars PROVE IInv'
  OBVIOUS
<1> USE ExecutorAssumption
    DEF IInv, TypeOK, PCs, InSection, SectionInv, MarkInv, PushInv, CallerInv, SignalInv,
        SleepInv, WholeInv, taskVars, maskVars, history
<1>1. CASE Enqueue
  BY <1>1 DEF Enqueue, Caller
<1>2. CASE Pender
  BY <1>2 DEF Pender, Caller
<1>3. CASE InitDone
  BY <1>3 DEF InitDone
<1>4. CASE DequeueAll
  BY <1>4 DEF DequeueAll
<1>5. ASSUME NEW t \in Tasks, Visit(t) PROVE IInv'
  BY <1>5 DEF Visit
<1>6. CASE TaskReturn
  BY <1>6 DEF TaskReturn
<1>7. CASE PollDone
  BY <1>7 DEF PollDone
<1>8. CASE ReadCpsr
  BY <1>8 DEF ReadCpsr
<1>9. CASE Disable
  BY <1>9 DEF Disable
<1>10. CASE Swap
  BY <1>10 DEF Swap
<1>11. CASE WaitForInterrupt
  BY <1>11 DEF WaitForInterrupt
<1>12. CASE Release
  BY <1>12 DEF Release
<1>13. ASSUME NEW t \in Tasks, Spawn(t) PROVE IInv'
  BY <1>13 DEF Spawn, InUserCode
<1>14. ASSUME NEW t \in Tasks, WakeTask(t) PROVE IInv'
  BY <1>14 DEF WakeTask
<1>15. CASE RaiseIrq
  BY <1>15 DEF RaiseIrq
<1>16. ASSUME NEW ws \in SUBSET Tasks, Interrupt(ws) PROVE IInv'
  BY <1>16, InterruptKeeps
<1>17. CASE TestWork
  BY <1>17 DEF TestWork
<1>18. CASE UNCHANGED vars
  BY <1>18 DEF vars
<1> QED
  BY <1>1, <1>2, <1>3, <1>4, <1>5, <1>6, <1>7, <1>8, <1>9, <1>10, <1>11, <1>12, <1>13,
     <1>14, <1>15, <1>16, <1>17, <1>18 DEF Next, ThreadStep

\* The executor of an initial state is idle, unmasked and holds no task.
LEMMA InvHolds == Spec => []IInv
<1>1. Init => IInv
  BY ExecutorAssumption
  DEF Init, IInv, TypeOK, PCs, InSection, SectionInv, MarkInv, PushInv, CallerInv,
      SignalInv, SleepInv, WholeInv
<1> QED
  BY <1>1, InvIsInductive, PTL DEF Spec

-----------------------------------------------------------------------------
\* The state of the loop, of the run queue and of the tasks is well formed.
THEOREM TypeCorrect == Spec => []TypeOK
<1>1. IInv => TypeOK
  BY DEF IInv
<1> QED
  BY <1>1, InvHolds, PTL

\* executor.rs:34-57: WFI is never executed while a task is in the run queue, in
\* a section that was opened by its cpsid and over a queue that lost no write.
THEOREM NoLostWake == Spec => []SleepsOnlyWhenIdle
<1>1. IInv => SleepsOnlyWhenIdle
  BY DEF IInv, MarkInv, CallerInv, SleepInv, WholeInv, SleepsOnlyWhenIdle
<1> QED
  BY <1>1, InvHolds, PTL

-----------------------------------------------------------------------------
\* The images of the steps under the refinement mapping.

\* A step that leaves the marks of live tasks, the running task and the
\* sleep alone is a stutter of the wake service.
LEMMA Stutter ==
  ASSUME UNCHANGED <<owedTasks, current>>,
         (pc' = "wfi" /\ ~ exposed') <=> (pc = "wfi" /\ ~ exposed)
  PROVE  UNCHANGED WS!vars
BY DEF WS!vars

\* Marking live tasks while the processor runs is a wake.
LEMMA Waking ==
  ASSUME NEW ts \in SUBSET Tasks, owedTasks' = owedTasks \cup ts,
         ~ (pc = "wfi" /\ ~ exposed), ~ (pc' = "wfi" /\ ~ exposed'), UNCHANGED current
  PROVE  WS!Next
<1>1. WS!Wake(ts)
  BY DEF WS!Wake
<1> QED
  BY <1>1 DEF WS!Next

\* What is lost remains lost.
LEMMA LostStays == [Next]_vars /\ lost => lost'
BY DEF Next, ThreadStep, Enqueue, Pender, InitDone, DequeueAll, Visit, TaskReturn,
       PollDone, ReadCpsr, Disable, Swap, TestWork, WaitForInterrupt, Release, Spawn,
       WakeTask, RaiseIrq, Interrupt, SkipDisable, SkipTest, SkipInSection, SkipWrite,
       SkipOther, history, vars

\* A step that loses no write is a step of the wake service or a stutter.
LEMMA StepRefines == IInv /\ [Next]_vars => [WS!Next \/ lost']_(WS!vars)
<1> SUFFICES ASSUME IInv, [Next]_vars, ~ lost' PROVE WS!Next \/ UNCHANGED WS!vars
  OBVIOUS
<1>0. ~ lost
  BY LostStays
<1> USE <1>0
    DEF IInv, TypeOK, PCs, InSection, SectionInv, MarkInv, CallerInv, WholeInv, taskVars,
        maskVars, history
<1>1. CASE Enqueue
  BY <1>1, Stutter DEF Enqueue, Caller, owedTasks
<1>2. CASE Pender
  BY <1>2, Stutter DEF Pender, Caller, owedTasks
<1>3. CASE InitDone
  BY <1>3, Stutter DEF InitDone, owedTasks
<1>4. CASE DequeueAll
  BY <1>4, Stutter DEF DequeueAll, owedTasks
<1>5. ASSUME NEW t \in Tasks, Visit(t) PROVE WS!Next \/ UNCHANGED WS!vars
  <2>1. CASE t \in spawned
    <3>1. WS!Poll(t)
      BY <1>5, <2>1 DEF Visit, WS!Poll, owedTasks
    <3> QED
      BY <3>1 DEF WS!Next
  <2>2. CASE t \notin spawned
    BY <1>5, <2>2, Stutter DEF Visit, owedTasks
  <2> QED
    BY <2>1, <2>2
<1>6. CASE TaskReturn
  <2>1. CASE spawned' = spawned
    <3>1. WS!Yield
      BY <1>6, <2>1, ExecutorAssumption DEF TaskReturn, WS!Yield, owedTasks
    <3> QED
      BY <3>1 DEF WS!Next
  <2>2. CASE spawned' = spawned \ {current}
    <3>1. WS!Finish
      BY <1>6, <2>2, ExecutorAssumption DEF TaskReturn, WS!Finish, owedTasks
    <3> QED
      BY <3>1 DEF WS!Next
  <2> QED
    BY <1>6, <2>1, <2>2 DEF TaskReturn
<1>7. CASE PollDone
  BY <1>7, Stutter DEF PollDone, owedTasks
<1>8. CASE ReadCpsr
  BY <1>8, Stutter DEF ReadCpsr, owedTasks
<1>9. CASE Disable
  BY <1>9, Stutter DEF Disable, owedTasks
<1>10. CASE Swap
  BY <1>10, Stutter DEF Swap, owedTasks
<1>11. CASE WaitForInterrupt
  <2>1. CASE exposed
    BY <1>11, <2>1, Stutter DEF WaitForInterrupt, owedTasks
  <2>2. CASE ~ exposed
    <3>1. WS!Resume
      BY <1>11, <2>2 DEF WaitForInterrupt, WS!Resume, owedTasks
    <3> QED
      BY <3>1 DEF WS!Next
  <2> QED
    BY <2>1, <2>2
<1>12. CASE Release
  BY <1>12, Stutter DEF Release, owedTasks
<1>13. ASSUME NEW t \in Tasks, Spawn(t) PROVE WS!Next
  <2>1. owedTasks' = owedTasks \cup {t}
    BY <1>13 DEF Spawn, owedTasks
  <2>2. {t} \in SUBSET Tasks
    OBVIOUS
  <2>3. pc # "wfi" /\ pc' # "wfi" /\ UNCHANGED current
    BY <1>13 DEF Spawn, InUserCode
  <2> QED
    BY <2>1, <2>2, <2>3, Waking
<1>14. ASSUME NEW t \in Tasks, WakeTask(t) PROVE WS!Next
  <2>1. owedTasks' = owedTasks \cup {t}
    BY <1>14 DEF WakeTask, owedTasks
  <2>2. {t} \in SUBSET Tasks
    OBVIOUS
  <2>3. pc # "wfi" /\ pc' # "wfi" /\ UNCHANGED current
    BY <1>14 DEF WakeTask
  <2> QED
    BY <2>1, <2>2, <2>3, Waking
<1>15. CASE RaiseIrq
  BY <1>15, Stutter DEF RaiseIrq, owedTasks
<1>16. ASSUME NEW ws \in SUBSET Tasks, Interrupt(ws) PROVE WS!Next
  <2>1. owedTasks' = owedTasks \cup (ws \cap spawned)
    BY <1>16 DEF Interrupt, Serve, owedTasks
  <2>2. pc # "wfi" /\ (pc' = "wfi" => exposed')
    BY <1>16
    DEF Interrupt, SkipDisable, SkipTest, SkipInSection, SkipWrite, SkipOther, Caller
  <2>3. UNCHANGED current
    BY <1>16
    DEF Interrupt, SkipDisable, SkipTest, SkipInSection, SkipWrite, SkipOther
  <2> QED
    BY <2>1, <2>2, <2>3, Waking
<1>17. CASE TestWork
  <2>1. CASE pc = "busy" \/ exposed
    BY <1>17, <2>1, Stutter DEF TestWork, owedTasks
  <2>2. CASE pc = "idle" /\ ~ exposed
    <3>1. marked = {} /\ current = NoTask
      BY <2>2 DEF SleepInv
    <3>2. WS!Sleep
      BY <1>17, <2>2, <3>1 DEF TestWork, WS!Sleep, owedTasks
    <3> QED
      BY <3>2 DEF WS!Next
  <2> QED
    BY <1>17, <2>1, <2>2 DEF TestWork
<1>18. CASE UNCHANGED vars
  BY <1>18 DEF vars, WS!vars, owedTasks
<1> QED
  BY <1>1, <1>2, <1>3, <1>4, <1>5, <1>6, <1>7, <1>8, <1>9, <1>10, <1>11, <1>12,
     <1>13, <1>14, <1>15, <1>16, <1>17, <1>18 DEF Next, ThreadStep

\* executor.rs:28-58: the loop around raw.poll, the flag and WFI implements
\* the wake service, whatever the interrupts and the tasks do and wherever isr
\* returns to, until the return skips a write; of a sleep in a section that was
\* opened without its cpsid nothing is promised.
THEOREM Refinement == Spec => ImplementsWakeService
<1>1. Init => WS!Init
  BY DEF Init, WS!Init, owedTasks
<1> QED
  BY <1>1, StepRefines, InvHolds, PTL DEF Spec, ImplementsWakeService

=============================================================================
