------------------------------ MODULE Executor ------------------------------
(***************************************************************************)
(* src/executor.rs: the main loop that polls the embassy run queue and     *)
(* sleeps in WFI, with the flag WORK_SIGNALED between it and `__pender`.   *)
(* The main thread is interrupted between any two of its steps unless the  *)
(* CPSR masks it; an interrupt handler runs with interrupts masked, hence  *)
(* in one step, and `isr` returns one instruction further than it should   *)
(* (see CriticalSection): what is skipped may be the instruction that      *)
(* masks, the one that decides to sleep, or a write of the step that was   *)
(* interrupted.  The run queue, the task states and the wakers are         *)
(* embassy-executor 0.6.1's, modelled from how this crate uses them.       *)
(***************************************************************************)

CONSTANTS
  Tasks,   \* the statically allocated tasks
  NoTask   \* "no task"

ASSUME ExecutorAssumption == NoTask \notin Tasks

VARIABLES
  pc,        \* where the main thread is in `run`
  current,   \* the task whose poll function is running
  target,    \* the task the main thread is in the middle of enqueueing
  spawned,   \* tasks whose SPAWNED bit is set
  marked,    \* tasks whose RUN_QUEUED bit is set
  queue,     \* tasks linked in the run queue
  batch,     \* tasks detached by dequeue_all and not yet visited
  signaled,  \* WORK_SIGNALED
  masked,    \* the I bit of the CPSR
  restore,   \* what critical_section::acquire returned to `run`
  irq,       \* an enabled interrupt source is pending
  exposed,   \* history: the acquire of the open section lost an instruction
  lost       \* history: a write to the queue, a task or the flag was skipped

taskVars == <<spawned, marked, queue>>
maskVars == <<masked, restore>>
history == <<exposed, lost>>
vars == <<pc, current, target, spawned, marked, queue, batch, signaled,
          masked, restore, irq, exposed, lost>>

\* Control points of the main thread: the spawning closure, the three parts
\* of raw.poll (detach, visit, task body), the two halves of an enqueue, and
\* the critical section around the sleep, in which the swap has found work
\* ("busy") or none ("idle").
PCs == {"init", "poll", "visit", "body", "push", "pend",
        "acquire", "disable", "swap", "busy", "idle", "wfi", "release"}

TypeOK ==
  /\ pc \in PCs
  /\ current \in Tasks \cup {NoTask}
  /\ target \in Tasks \cup {NoTask}
  /\ spawned \subseteq Tasks
  /\ marked \subseteq Tasks
  /\ queue \subseteq Tasks
  /\ batch \subseteq Tasks
  /\ signaled \in BOOLEAN
  /\ masked \in BOOLEAN
  /\ restore \in BOOLEAN
  /\ irq \in BOOLEAN
  /\ exposed \in BOOLEAN
  /\ lost \in BOOLEAN

\* boot.s leaves interrupts enabled (cpsie aif) before `main` is called.
Init ==
  /\ pc = "init"
  /\ current = NoTask
  /\ target = NoTask
  /\ spawned = {}
  /\ marked = {}
  /\ queue = {}
  /\ batch = {}
  /\ signaled = FALSE
  /\ masked = FALSE
  /\ restore = FALSE
  /\ irq = FALSE
  /\ exposed = FALSE
  /\ lost = FALSE

-----------------------------------------------------------------------------
(* Waking and spawning from the main thread, interruptible between the     *)
(* mark, the push and the call of the pender.                              *)

\* The spawning closure and the task bodies are the callers.
InUserCode == pc \in {"init", "body"}
Caller == IF current = NoTask THEN "init" ELSE "body"

\* Only storage with both state bits clear can be claimed for a new task.
Spawn(t) ==
  /\ InUserCode
  /\ t \notin spawned \cup marked
  /\ spawned' = spawned \cup {t}
  /\ marked' = marked \cup {t}
  /\ target' = t
  /\ pc' = "push"
  /\ UNCHANGED <<current, queue, batch, signaled, maskVars, irq, history>>

\* Mutant: the header of the task is not handed to the push.
WakeTaskWithoutTarget(t) ==
  /\ pc = "body"
  /\ t \in spawned \ marked
  /\ marked' = marked \cup {t}
  /\ pc' = "push"
  /\ UNCHANGED <<current, target, spawned, queue, batch, signaled, maskVars,
                 irq, history>>

\* Waker::wake: a task already queued, or already finished, is left alone.
WakeTask(t) ==
  /\ pc = "body"
  /\ t \in spawned \ marked
  /\ marked' = marked \cup {t}
  /\ target' = t
  /\ pc' = "push"
  /\ UNCHANGED <<current, spawned, queue, batch, signaled, maskVars, irq, history>>

\* Mutant: the pender is called when the queue was not empty.
EnqueueSignalsLate ==
  /\ pc = "push"
  /\ queue' = queue \cup {target}
  /\ target' = NoTask
  /\ pc' = IF queue # {} THEN "pend" ELSE Caller
  /\ UNCHANGED <<current, spawned, marked, batch, signaled, maskVars, irq, history>>

\* Only the push that finds the queue empty calls the pender.
Enqueue ==
  /\ pc = "push"
  /\ queue' = queue \cup {target}
  /\ target' = NoTask
  /\ pc' = IF queue = {} THEN "pend" ELSE Caller
  /\ UNCHANGED <<current, spawned, marked, batch, signaled, maskVars, irq, history>>

Pender ==
  /\ pc = "pend"
  /\ signaled' = TRUE
  /\ pc' = Caller
  /\ UNCHANGED <<current, target, taskVars, batch, maskVars, irq, history>>

-----------------------------------------------------------------------------
(* The loop of `run`.                                                      *)

InitDone ==
  /\ pc = "init"
  /\ pc' = "poll"
  /\ UNCHANGED <<current, target, taskVars, batch, signaled, maskVars, irq, history>>

DequeueAll ==
  /\ pc = "poll"
  /\ batch' = queue
  /\ queue' = {}
  /\ pc' = "visit"
  /\ UNCHANGED <<current, target, spawned, marked, signaled, maskVars, irq, history>>

\* The mark is cleared before the poll, so that a wake during it counts.
\* A task that finished after it was queued is skipped.
Visit(t) ==
  /\ pc = "visit"
  /\ t \in batch
  /\ batch' = batch \ {t}
  /\ marked' = marked \ {t}
  /\ \/ t \in spawned /\ current' = t /\ pc' = "body"
     \/ t \notin spawned /\ UNCHANGED <<current, pc>>
  /\ UNCHANGED <<target, spawned, queue, signaled, maskVars, irq, history>>

\* Mutant: the mark is cleared when the poll returns.
TaskReturnClearsMark ==
  /\ pc = "body"
  /\ spawned' \in {spawned, spawned \ {current}}
  /\ marked' = marked \ {current}
  /\ current' = NoTask
  /\ pc' = "visit"
  /\ UNCHANGED <<target, queue, batch, signaled, maskVars, irq, history>>

\* The poll function returns Pending, or Ready and the task is despawned.
TaskReturn ==
  /\ pc = "body"
  /\ spawned' \in {spawned, spawned \ {current}}
  /\ current' = NoTask
  /\ pc' = "visit"
  /\ UNCHANGED <<target, marked, queue, batch, signaled, maskVars, irq, history>>

PollDone ==
  /\ pc = "visit"
  /\ batch = {}
  /\ pc' = "acquire"
  /\ UNCHANGED <<current, target, taskVars, batch, signaled, maskVars, irq, history>>

\* critical_section::acquire reads the CPSR, then disables if it must.
ReadCpsr ==
  /\ pc = "acquire"
  /\ restore' = ~ masked
  /\ pc' = IF masked THEN "swap" ELSE "disable"
  /\ UNCHANGED <<current, target, taskVars, batch, signaled, masked, irq, history>>

\* Mutant: the flag is swapped with interrupts enabled.
DisableNothing ==
  /\ pc = "disable"
  /\ pc' = "swap"
  /\ UNCHANGED <<current, target, taskVars, batch, signaled, maskVars, irq, history>>

Disable ==
  /\ pc = "disable"
  /\ masked' = TRUE
  /\ pc' = "swap"
  /\ UNCHANGED <<current, target, taskVars, batch, signaled, restore, irq, history>>

Swap ==
  /\ pc = "swap"
  /\ signaled' = FALSE
  /\ pc' = IF signaled THEN "busy" ELSE "idle"
  /\ UNCHANGED <<current, target, taskVars, batch, maskVars, irq, history>>

\* What the swap has returned is tested.
TestWork ==
  /\ pc \in {"busy", "idle"}
  /\ pc' = IF pc = "busy" THEN "release" ELSE "wfi"
  /\ UNCHANGED <<current, target, taskVars, batch, signaled, maskVars, irq, history>>

\* WFI ends on a pending interrupt even when the CPSR masks it.
WaitForInterrupt ==
  /\ pc = "wfi"
  /\ irq
  /\ pc' = "release"
  /\ UNCHANGED <<current, target, taskVars, batch, signaled, maskVars, irq, history>>

\* Mutant: the section ends without interrupts being enabled again.
ReleaseMasked ==
  /\ pc = "release"
  /\ pc' = "poll"
  /\ UNCHANGED <<current, target, taskVars, batch, signaled, maskVars, irq, history>>

Release ==
  /\ pc = "release"
  /\ masked' = (masked /\ ~ restore)
  /\ pc' = "poll"
  /\ exposed' = FALSE
  /\ UNCHANGED <<current, target, taskVars, batch, signaled, restore, irq, lost>>

-----------------------------------------------------------------------------
(* The environment: devices, and the handlers of interrupt.rs.             *)

RaiseIrq ==
  /\ ~ irq
  /\ irq' = TRUE
  /\ UNCHANGED <<pc, current, target, taskVars, batch, signaled, maskVars, history>>

\* The handler clears its source and wakes the tasks ws it holds wakers of;
\* every one of them is marked, pushed, and the pender called by the first.
Serve(ws) ==
  LET woken == (ws \cap spawned) \ marked
  IN  /\ marked' = marked \cup woken
      /\ queue' = queue \cup woken
      /\ signaled' = (signaled \/ (queue = {} /\ woken # {}))
      /\ irq' = FALSE

\* The skipped instruction is the cpsid of `acquire`.
SkipDisable ==
  /\ pc = "disable"
  /\ pc' = "swap"
  /\ exposed' = TRUE
  /\ UNCHANGED <<current, target, batch, restore, lost>>

\* It is the read or the test of the CPSR: `acquire` goes by what there is.
SkipTest ==
  /\ pc = "acquire"
  /\ \/ pc' = "disable" /\ restore' = TRUE /\ UNCHANGED exposed
     \/ pc' = "swap" /\ restore' = FALSE /\ exposed' = TRUE
  /\ UNCHANGED <<current, target, batch, lost>>

\* In a section that is exposed, it is the store or the load of the swap, the
\* test of what the swap returned, or WFI.
SkipInSection ==
  /\ \/ pc = "swap" /\ pc' \in {"busy", "idle"}
     \/ pc \in {"busy", "idle"} /\ pc' \in {"wfi", "release"}
  /\ UNCHANGED <<current, target, batch, restore, history>>

\* It is the write of the step that was interrupted: the mark of a task, the
\* push, the flag, the detaching of the queue or the clearing of a mark.
SkipWrite ==
  /\ \/ /\ InUserCode
        /\ target' \in Tasks \ marked
        /\ pc' = "push"
        /\ UNCHANGED <<current, batch>>
     \/ /\ pc = "push"
        /\ target' = NoTask
        /\ pc' \in {"pend", Caller}
        /\ UNCHANGED <<current, batch>>
     \/ /\ pc = "pend"
        /\ pc' = Caller
        /\ UNCHANGED <<current, target, batch>>
     \/ /\ pc = "poll"
        /\ batch' = queue
        /\ pc' = "visit"
        /\ UNCHANGED <<current, target>>
     \/ /\ pc = "visit"
        /\ \E t \in batch :
             /\ batch' = batch \ {t}
             /\ \/ t \in spawned /\ current' = t /\ pc' = "body"
                \/ t \notin spawned /\ UNCHANGED <<current, pc>>
        /\ UNCHANGED target
  /\ lost' = TRUE
  /\ UNCHANGED <<restore, exposed>>

\* It is one of the instructions between, whose registers are not modelled.
SkipOther == UNCHANGED <<pc, current, target, batch, restore, history>>

\* The handler is entered between two instructions, and `isr` returns to what
\* LR_irq holds.  A WFI ends before the interrupt is taken.
Interrupt(ws) ==
  /\ irq
  /\ ~ masked
  /\ pc # "wfi"
  /\ Serve(ws)
  /\ SkipDisable \/ SkipTest \/ SkipInSection \/ SkipWrite \/ SkipOther
  /\ UNCHANGED <<spawned, masked>>

-----------------------------------------------------------------------------
\* The steps the main thread takes on its own, without a choice of user code.
ThreadStep ==
  \/ Enqueue
  \/ Pender
  \/ InitDone
  \/ DequeueAll
  \/ \E t \in Tasks : Visit(t)
  \/ TaskReturn
  \/ PollDone
  \/ ReadCpsr
  \/ Disable
  \/ Swap
  \/ TestWork
  \/ WaitForInterrupt
  \/ Release

Next ==
  \/ ThreadStep
  \/ \E t \in Tasks : Spawn(t)
  \/ \E t \in Tasks : WakeTask(t)
  \/ RaiseIrq
  \/ \E ws \in SUBSET Tasks : Interrupt(ws)

Spec == Init /\ [][Next]_vars

\* The processor executes instructions, the closure and the polls return
\* (tasks are cooperative), and an interrupt that is pending whenever
\* interrupts are unmasked is taken at an instruction boundary.
Fairness ==
  /\ WF_vars(ThreadStep)
  /\ SF_vars(\E ws \in SUBSET Tasks : Interrupt(ws))

FairSpec == Spec /\ Fairness

-----------------------------------------------------------------------------
(* Properties.                                                             *)

\* executor.rs:34-57: the processor never waits in WFI while a task sits in
\* the run queue; the wake that put it there would otherwise be lost until
\* some unrelated interrupt.  Excepted are the one sleep whose section was
\* opened without its cpsid, and a run queue that lost a write.
SleepsOnlyWhenIdle ==
  pc = "wfi" /\ ~ exposed /\ ~ lost => queue \cup batch \cup marked = {}

\* executor.rs:28-58: the loop implements the wake service until a write is
\* lost.  A processor that waits in an exposed section counts as awake, so
\* that nothing is promised of that sleep, and everything before and after.
owedTasks == marked \cap spawned
WS == INSTANCE WakeService
        WITH owed <- owedTasks, asleep <- (pc = "wfi" /\ ~ exposed)
ImplementsWakeService == WS!Init /\ [][WS!Next \/ lost']_(WS!vars)

\* executor.rs:27-59: a woken task is polled, whatever the interrupts do, if
\* no write is lost and no sleep in an exposed section goes on for ever.
WokenIsPolled ==
  <>lost \/ <>[](pc = "wfi" /\ exposed) \/ WS!Served

\* executor.rs:36-58: an interrupt raised, even during the critical section
\* or the sleep, is taken once the section is left, whatever was skipped.
RaisedIsTaken == irq ~> ~ irq


=============================================================================
