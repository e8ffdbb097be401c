----------------------------- MODULE TaskProofs -----------------------------
(***************************************************************************)
(* Proofs about the process table for any number of slots, signals, exit   *)
(* codes, ticks and sleeps, and whatever the terminal interrupts.          *)
(***************************************************************************)
EXTENDS Task, FiniteSetTheorems, TLAPS

Tables == [Pids -> Tasks]

-----------------------------------------------------------------------------
(* What the functions of the table return                                  *)

\* A cleared slot is a task record.
LEMMA ClearedType == Cleared \in Tasks
  BY TableAssumption, SignalAssumption
  DEF Cleared, Tasks, States, Places, Codes, Signals

\* Waking a process yields a task record, and not a blocked one.
LEMMA UnblockType ==
  ASSUME NEW t \in Tasks
  PROVE  Unblock(t) \in Tasks
  BY DEF Unblock, Tasks, States

\* A parent that hears of children is still a task record.
LEMMA HearType ==
  ASSUME NEW t \in Tasks, NEW T \in Tables, NEW kids \in SUBSET Pids
  PROVE  Hear(t, T, kids) \in Tasks
<1> DEFINE room(c) == Cardinality(t.done) + Cardinality({d \in kids : d < c}) < kMaxTask
           heard == {c \in kids : room(c)}
           told == [t EXCEPT !.done = @ \cup {Note(T, c) : c \in heard}]
<1>1. \A c \in heard : Note(T, c) \in Notes
  BY DEF Note, Notes, Tables, Tasks
<1>2. t.done \cup {Note(T, c) : c \in heard} \in SUBSET Notes
  BY <1>1 DEF Tasks
<1> HIDE DEF heard
<1>3. told \in Tasks
  BY <1>2 DEF Tasks
<1>4. Unblock(told) \in Tasks
  BY <1>3, UnblockType
<1> QED
  BY <1>3, <1>4 DEF Hear, heard

\* Announcing an end keeps the table well typed.
LEMMA AnnounceType ==
  ASSUME NEW T \in Tables, NEW p \in Pids
  PROVE  announce(T, p) \in Tables
  BY HearType DEF announce, Tables

\* Reaping keeps the table well typed.
LEMMA ReapType ==
  ASSUME NEW T \in Tables
  PROVE  reap(T) \in Tables
<1>1. SUFFICES ASSUME NEW q \in Pids
               PROVE  reap(T)[q] \in Tasks
  BY DEF reap, Tables
<1> DEFINE told == Hear(T[q], T, KilledKids(T, q))
<1>2. told \in Tasks
  BY HearType DEF KilledKids, Tables
<1>3. [told EXCEPT !.state = "zombie"] \in Tasks
  BY <1>2 DEF Tasks, States
<1> QED
  BY <1>2, <1>3, ClearedType DEF reap, Tables

\* Delivering a signal yields a task record.
LEMMA DeliverType ==
  ASSUME NEW t \in Tasks
  PROVE  deliver_pending(t) \in Tasks
  BY DEF deliver_pending, Tasks

\* Switching keeps the table well typed.
LEMMA SwitchType ==
  ASSUME NEW T \in Tables, NEW to
  PROVE  switch_to(T, to) \in Tables
<1>1. SUFFICES ASSUME NEW p \in Pids
               PROVE  switch_to(T, to)[p] \in Tasks
  BY DEF switch_to, Tables
<1> DEFINE t == [T[p] EXCEPT !.state = "running", !.quantum = kQuantum]
<1>0. T[p] \in Tasks /\ kQuantum \in 0 .. kQuantum
  BY TableAssumption DEF Tables
<1>2. t \in Tasks
  BY <1>0 DEF Tasks, States
<1>3. deliver_pending(t) \in Tasks
  BY <1>2, DeliverType
<1>4. [T[p] EXCEPT !.state = "ready"] \in Tasks
  BY DEF Tables, Tasks, States
<1> QED
  BY <1>2, <1>3, <1>4 DEF switch_to, Tables

\* Raising a signal keeps the table well typed.
LEMMA SignalType ==
  ASSUME NEW T \in Tables, NEW p \in Pids, NEW sig \in Signals
  PROVE  signal_task(T, p, sig) \in Tables
<1> DEFINE t == [T[p] EXCEPT !.sig_pending = sig]
<1>1. T[p] \in Tasks
  BY DEF Tables
<1>2. sig \in T[p].sig_handlers => t \in Tasks /\ Unblock(t) \in Tasks
  BY <1>1, UnblockType DEF Tasks
<1>3. [T[p] EXCEPT !.ending = sig, !.state = "killed"] \in Tasks
  BY <1>1 DEF Tasks, States, Codes
<1> QED
  BY <1>2, <1>3 DEF signal_task, Tables

\* The timer's wake-ups keep the table well typed.
LEMMA TickType ==
  ASSUME NEW T \in Tables, NEW now
  PROVE  on_tick(T, now) \in Tables
<1>1. SUFFICES ASSUME NEW p \in Pids
               PROVE  on_tick(T, now)[p] \in Tasks
  BY DEF on_tick, Tables
<1>2. T[p] \in Tasks /\ [T[p] EXCEPT !.sleep_until = 0] \in Tasks
  BY DEF Tables, Tasks
<1> QED
  BY <1>2, UnblockType DEF on_tick

\* The wake-ups of the keyboard and of the pipes keep the table well typed.
LEMMA WokeType ==
  ASSUME NEW T \in Tables, NEW S
  PROVE  Woke(T, S) \in Tables
  BY UnblockType DEF Woke, Tables

-----------------------------------------------------------------------------
(* How a handler ends                                                      *)

\* What every way of leaving the kernel gives: all but the clock is well typed.
CpuTyped ==
  /\ g_tasks \in Tables
  /\ g_current \in Pids
  /\ idle \in BOOLEAN
  /\ picked \in 0 .. kMaxTask
  /\ panicked \in BOOLEAN

\* Returning to user mode.
LEMMA ReturnType ==
  ASSUME CpuTyped, NEW T \in Tables, Return(T)
  PROVE  CpuTyped'
<1>0. T[g_current] \in Tasks /\ 0 \in 0 .. kMaxTask
  BY TableAssumption DEF CpuTyped, Tables
<1>1. [T[g_current] EXCEPT !.pc = "user", !.wait_pid = 0] \in Tasks
  BY <1>0 DEF Tasks, Places
<1>2. deliver_pending([T[g_current] EXCEPT !.pc = "user", !.wait_pid = 0]) \in Tasks
  BY <1>1, DeliverType
<1> QED
  BY <1>2 DEF Return, CpuTyped, Tables

\* Giving the CPU away with interrupts off.
LEMMA SuspendType ==
  ASSUME CpuTyped, NEW T \in Tables, Suspend(T)
  PROVE  CpuTyped'
  BY ReapType, SwitchType DEF Suspend, Panic, CpuTyped

\* Giving the CPU away with interrupts on.
LEMMA SuspendOpenType ==
  ASSUME CpuTyped, NEW T \in Tables, SuspendOpen(T)
  PROVE  CpuTyped'
  BY ReapType DEF SuspendOpen, Panic, CpuTyped

\* One update of a field of the current process.
LEMMA MeType ==
  ASSUME CpuTyped
  PROVE  g_tasks[g_current] \in Tasks /\ g_tasks \in Tables
  BY DEF CpuTyped, Tables

\* exit() and everything that ends in it.
LEMMA EndWithType ==
  ASSUME CpuTyped, NEW T \in Tables, NEW code \in Codes, EndWith(T, code)
  PROVE  CpuTyped'
<1> DEFINE me == T[g_current]
           gone == [T EXCEPT ![g_current].ending = IF T[g_current].state = "killed"
                                                   THEN @ ELSE code,
                             ![g_current].state = "zombie",
                             ![g_current].pc = "exit"]
<1>1. g_current \in Pids /\ me \in Tasks
  BY DEF CpuTyped, Tables
<1>2. [me EXCEPT !.ending = IF me.state = "killed" THEN @ ELSE code,
                 !.state = "zombie", !.pc = "exit"] \in Tasks
  BY <1>1 DEF Tasks, States, Places
<1>3. gone \in Tables
  BY <1>1, <1>2 DEF Tables
<1>4. announce(gone, g_current) \in Tables
  BY <1>1, <1>3, AnnounceType
<1> HIDE DEF gone
<1> QED
  BY <1>4, SuspendType DEF EndWith, gone

\* preempt() after any well-typed table.
LEMMA PreemptType ==
  ASSUME CpuTyped, NEW T \in Tables, preempt(T)
  PROVE  CpuTyped'
<1> DEFINE t == T[g_current]
           left == IF t.quantum = 0 THEN 0 ELSE t.quantum - 1
           spent == IF t.state \in Dead THEN T ELSE [T EXCEPT ![g_current].quantum = left]
<1>1. g_current \in Pids /\ t \in Tasks
  BY DEF CpuTyped, Tables
<1>2. left \in 0 .. kQuantum
  BY <1>1, TableAssumption DEF Tasks
<1>3. [t EXCEPT !.quantum = left] \in Tasks
  BY <1>1, <1>2 DEF Tasks
<1>4. spent \in Tables
  BY <1>1, <1>3 DEF Tables
<1>5. reap(spent) \in Tables
  BY <1>4, ReapType
<1>6. \A to : switch_to(reap(spent), to) \in Tables
  BY <1>5, SwitchType
<1>7. 0 \in 0 .. kMaxTask
  BY TableAssumption
<1> HIDE DEF spent, left
<1> QED
  BY <1>4, <1>5, <1>6, <1>7 DEF preempt, Panic, CpuTyped, spent, left

\* block() leaves by way of either kind of suspension.
LEMMA BlockType ==
  ASSUME CpuTyped, NEW T \in Tables,
         block(T, FALSE) \/ block(T, TRUE)
  PROVE  CpuTyped'
<1>1. g_current \in Pids /\ T[g_current] \in Tasks
  BY DEF CpuTyped, Tables
<1>2. [T[g_current] EXCEPT !.wake_pending = FALSE, !.state = "running"] \in Tasks
  BY <1>1 DEF Tasks, States
<1>3. [T EXCEPT ![g_current].wake_pending = FALSE, ![g_current].state = "running"] \in Tables
  BY <1>1, <1>2 DEF Tables
<1>4. [T[g_current] EXCEPT !.state = "blocked"] \in Tasks
  BY <1>1 DEF Tasks, States
<1>5. [T EXCEPT ![g_current].state = "blocked"] \in Tables
  BY <1>1, <1>4 DEF Tables
<1> QED
  BY <1>3, <1>5, SuspendType, SuspendOpenType DEF block, schedule, CpuTyped

\* One turn of wait_for's loop.
LEMMA WaitTurnType ==
  ASSUME CpuTyped, NEW pid \in 0 .. kMaxTask, NEW nowait \in BOOLEAN,
         WaitTurn(pid, nowait, FALSE) \/ WaitTurn(pid, nowait, TRUE)
  PROVE  CpuTyped'
<1> DEFINE swept == [g_tasks EXCEPT ![g_current].wake_pending = FALSE]
           T == reap(swept)
<1>1. g_current \in Pids /\ g_tasks[g_current] \in Tasks /\ g_tasks \in Tables
  BY MeType DEF CpuTyped
<1>2. [g_tasks[g_current] EXCEPT !.wake_pending = FALSE] \in Tasks
  BY <1>1 DEF Tasks
<1>3. swept \in Tables
  BY <1>1, <1>2 DEF Tables
<1>4. T \in Tables
  BY <1>3, ReapType
<1> HIDE DEF T
<1>5. T[g_current] \in Tasks
  BY <1>1, <1>4 DEF Tables
<1>6. \A n : [T EXCEPT ![g_current].done = @ \ {n}] \in Tables
  <2>1. \A n : [T[g_current] EXCEPT !.done = @ \ {n}] \in Tasks
    BY <1>5 DEF Tasks
  <2> QED
    BY <1>1, <1>4, <2>1 DEF Tables
<1>7. [T EXCEPT ![g_current].waiting = TRUE, ![g_current].wait_pid = pid,
                ![g_current].pc = "wait"] \in Tables
  <2>1. [T[g_current] EXCEPT !.waiting = TRUE, !.wait_pid = pid, !.pc = "wait"] \in Tasks
    BY <1>5 DEF Tasks, Places
  <2> QED
    BY <1>1, <1>4, <2>1 DEF Tables
<1>8. Panic(swept) => CpuTyped'
  BY <1>3 DEF Panic, CpuTyped
<1>9. \A n : Return([T EXCEPT ![g_current].done = @ \ {n}]) => CpuTyped'
  BY <1>6, ReturnType
<1>10. Return(T) => CpuTyped'
  BY <1>4, ReturnType
<1> DEFINE parked == [T EXCEPT ![g_current].waiting = TRUE, ![g_current].wait_pid = pid,
                               ![g_current].pc = "wait"]
<1>11. block(parked, FALSE) => CpuTyped'
  BY <1>7, BlockType
<1> DEFINE atpark == [T EXCEPT ![g_current].waiting = TRUE, ![g_current].wait_pid = pid,
                               ![g_current].pc = "park"]
<1>12. g_tasks' = atpark /\ UNCHANGED <<g_current, idle, picked, panicked>> => CpuTyped'
  <2>1. [T[g_current] EXCEPT !.waiting = TRUE, !.wait_pid = pid, !.pc = "park"] \in Tasks
    BY <1>5 DEF Tasks, Places
  <2>2. atpark \in Tables
    BY <1>1, <1>4, <2>1 DEF Tables
  <2> QED
    BY <2>2 DEF CpuTyped
<1> HIDE DEF swept
<1>13. CASE WaitTurn(pid, nowait, FALSE)
  BY <1>13, <1>8, <1>9, <1>10, <1>11, Zenon DEF WaitTurn, T, swept
<1>14. CASE WaitTurn(pid, nowait, TRUE)
  BY <1>14, <1>8, <1>9, <1>10, <1>12, Zenon DEF WaitTurn, T, swept
<1> QED
  BY <1>13, <1>14

-----------------------------------------------------------------------------
(* Type correctness                                                        *)

\* Every user call keeps the table well typed.
LEMMA ForkType == ASSUME CpuTyped, Fork PROVE CpuTyped'
<1>1. PICK s \in Pids \ {kPid1} :
        \/ Return([purge_notes(g_tasks, s) EXCEPT
                     ![s] = [Cleared EXCEPT !.state = "ready", !.ppid = g_current]])
        \/ Return([purge_notes(g_tasks, s) EXCEPT ![s] = Cleared])
  BY DEF Fork
<1>2. purge_notes(g_tasks, s) \in Tables
  <2>1. \A q \in Pids : [g_tasks[q] EXCEPT !.done = {n \in @ : n.pid # s}] \in Tasks
    BY DEF CpuTyped, Tables, Tasks
  <2> QED
    BY <2>1 DEF purge_notes, Tables
<1>3. [Cleared EXCEPT !.state = "ready", !.ppid = g_current] \in Tasks
  <2>1. g_current \in 0 .. kMaxTask
    BY DEF CpuTyped, Pids
  <2> QED
    BY <2>1, ClearedType DEF Tasks, States
<1>4. /\ [purge_notes(g_tasks, s) EXCEPT
            ![s] = [Cleared EXCEPT !.state = "ready", !.ppid = g_current]] \in Tables
      /\ [purge_notes(g_tasks, s) EXCEPT ![s] = Cleared] \in Tables
  BY <1>2, <1>3, ClearedType DEF Tables
<1> QED
  BY <1>1, <1>4, ReturnType

\* A process that faults in user mode.
LEMMA FaultType == ASSUME CpuTyped, Fault PROVE CpuTyped'
<1> DEFINE hit == [g_tasks EXCEPT ![g_current].ending = kSigSegv,
                                  ![g_current].state = "killed"]
<1>1. [g_tasks[g_current] EXCEPT !.ending = kSigSegv, !.state = "killed"] \in Tasks
  BY MeType DEF Tasks, States, Codes, Signals
<1>2. hit \in Tables
  BY <1>1, MeType DEF CpuTyped, Tables
<1>3. PICK code \in ExitCodes : EndWith(hit, code)
  BY DEF Fault
<1> HIDE DEF hit
<1> QED
  BY <1>2, <1>3, EndWithType DEF Codes

\* kill(), of another process or of the caller.
LEMMA KillType == ASSUME CpuTyped, Kill PROVE CpuTyped'
<1>1. PICK p \in Pids, sig \in Raised :
        \/ EndWith(signal_task(g_tasks, p, sig), sig)
        \/ Return(signal_task(g_tasks, p, sig))
  BY DEF Kill
<1>2. sig \in Signals /\ sig \in Codes
  BY SignalAssumption DEF Signals, Codes
<1>3. signal_task(g_tasks, p, sig) \in Tables
  BY <1>2, SignalType, MeType
<1> QED
  BY <1>1, <1>2, <1>3, EndWithType, ReturnType

\* sigaction() and sigreturn().
LEMMA HandlerType == ASSUME CpuTyped, Sigaction \/ Sigreturn PROVE CpuTyped'
<1>1. \A sig \in Catchable :
        /\ [g_tasks EXCEPT ![g_current].sig_handlers = @ \cup {sig}] \in Tables
        /\ [g_tasks EXCEPT ![g_current].sig_handlers = @ \ {sig}] \in Tables
  <2>1. \A sig \in Catchable :
          /\ [g_tasks[g_current] EXCEPT !.sig_handlers = @ \cup {sig}] \in Tasks
          /\ [g_tasks[g_current] EXCEPT !.sig_handlers = @ \ {sig}] \in Tasks
    BY MeType DEF Tasks
  <2> QED
    BY <2>1, MeType DEF CpuTyped, Tables
<1>2. [g_tasks EXCEPT ![g_current].sig_active = kSigNone] \in Tables
  <2>1. [g_tasks[g_current] EXCEPT !.sig_active = kSigNone] \in Tasks
    BY MeType DEF Tasks
  <2> QED
    BY <2>1, MeType DEF CpuTyped, Tables
<1>3. CASE Sigaction
  BY <1>1, <1>3, ReturnType DEF Sigaction
<1>4. CASE Sigreturn
  BY <1>2, <1>4, ReturnType DEF Sigreturn
<1> QED
  BY <1>3, <1>4

\* exec::replace().
LEMMA ExecType == ASSUME CpuTyped, Exec PROVE CpuTyped'
<1>1. [g_tasks[g_current] EXCEPT !.sig_handlers = {}, !.sig_pending = kSigNone,
                                 !.sig_active = kSigNone, !.state = "running"] \in Tasks
  BY MeType DEF Tasks, States
<1> QED
  BY <1>1 DEF Exec, CpuTyped, Tables

\* wait_for back from block().
LEMMA WaitWakeType == ASSUME CpuTyped, WaitWake PROVE CpuTyped'
<1> DEFINE T == [g_tasks EXCEPT ![g_current].wake_pending = FALSE,
                                ![g_current].waiting = FALSE,
                                ![g_current].pc = "loop"]
<1>1. [g_tasks[g_current] EXCEPT !.wake_pending = FALSE, !.waiting = FALSE,
                                 !.pc = "loop"] \in Tasks
  BY MeType DEF Tasks, Places
<1>2. T \in Tables
  BY <1>1, MeType DEF CpuTyped, Tables
<1> QED
  BY <1>2, ReturnType DEF WaitWake, CpuTyped

\* wait_for about to call block() with interrupts on.
LEMMA WaitParkType == ASSUME CpuTyped, WaitPark PROVE CpuTyped'
<1>1. [g_tasks[g_current] EXCEPT !.pc = "wait"] \in Tasks
  BY MeType DEF Tasks, Places
<1>2. [g_tasks EXCEPT ![g_current].pc = "wait"] \in Tables
  BY <1>1, MeType DEF CpuTyped, Tables
<1> QED
  BY <1>2, BlockType DEF WaitPark

\* sleep_ticks() that finds a wake-up left over.
LEMMA SleepCutType == ASSUME CpuTyped, SleepCut PROVE CpuTyped'
<1>1. [g_tasks[g_current] EXCEPT !.wake_pending = FALSE, !.state = "running",
                                 !.sleep_until = 0] \in Tasks
  BY MeType DEF Tasks, States
<1>2. [g_tasks EXCEPT ![g_current].wake_pending = FALSE,
                      ![g_current].state = "running",
                      ![g_current].sleep_until = 0] \in Tables
  BY <1>1, MeType DEF CpuTyped, Tables
<1> QED
  BY <1>2, ReturnType DEF SleepCut

\* sleep_ticks() up to block().
LEMMA SleepType == ASSUME CpuTyped, g_ticks \in 0 .. (TickWord - 1), Sleep PROVE CpuTyped'
<1>1. PICK n \in 0 .. MaxSleep :
        \/ Return(g_tasks)
        \/ block([g_tasks EXCEPT ![g_current].sleep_until = (g_ticks + n) % TickWord,
                                 ![g_current].pc = "sleep"], FALSE)
  BY DEF Sleep
<1>2. (g_ticks + n) % TickWord \in Nat
  BY TickAssumption
<1>3. [g_tasks[g_current] EXCEPT !.sleep_until = (g_ticks + n) % TickWord,
                                 !.pc = "sleep"] \in Tasks
  BY <1>2, MeType DEF Tasks, Places
<1>4. [g_tasks EXCEPT ![g_current].sleep_until = (g_ticks + n) % TickWord,
                      ![g_current].pc = "sleep"] \in Tables
  BY <1>3, MeType DEF CpuTyped, Tables
<1> QED
  BY <1>1, <1>4, ReturnType, BlockType, MeType

\* sleep_ticks() back from block().
LEMMA SleepWakeType == ASSUME CpuTyped, SleepWake PROVE CpuTyped'
<1>1. [g_tasks[g_current] EXCEPT !.wake_pending = FALSE, !.sleep_until = 0] \in Tasks
  BY MeType DEF Tasks
<1>2. [g_tasks EXCEPT ![g_current].wake_pending = FALSE,
                      ![g_current].sleep_until = 0] \in Tables
  BY <1>1, MeType DEF CpuTyped, Tables
<1> QED
  BY <1>2, ReturnType DEF SleepWake

\* Whatever happens, the table, the CPU and the clock stay well typed.
LEMMA NextType == ASSUME TypeOK, [Next]_vars PROVE TypeOK'
<1>1. CpuTyped /\ g_ticks \in 0 .. (TickWord - 1)
  BY DEF TypeOK, CpuTyped, Tables
<1>2. SUFFICES CpuTyped' /\ g_ticks' \in 0 .. (TickWord - 1)
  BY DEF TypeOK, CpuTyped, Tables
<1>3. CASE Tick \/ TickInterrupt
  <2>1. g_ticks' \in 0 .. (TickWord - 1)
    BY <1>1, <1>3, TickAssumption DEF Tick, TickInterrupt
  <2>2. on_tick(g_tasks, g_ticks') \in Tables
    BY <1>1, TickType, MeType
  <2>3. \A p \in Interrupted :
          signal_task(on_tick(g_tasks, g_ticks'), p, kSigInt) \in Tables
    BY <2>2, SignalType, TickAssumption DEF Signals
  <2>4. \A S : Woke(on_tick(g_tasks, g_ticks'), S) \in Tables
    BY <2>2, WokeType
  <2>5. \A p \in Interrupted : \A S :
          Woke(signal_task(on_tick(g_tasks, g_ticks'), p, kSigInt), S) \in Tables
    BY <2>3, WokeType
  <2> QED
    BY <1>1, <1>3, <2>1, <2>4, <2>5, PreemptType DEF Tick, TickInterrupt
<1>4. CASE IdlePick \/ IdleSwitch
  <2>1. Pids \subseteq 0 .. kMaxTask /\ 0 \in 0 .. kMaxTask
        /\ \A i \in 0 .. kMaxTask : i # 0 => i \in Pids
    BY TableAssumption DEF Pids
  <2>2. CASE IdlePick
    BY <1>1, <2>1, <2>2 DEF IdlePick, CpuTyped
  <2>3. CASE IdleSwitch
    <3>1. switch_to(g_tasks, picked) \in Tables
      BY <1>1, SwitchType, MeType
    <3> QED
      BY <1>1, <2>1, <2>3, <3>1 DEF IdleSwitch, CpuTyped
  <2> QED
    BY <1>4, <2>2, <2>3
<1>5. CASE Exit
  BY <1>1, <1>5, EndWithType, MeType DEF Exit, Codes
<1>6. CASE Wait \/ WaitAgain
  <2>1. g_tasks[g_current].wait_pid \in 0 .. kMaxTask
    BY <1>1, MeType DEF Tasks
  <2> QED
    BY <1>1, <1>6, <2>1, WaitTurnType DEF Wait, WaitAgain, Me
<1>7. CASE Halt \/ UNCHANGED vars
  BY <1>1, <1>7 DEF Halt, vars, CpuTyped
<1>8. CASE Fork \/ Fault \/ Kill \/ Sigaction \/ Sigreturn \/ Exec
  <2>1. g_ticks' = g_ticks
    BY <1>8 DEF Fork, Fault, Kill, Sigaction, Sigreturn, Exec
  <2> QED
    BY <1>1, <1>8, <2>1, ForkType, FaultType, KillType, HandlerType, ExecType
<1>9. CASE WaitWake \/ WaitPark \/ Sleep \/ SleepCut \/ SleepWake
  <2>1. g_ticks' = g_ticks
    BY <1>9 DEF WaitWake, WaitPark, Sleep, SleepCut, SleepWake
  <2> QED
    BY <1>1, <1>9, <2>1, WaitWakeType, WaitParkType, SleepType, SleepCutType, SleepWakeType
<1>10. CASE Wake
  <2>1. \A S : Woke(g_tasks, S) \in Tables
    BY <1>1, WokeType, MeType
  <2> QED
    BY <1>1, <1>10, <2>1 DEF Wake, CpuTyped
<1> QED
  BY <1>3, <1>4, <1>5, <1>6, <1>7, <1>8, <1>9, <1>10 DEF Next

\* Type correctness of the process table, for every number of slots.
THEOREM TypeCorrect == Spec => []TypeOK
<1>1. Init => TypeOK
  <2> SUFFICES ASSUME Init PROVE TypeOK
    OBVIOUS
  <2>1. [Cleared EXCEPT !.state = "running"] \in Tasks
    BY ClearedType DEF Tasks, States
  <2>2. kPid1 \in Pids /\ 0 \in 0 .. kMaxTask /\ 0 \in 0 .. (TickWord - 1)
    BY TableAssumption, TickAssumption DEF Pids, kPid1
  <2>3. g_tasks \in [Pids -> Tasks]
    BY <2>1, ClearedType DEF Init
  <2> QED
    BY <2>2, <2>3 DEF Init, TypeOK
<1> QED
  BY <1>1, NextType, PTL DEF Spec

-----------------------------------------------------------------------------
(* Whoever is on the CPU is not asleep, unless the CPU is idle on its      *)
(* stack: only block() puts anybody to sleep, and it gives the CPU away.   *)

Afoot == idle \/ panicked \/ g_tasks[g_current].state # "blocked"

\* Waking a process puts nobody to sleep.
LEMMA UnblockRouses ==
  ASSUME NEW t \in Tasks
  PROVE  Unblock(t).state # "blocked"
  BY DEF Unblock, Tasks, States

\* Nor does telling a parent of its children.
LEMMA HearRouses ==
  ASSUME NEW t \in Tasks, NEW T \in Tables, NEW kids \in SUBSET Pids,
         t.state # "blocked"
  PROVE  Hear(t, T, kids).state # "blocked"
<1> DEFINE room(c) == Cardinality(t.done) + Cardinality({d \in kids : d < c}) < kMaxTask
           heard == {c \in kids : room(c)}
           told == [t EXCEPT !.done = @ \cup {Note(T, c) : c \in heard}]
<1> HIDE DEF heard
<1>1. told.state = t.state
  BY DEF Tasks
<1>2. Unblock(told).state # "blocked"
  BY <1>1 DEF Unblock, Tasks, States
<1>3. Hear(t, T, kids) \in {told, Unblock(told)}
  BY DEF Hear, heard
<1> HIDE DEF told
<1> QED
  BY <1>1, <1>2, <1>3

\* Nor reap().
LEMMA ReapRouses ==
  ASSUME NEW T \in Tables, NEW q \in Pids, T[q].state # "blocked"
  PROVE  reap(T)[q].state # "blocked"
<1> DEFINE told == Hear(T[q], T, KilledKids(T, q))
<1>1. told \in Tasks /\ told.state # "blocked"
  BY HearType, HearRouses DEF KilledKids, Tables
<1> HIDE DEF told
<1>2. [told EXCEPT !.state = "zombie"].state # "blocked" /\ Cleared.state # "blocked"
  BY <1>1 DEF Tasks, Cleared
<1>3. reap(T)[q] \in {T[q], Cleared, told, [told EXCEPT !.state = "zombie"]}
  BY DEF reap, told
<1> QED
  BY <1>1, <1>2, <1>3

\* Nor a signal.
LEMMA SignalRouses ==
  ASSUME NEW T \in Tables, NEW p \in Pids, NEW sig, NEW q \in Pids,
         T[q].state # "blocked"
  PROVE  signal_task(T, p, sig)[q].state # "blocked"
<1> DEFINE t == [T[q] EXCEPT !.sig_pending = sig]
           k == [T[q] EXCEPT !.ending = sig, !.state = "killed"]
<1>1. T[q] \in Tasks
  BY DEF Tables
<1>2. t.state = T[q].state /\ k.state = "killed"
  BY <1>1 DEF Tasks
<1>3. signal_task(T, p, sig)[q] \in {T[q], k, t}
  BY <1>2 DEF signal_task, Tables
<1> HIDE DEF t, k
<1> QED
  BY <1>2, <1>3

\* Nor the timer, nor the keyboard and the pipes.
LEMMA TickRouses ==
  ASSUME NEW T \in Tables, NEW now, NEW q \in Pids, T[q].state # "blocked"
  PROVE  on_tick(T, now)[q].state # "blocked"
  BY DEF on_tick

LEMMA WokeRouses ==
  ASSUME NEW T \in Tables, NEW S, NEW q \in Pids, T[q].state # "blocked"
  PROVE  Woke(T, S)[q].state # "blocked"
  BY UnblockRouses DEF Woke, Tables

\* The process switch_to() moves to runs.
LEMMA SwitchRuns ==
  ASSUME NEW T \in Tables, NEW to \in Pids
  PROVE  switch_to(T, to)[to].state = "running"
<1> DEFINE t == [T[to] EXCEPT !.state = "running", !.quantum = kQuantum]
<1>1. t.state = "running" /\ deliver_pending(t).state = "running"
  BY DEF deliver_pending, Tasks, Tables
<1>2. switch_to(T, to)[to] \in {t, deliver_pending(t)}
  BY DEF switch_to
<1> HIDE DEF t
<1> QED
  BY <1>1, <1>2

\* Each way a handler ends keeps Afoot.
LEMMA ReturnAfoot ==
  ASSUME CpuTyped, NEW T \in Tables, T[g_current].state # "blocked", Return(T)
  PROVE  Afoot'
<1> DEFINE t == [T[g_current] EXCEPT !.pc = "user", !.wait_pid = 0]
<1>1. deliver_pending(t).state = T[g_current].state
  BY DEF CpuTyped, Tables, Tasks, deliver_pending
<1>2. g_tasks'[g_current] = deliver_pending(t) /\ g_current' = g_current
  BY DEF Return, CpuTyped, Tables
<1> HIDE DEF t
<1> QED
  BY <1>1, <1>2 DEF Afoot

LEMMA SuspendAfoot ==
  ASSUME CpuTyped, NEW T \in Tables, Suspend(T) \/ SuspendOpen(T)
  PROVE  Afoot'
<1>1. \A to \in Pids : switch_to(reap(T), to)[to].state = "running"
  BY ReapType, SwitchRuns
<1> QED
  BY <1>1 DEF Suspend, SuspendOpen, Panic, Afoot

LEMMA EndWithAfoot ==
  ASSUME CpuTyped, NEW T \in Tables, NEW code \in Codes, EndWith(T, code)
  PROVE  Afoot'
<1> DEFINE me == T[g_current]
           gone == [T EXCEPT ![g_current].ending = IF T[g_current].state = "killed"
                                                   THEN @ ELSE code,
                             ![g_current].state = "zombie",
                             ![g_current].pc = "exit"]
<1>1. g_current \in Pids /\ me \in Tasks
  BY DEF CpuTyped, Tables
<1>2. [me EXCEPT !.ending = IF me.state = "killed" THEN @ ELSE code,
                 !.state = "zombie", !.pc = "exit"] \in Tasks
  BY <1>1 DEF Tasks, States, Places
<1>3. gone \in Tables
  BY <1>1, <1>2 DEF Tables
<1>4. announce(gone, g_current) \in Tables
  BY <1>1, <1>3, AnnounceType
<1> HIDE DEF gone
<1> QED
  BY <1>4, SuspendAfoot DEF EndWith, gone

LEMMA BlockAfoot ==
  ASSUME CpuTyped, NEW T \in Tables, block(T, FALSE) \/ block(T, TRUE)
  PROVE  Afoot'
<1>1. g_current \in Pids /\ T[g_current] \in Tasks
  BY DEF CpuTyped, Tables
<1>2. [T[g_current] EXCEPT !.state = "blocked"] \in Tasks
  BY <1>1 DEF Tasks, States
<1>3. [T EXCEPT ![g_current].state = "blocked"] \in Tables
  BY <1>1, <1>2 DEF Tables
<1>4. [T EXCEPT ![g_current].wake_pending = FALSE,
                ![g_current].state = "running"][g_current].state = "running"
  BY <1>1 DEF Tables, Tasks
<1> QED
  BY <1>3, <1>4, SuspendAfoot DEF block, schedule, Afoot

LEMMA PreemptAfoot ==
  ASSUME CpuTyped, NEW T \in Tables, idle \/ T[g_current].state # "blocked", preempt(T)
  PROVE  Afoot'
<1> DEFINE t == T[g_current]
           left == IF t.quantum = 0 THEN 0 ELSE t.quantum - 1
           spent == IF t.state \in Dead THEN T ELSE [T EXCEPT ![g_current].quantum = left]
<1>1. g_current \in Pids /\ t \in Tasks
  BY DEF CpuTyped, Tables
<1>2. left \in 0 .. kQuantum
  BY <1>1, TableAssumption DEF Tasks
<1>3. [t EXCEPT !.quantum = left] \in Tasks
  BY <1>1, <1>2 DEF Tasks
<1>4. spent \in Tables /\ spent[g_current].state = t.state
  BY <1>1, <1>3 DEF Tables, Tasks
<1>5. t.state # "blocked" => reap(spent)[g_current].state # "blocked"
  BY <1>1, <1>4, ReapRouses
<1>6. \A to \in Pids : switch_to(reap(spent), to)[to].state = "running"
  BY <1>4, ReapType, SwitchRuns
<1> HIDE DEF spent, left
<1> QED
  BY <1>4, <1>5, <1>6 DEF preempt, Panic, Afoot, spent, left

LEMMA WaitTurnAfoot ==
  ASSUME CpuTyped, g_tasks[g_current].state # "blocked",
         NEW pid \in 0 .. kMaxTask, NEW nowait \in BOOLEAN,
         WaitTurn(pid, nowait, FALSE) \/ WaitTurn(pid, nowait, TRUE)
  PROVE  Afoot'
<1> DEFINE swept == [g_tasks EXCEPT ![g_current].wake_pending = FALSE]
           T == reap(swept)
<1>1. g_current \in Pids /\ g_tasks[g_current] \in Tasks /\ g_tasks \in Tables
  BY MeType DEF CpuTyped
<1>2. [g_tasks[g_current] EXCEPT !.wake_pending = FALSE] \in Tasks
  BY <1>1 DEF Tasks
<1>3. swept \in Tables /\ swept[g_current].state # "blocked"
  BY <1>1, <1>2 DEF Tables, Tasks
<1>4. T \in Tables /\ T[g_current].state # "blocked"
  BY <1>1, <1>3, ReapType, ReapRouses
<1> HIDE DEF T
<1>5. T[g_current] \in Tasks
  BY <1>1, <1>4 DEF Tables
<1> DEFINE taken(n) == [T EXCEPT ![g_current].done = @ \ {n}]
           parked == [T EXCEPT ![g_current].waiting = TRUE, ![g_current].wait_pid = pid,
                               ![g_current].pc = "wait"]
           atpark == [T EXCEPT ![g_current].waiting = TRUE, ![g_current].wait_pid = pid,
                               ![g_current].pc = "park"]
<1>6. \A n : taken(n) \in Tables /\ taken(n)[g_current].state # "blocked"
  <2>1. \A n : [T[g_current] EXCEPT !.done = @ \ {n}] \in Tasks
    BY <1>5 DEF Tasks
  <2> QED
    BY <1>1, <1>4, <1>5, <2>1 DEF Tables, Tasks
<1>7. parked \in Tables
  <2>1. [T[g_current] EXCEPT !.waiting = TRUE, !.wait_pid = pid, !.pc = "wait"] \in Tasks
    BY <1>5 DEF Tasks, Places
  <2> QED
    BY <1>1, <1>4, <2>1 DEF Tables
<1>8. atpark[g_current].state # "blocked"
  BY <1>1, <1>4, <1>5 DEF Tables, Tasks
<1>9. Panic(swept) => Afoot'
  BY DEF Panic, Afoot
<1> HIDE DEF taken
<1>10. \A n : Return(taken(n)) => Afoot'
  BY <1>6, ReturnAfoot
<1>11. Return(T) => Afoot'
  BY <1>4, ReturnAfoot
<1> HIDE DEF parked, atpark
<1>12. block(parked, FALSE) => Afoot'
  BY <1>7, BlockAfoot
<1>13. g_tasks' = atpark /\ g_current' = g_current => Afoot'
  BY <1>8 DEF Afoot
<1> HIDE DEF swept
<1>14. CASE WaitTurn(pid, nowait, FALSE)
  BY <1>14, <1>9, <1>10, <1>11, <1>12, Zenon DEF WaitTurn, T, swept, taken, parked
<1>15. CASE WaitTurn(pid, nowait, TRUE)
  BY <1>15, <1>9, <1>10, <1>11, <1>13, Zenon DEF WaitTurn, T, swept, taken, atpark
<1> QED
  BY <1>14, <1>15

LEMMA ForkAfoot == ASSUME CpuTyped, g_tasks[g_current].state # "blocked", Fork
                   PROVE  Afoot'
<1> DEFINE born == [Cleared EXCEPT !.state = "ready", !.ppid = g_current]
<1>1. PICK s \in Pids \ {kPid1} :
        \/ Return([purge_notes(g_tasks, s) EXCEPT ![s] = born])
        \/ Return([purge_notes(g_tasks, s) EXCEPT ![s] = Cleared])
  BY DEF Fork
<1>2. \A q \in Pids : /\ purge_notes(g_tasks, s)[q] \in Tasks
                       /\ purge_notes(g_tasks, s)[q].state = g_tasks[q].state
  BY DEF purge_notes, CpuTyped, Tables, Tasks
<1>3. purge_notes(g_tasks, s) \in Tables
  BY <1>2 DEF purge_notes, Tables
<1>4. g_current \in 0 .. kMaxTask /\ g_current \in Pids
  BY DEF CpuTyped, Pids
<1>5. born \in Tasks /\ born.state # "blocked" /\ Cleared.state # "blocked"
  <2>1. born \in Tasks
    BY <1>4, ClearedType DEF Tasks, States
  <2> QED
    BY <2>1 DEF Cleared
<1> HIDE DEF born
<1>6. ASSUME NEW t \in Tasks, t.state # "blocked"
      PROVE  LET N == [purge_notes(g_tasks, s) EXCEPT ![s] = t]
             IN  N \in Tables /\ N[g_current].state # "blocked"
  BY <1>2, <1>3, <1>4, <1>6 DEF Tables
<1> QED
  BY <1>1, <1>5, <1>6, ClearedType, ReturnAfoot

\* Every step keeps the process on the CPU awake.
LEMMA NextAfoot == ASSUME TypeOK, Afoot, [Next]_vars PROVE Afoot'
<1>1. CpuTyped /\ g_tasks \in Tables /\ g_current \in Pids
  BY DEF TypeOK, CpuTyped, Tables
<1> DEFINE me == g_tasks[g_current]
<1>2. me \in Tasks
  BY <1>1 DEF Tables
<1>3. InUser \/ (\E place \in Places : InKernel(place)) => me.state # "blocked"
  BY DEF InUser, InKernel, Afoot
<1>4. ASSUME NEW t \in Tasks, t.state # "blocked"
      PROVE  LET N == [g_tasks EXCEPT ![g_current] = t]
             IN  N \in Tables /\ N[g_current].state # "blocked"
  BY <1>1, <1>4 DEF Tables
<1>5. CASE Fork
  BY <1>1, <1>3, <1>5, ForkAfoot DEF Fork
<1>6. CASE Exit
  BY <1>1, <1>6, EndWithAfoot DEF Exit, Codes
<1>7. CASE Fault
  <2> DEFINE hit == [g_tasks EXCEPT ![g_current].ending = kSigSegv,
                                    ![g_current].state = "killed"]
  <2>1. [me EXCEPT !.ending = kSigSegv, !.state = "killed"] \in Tasks
    BY <1>2 DEF Tasks, States, Codes, Signals
  <2>2. hit \in Tables
    BY <1>1, <2>1 DEF Tables
  <2>3. PICK code \in ExitCodes : EndWith(hit, code)
    BY <1>7 DEF Fault
  <2> HIDE DEF hit
  <2> QED
    BY <1>1, <2>2, <2>3, EndWithAfoot DEF Codes
<1>8. CASE Kill
  <2>1. PICK p \in Pids, sig \in Raised :
          \/ EndWith(signal_task(g_tasks, p, sig), sig)
          \/ Return(signal_task(g_tasks, p, sig))
    BY <1>8 DEF Kill
  <2>2. sig \in Signals /\ sig \in Codes
    BY SignalAssumption DEF Signals, Codes
  <2>3. signal_task(g_tasks, p, sig) \in Tables
    BY <1>1, <2>2, SignalType
  <2>4. signal_task(g_tasks, p, sig)[g_current].state # "blocked"
    BY <1>1, <1>3, <1>8, SignalRouses DEF Kill
  <2> QED
    BY <1>1, <2>1, <2>2, <2>3, <2>4, EndWithAfoot, ReturnAfoot
<1>9. CASE Sigaction
  <2>1. PICK h \in SUBSET Catchable :
          Return([g_tasks EXCEPT ![g_current].sig_handlers = h])
    <3>1. PICK sig \in Catchable :
            \/ Return([g_tasks EXCEPT ![g_current].sig_handlers = @ \cup {sig}])
            \/ Return([g_tasks EXCEPT ![g_current].sig_handlers = @ \ {sig}])
      BY <1>9 DEF Sigaction
    <3>2. me.sig_handlers \cup {sig} \in SUBSET Catchable
          /\ me.sig_handlers \ {sig} \in SUBSET Catchable
      BY <1>2 DEF Tasks
    <3> QED
      BY <3>1, <3>2
  <2> DEFINE t == [me EXCEPT !.sig_handlers = h]
  <2>2. t \in Tasks /\ t.state # "blocked"
    BY <1>2, <1>3, <1>9 DEF Tasks, Sigaction
  <2>3. [g_tasks EXCEPT ![g_current].sig_handlers = h] = [g_tasks EXCEPT ![g_current] = t]
    BY <1>1 DEF Tables
  <2> HIDE DEF t
  <2> QED
    BY <1>1, <1>4, <2>1, <2>2, <2>3, ReturnAfoot
<1>10. CASE Sigreturn
  <2> DEFINE t == [me EXCEPT !.sig_active = kSigNone]
  <2>1. t \in Tasks /\ t.state # "blocked"
    BY <1>2, <1>3, <1>10 DEF Tasks, Sigreturn
  <2>2. [g_tasks EXCEPT ![g_current].sig_active = kSigNone] = [g_tasks EXCEPT ![g_current] = t]
    BY <1>1 DEF Tables
  <2> HIDE DEF t
  <2> QED
    BY <1>1, <1>4, <1>10, <2>1, <2>2, ReturnAfoot DEF Sigreturn
<1>11. CASE Exec
  BY <1>1, <1>2, <1>11 DEF Exec, Afoot, Tables, Tasks
<1>12. CASE Wait \/ WaitAgain
  <2>1. me.wait_pid \in 0 .. kMaxTask /\ me.state # "blocked"
    BY <1>2, <1>3, <1>12 DEF Tasks, Wait, WaitAgain, Places
  <2> QED
    BY <1>1, <1>12, <2>1, WaitTurnAfoot DEF Wait, WaitAgain, Me
<1>13. CASE WaitWake
  <2> DEFINE t == [me EXCEPT !.wake_pending = FALSE, !.waiting = FALSE, !.pc = "loop"]
             T == [g_tasks EXCEPT ![g_current].wake_pending = FALSE,
                                  ![g_current].waiting = FALSE,
                                  ![g_current].pc = "loop"]
  <2>1. t \in Tasks /\ t.state # "blocked"
    BY <1>2, <1>3, <1>13 DEF Tasks, Places, WaitWake
  <2>2. T = [g_tasks EXCEPT ![g_current] = t]
    BY <1>1 DEF Tables
  <2>3. T \in Tables /\ T[g_current].state # "blocked"
    BY <1>4, <2>1, <2>2
  <2> QED
    BY <1>1, <1>13, <2>3, ReturnAfoot DEF WaitWake, Afoot
<1>14. CASE WaitPark
  <2>1. [me EXCEPT !.pc = "wait"] \in Tasks
    BY <1>2 DEF Tasks, Places
  <2>2. [g_tasks EXCEPT ![g_current].pc = "wait"] \in Tables
    BY <1>1, <2>1 DEF Tables
  <2> QED
    BY <1>1, <1>14, <2>2, BlockAfoot DEF WaitPark
<1>15. CASE Sleep
  <2>1. PICK n \in 0 .. MaxSleep :
          \/ Return(g_tasks)
          \/ block([g_tasks EXCEPT ![g_current].sleep_until = (g_ticks + n) % TickWord,
                                   ![g_current].pc = "sleep"], FALSE)
    BY <1>15 DEF Sleep
  <2> DEFINE T == [g_tasks EXCEPT ![g_current].sleep_until = (g_ticks + n) % TickWord,
                                  ![g_current].pc = "sleep"]
  <2>2. (g_ticks + n) % TickWord \in Nat
    BY TickAssumption DEF TypeOK
  <2>3. [me EXCEPT !.sleep_until = (g_ticks + n) % TickWord, !.pc = "sleep"] \in Tasks
    BY <1>2, <2>2 DEF Tasks, Places
  <2>4. T \in Tables
    BY <1>1, <2>3 DEF Tables
  <2> HIDE DEF T
  <2>5. block(T, FALSE) => Afoot'
    BY <1>1, <2>4, BlockAfoot
  <2>6. Return(g_tasks) => Afoot'
    BY <1>1, <1>3, <1>15, ReturnAfoot DEF Sleep
  <2> QED
    BY <2>1, <2>5, <2>6 DEF T
<1>16. CASE SleepCut
  <2> DEFINE t == [me EXCEPT !.wake_pending = FALSE, !.state = "running", !.sleep_until = 0]
  <2>1. t \in Tasks /\ t.state # "blocked"
    BY <1>2 DEF Tasks, States
  <2>2. [g_tasks EXCEPT ![g_current].wake_pending = FALSE, ![g_current].state = "running",
                        ![g_current].sleep_until = 0] = [g_tasks EXCEPT ![g_current] = t]
    BY <1>1 DEF Tables
  <2> HIDE DEF t
  <2> QED
    BY <1>1, <1>4, <1>16, <2>1, <2>2, ReturnAfoot DEF SleepCut
<1>17. CASE SleepWake
  <2> DEFINE t == [me EXCEPT !.wake_pending = FALSE, !.sleep_until = 0]
  <2>1. t \in Tasks /\ t.state # "blocked"
    BY <1>2, <1>3, <1>17 DEF Tasks, SleepWake, Places
  <2>2. [g_tasks EXCEPT ![g_current].wake_pending = FALSE, ![g_current].sleep_until = 0]
          = [g_tasks EXCEPT ![g_current] = t]
    BY <1>1 DEF Tables
  <2> HIDE DEF t
  <2> QED
    BY <1>1, <1>4, <1>17, <2>1, <2>2, ReturnAfoot DEF SleepWake
<1>18. CASE Tick \/ TickInterrupt
  <2> DEFINE rung == on_tick(g_tasks, g_ticks')
  <2>1. idle \/ me.state # "blocked"
    BY <1>18 DEF Tick, TickInterrupt, Afoot
  <2>2. rung \in Tables /\ (idle \/ rung[g_current].state # "blocked")
    BY <1>1, <2>1, TickType, TickRouses
  <2> HIDE DEF rung
  <2>3. \A p \in Interrupted :
          /\ signal_task(rung, p, kSigInt) \in Tables
          /\ idle \/ signal_task(rung, p, kSigInt)[g_current].state # "blocked"
    BY <1>1, <2>2, SignalType, SignalRouses, TickAssumption DEF Signals
  <2>4. \A S : /\ Woke(rung, S) \in Tables
               /\ idle \/ Woke(rung, S)[g_current].state # "blocked"
    BY <1>1, <2>2, WokeType, WokeRouses
  <2>5. \A p \in Interrupted : \A S :
          /\ Woke(signal_task(rung, p, kSigInt), S) \in Tables
          /\ idle \/ Woke(signal_task(rung, p, kSigInt), S)[g_current].state # "blocked"
    BY <1>1, <2>3, WokeType, WokeRouses
  <2> QED
    BY <1>1, <1>18, <2>4, <2>5, PreemptAfoot DEF Tick, TickInterrupt, rung
<1>19. CASE Wake
  <2>1. PICK S \in SUBSET Woken : g_tasks' = Woke(g_tasks, S)
    BY <1>19 DEF Wake
  <2>2. idle' = idle /\ panicked' = panicked /\ g_current' = g_current
    BY <1>19 DEF Wake
  <2> QED
    BY <1>1, <2>1, <2>2, WokeRouses DEF Afoot
<1>20. CASE IdlePick
  BY <1>20 DEF IdlePick, Afoot
<1>21. CASE IdleSwitch
  <2>1. picked \in Pids
    BY <1>21, TableAssumption DEF IdleSwitch, TypeOK, Pids
  <2> QED
    BY <1>1, <1>21, <2>1, SwitchRuns DEF IdleSwitch, Afoot
<1>22. CASE Halt \/ UNCHANGED vars
  BY <1>22 DEF Halt, vars, Afoot
<1> QED
  BY <1>5, <1>6, <1>7, <1>8, <1>9, <1>10, <1>11, <1>12, <1>13, <1>14, <1>15, <1>16,
     <1>17, <1>18, <1>19, <1>20, <1>21, <1>22 DEF Next

-----------------------------------------------------------------------------
(* Who runs, and who waits.  NoMissedExit alone is not inductive: hearing  *)
(* of a child wakes a parked parent only because `waiting' is set whenever *)
(* it is parked, which the invariant adds, and one that hears of it after  *)
(* take_done and before block() has a wake-up that block() will find.      *)

Settled(t) ==
  /\ t.state = "blocked" /\ t.pc = "wait" => t.waiting /\ NoMatch(t.done, t.wait_pid)
  /\ t.pc = "park" => /\ t.state # "blocked" /\ t.waiting
                      /\ t.wake_pending \/ NoMatch(t.done, t.wait_pid)
Sound(T, c) ==
  \A p \in Pids : Settled(T[p]) /\ (T[p].state = "running" => p = c)

\* A process that is not parked, nor about to be, is settled.
LEMMA AwakeSettled ==
  ASSUME NEW t, t.pc \notin {"wait", "park"} \/ (t.pc = "wait" /\ t.state # "blocked")
  PROVE  Settled(t)
  BY DEF Settled

\* So is one that was, if it is not asleep and has lost no wake-up.
Stirred(t, u) ==
  /\ u.pc = t.pc /\ u.waiting = t.waiting /\ u.wait_pid = t.wait_pid
  /\ u.done = t.done
  /\ t.wake_pending => u.wake_pending
  /\ u.state # "blocked"

LEMMA StirredSettled ==
  ASSUME NEW t, NEW u, Settled(t), Stirred(t, u)
  PROVE  Settled(u)
  BY DEF Settled, Stirred

\* Waking somebody without telling him anything.
LEMMA UnblockStirs ==
  ASSUME NEW t \in Tasks
  PROVE  /\ Stirred(t, Unblock(t))
         /\ Unblock(t).state = "running" => t.state = "running"
  BY DEF Stirred, Unblock, Tasks, States

\* Hearing of a child wakes whoever is parked, and puts nobody on the CPU.
LEMMA HearSettled ==
  ASSUME NEW t \in Tasks, NEW T \in Tables, NEW kids \in SUBSET Pids, Settled(t)
  PROVE  /\ Settled(Hear(t, T, kids))
         /\ Hear(t, T, kids).state = "running" => t.state = "running"
<1> DEFINE room(c) == Cardinality(t.done) + Cardinality({d \in kids : d < c}) < kMaxTask
           heard == {c \in kids : room(c)}
           told == [t EXCEPT !.done = @ \cup {Note(T, c) : c \in heard}]
<1>1. CASE heard = {}
  <2>1. told = t
    BY <1>1 DEF Tasks
  <2>2. Hear(t, T, kids) = told
    BY <1>1 DEF Hear
  <2> QED
    BY <2>1, <2>2
<1>2. CASE heard # {}
  <2> HIDE DEF heard
  <2>1. /\ told.state = t.state /\ told.pc = t.pc /\ told.waiting = t.waiting
    BY DEF Tasks
  <2>2. Hear(t, T, kids) = IF t.waiting THEN Unblock(told) ELSE told
    BY <1>2 DEF Hear, heard
  <2>3. /\ Unblock(told).state # "blocked"
        /\ Unblock(told).state = "running" => told.state = "running"
        /\ Unblock(told).pc = told.pc /\ Unblock(told).waiting = told.waiting
        /\ told.state # "blocked" => Unblock(told).wake_pending
    BY <2>1 DEF Unblock, Tasks, States
  <2>4. CASE t.waiting
    <3>1. Settled(Unblock(told))
      BY <2>1, <2>3, <2>4 DEF Settled
    <3> QED
      BY <2>1, <2>2, <2>3, <2>4, <3>1
  <2>5. CASE ~t.waiting
    BY <2>1, <2>2, <2>5 DEF Settled
  <2> QED
    BY <2>4, <2>5
<1> QED
  BY <1>1, <1>2

\* A parent that is told of an end is woken if it waits: announce() keeps Sound.
LEMMA AnnounceSound ==
  ASSUME NEW T \in Tables, NEW p \in Pids, NEW c, Sound(T, c)
  PROVE  Sound(announce(T, p), c)
<1>1. SUFFICES ASSUME NEW q \in Pids
               PROVE  /\ Settled(announce(T, p)[q])
                      /\ announce(T, p)[q].state = "running" => q = c
  BY DEF Sound
<1>2. Settled(T[q]) /\ T[q] \in Tasks /\ (T[q].state = "running" => q = c)
  BY DEF Sound, Tables
<1>3. /\ Settled(Hear(T[q], T, {p}))
      /\ Hear(T[q], T, {p}).state = "running" => T[q].state = "running"
  BY <1>2, HearSettled
<1> QED
  BY <1>2, <1>3 DEF announce

\* reap() tells the parents of the killed, gives back only the dead, and keeps Sound.
LEMMA ReapSound ==
  ASSUME NEW T \in Tables, NEW c, Sound(T, c)
  PROVE  Sound(reap(T), c)
<1>1. SUFFICES ASSUME NEW q \in Pids
               PROVE  Settled(reap(T)[q]) /\ (reap(T)[q].state = "running" => q = c)
  BY DEF Sound
<1> DEFINE told == Hear(T[q], T, KilledKids(T, q))
           ended == [told EXCEPT !.state = "zombie"]
<1>2. Settled(T[q]) /\ T[q] \in Tasks /\ (T[q].state = "running" => q = c)
  BY DEF Sound, Tables
<1>3. Settled(told) /\ (told.state = "running" => T[q].state = "running") /\ told \in Tasks
  BY <1>2, HearSettled, HearType DEF KilledKids
<1> HIDE DEF told
<1>4. ended.state = "zombie" /\ Settled(ended)
  <2>1. ended.state = "zombie" /\ Stirred(told, ended)
    BY <1>3 DEF Tasks, Stirred
  <2> QED
    BY <1>3, <2>1, StirredSettled
<1>5. Cleared.state = "free" /\ Settled(Cleared)
  BY AwakeSettled DEF Cleared
<1>6. reap(T)[q] \in {T[q], Cleared, told, ended}
  BY DEF reap, told
<1> HIDE DEF ended
<1> QED
  BY <1>2, <1>3, <1>4, <1>5, <1>6

\* switch_to() moves kRunning along with the CPU and keeps Sound.
LEMMA SwitchSound ==
  ASSUME NEW T \in Tables, NEW to \in Pids, Sound(T, g_current)
  PROVE  Sound(switch_to(T, to), to)
<1>1. SUFFICES ASSUME NEW p \in Pids
               PROVE  /\ Settled(switch_to(T, to)[p])
                      /\ switch_to(T, to)[p].state = "running" => p = to
  BY DEF Sound
<1>2. /\ Settled(T[p]) /\ T[p] \in Tasks
      /\ T[p].state = "running" => p = g_current
  BY DEF Sound, Tables
<1>3. CASE p = to
  <2> DEFINE t == [T[p] EXCEPT !.state = "running", !.quantum = kQuantum]
  <2>1. t.state = "running" /\ deliver_pending(t).state = "running"
    BY <1>2 DEF deliver_pending, Tasks
  <2>2. switch_to(T, to)[p] \in {t, deliver_pending(t)}
    BY <1>3 DEF switch_to
  <2>3. Stirred(T[p], t) /\ Stirred(T[p], deliver_pending(t))
    BY <1>2, <2>1 DEF deliver_pending, Tasks, Stirred
  <2> HIDE DEF t
  <2> QED
    BY <1>2, <1>3, <2>1, <2>2, <2>3, StirredSettled
<1>4. CASE p # to /\ p = g_current /\ T[p].state = "running"
  <2>1. switch_to(T, to)[p] = [T[p] EXCEPT !.state = "ready"]
    BY <1>4 DEF switch_to
  <2>2. switch_to(T, to)[p].state = "ready" /\ Stirred(T[p], switch_to(T, to)[p])
    BY <1>2, <2>1 DEF Tasks, Stirred
  <2> QED
    BY <1>2, <2>2, StirredSettled
<1>5. CASE p # to /\ ~(p = g_current /\ T[p].state = "running")
  BY <1>2, <1>5 DEF switch_to
<1> QED
  BY <1>3, <1>4, <1>5

\* signal_task() wakes or kills, puts nobody in a wait, and keeps Sound.
LEMMA SignalSound ==
  ASSUME NEW T \in Tables, NEW p \in Pids, NEW sig, NEW c, Sound(T, c)
  PROVE  Sound(signal_task(T, p, sig), c)
<1>1. SUFFICES ASSUME NEW q \in Pids
               PROVE  /\ Settled(signal_task(T, p, sig)[q])
                      /\ signal_task(T, p, sig)[q].state = "running" => q = c
  BY DEF Sound
<1>2. Settled(T[q]) /\ T[q] \in Tasks /\ (T[q].state = "running" => q = c)
  BY DEF Sound, Tables
<1> DEFINE t == [T[q] EXCEPT !.sig_pending = sig]
           k == [T[q] EXCEPT !.ending = sig, !.state = "killed"]
<1>3. t.state = T[q].state /\ k.state = "killed"
  BY <1>2 DEF Tasks
<1>4. /\ Stirred(T[q], Unblock(t)) /\ Stirred(T[q], k)
      /\ T[q].state # "blocked" => Stirred(T[q], t)
      /\ Unblock(t).state = "running" => T[q].state = "running"
  BY <1>2, <1>3 DEF Unblock, Tasks, States, Stirred
<1>5. \/ signal_task(T, p, sig)[q] = T[q]
      \/ signal_task(T, p, sig)[q] = k
      \/ T[q].state = "blocked" /\ signal_task(T, p, sig)[q] = Unblock(t)
      \/ T[q].state # "blocked" /\ signal_task(T, p, sig)[q] = t
  BY <1>3 DEF signal_task, Tables
<1> HIDE DEF t, k
<1> QED
  BY <1>2, <1>3, <1>4, <1>5, StirredSettled

\* on_tick() only takes processes off the blocked ones, and keeps Sound.
LEMMA TickSound ==
  ASSUME NEW T \in Tables, NEW now, NEW c, Sound(T, c)
  PROVE  Sound(on_tick(T, now), c)
<1>1. SUFFICES ASSUME NEW q \in Pids
               PROVE  /\ Settled(on_tick(T, now)[q])
                      /\ on_tick(T, now)[q].state = "running" => q = c
  BY DEF Sound
<1>2. Settled(T[q]) /\ T[q] \in Tasks /\ (T[q].state = "running" => q = c)
  BY DEF Sound, Tables
<1> DEFINE t == [T[q] EXCEPT !.sleep_until = 0]
<1>3. t.state = T[q].state /\ t \in Tasks
  BY <1>2 DEF Tasks
<1>4. T[q].state = "blocked" => /\ Unblock(t).state = "ready" /\ Unblock(T[q]).state = "ready"
                                /\ Stirred(T[q], Unblock(t)) /\ Stirred(T[q], Unblock(T[q]))
  BY <1>2, <1>3 DEF Unblock, Tasks, Stirred
<1>5. \/ on_tick(T, now)[q] = T[q]
      \/ T[q].state = "blocked" /\ on_tick(T, now)[q] \in {Unblock(t), Unblock(T[q])}
  BY DEF on_tick
<1> HIDE DEF t
<1> QED
  BY <1>2, <1>4, <1>5, StirredSettled

\* A wake-up from the keyboard or a pipe, due or not, keeps Sound.
LEMMA WokeSound ==
  ASSUME NEW T \in Tables, NEW S, NEW c, Sound(T, c)
  PROVE  Sound(Woke(T, S), c)
<1>1. SUFFICES ASSUME NEW q \in Pids
               PROVE  Settled(Woke(T, S)[q]) /\ (Woke(T, S)[q].state = "running" => q = c)
  BY DEF Sound
<1>2. Settled(T[q]) /\ T[q] \in Tasks /\ (T[q].state = "running" => q = c)
  BY DEF Sound, Tables
<1>3. Settled(Unblock(T[q])) /\ (Unblock(T[q]).state = "running" => T[q].state = "running")
  BY <1>2, UnblockStirs, StirredSettled
<1> QED
  BY <1>2, <1>3 DEF Woke

\* Replacing the current process's entry by a settled one.
LEMMA MeSound ==
  ASSUME CpuTyped, NEW T \in Tables, Sound(T, g_current), NEW t, Settled(t)
  PROVE  Sound([T EXCEPT ![g_current] = t], g_current)
  BY DEF Sound, Tables

\* The way back to user mode keeps Sound.
LEMMA ReturnSound ==
  ASSUME CpuTyped, NEW T \in Tables, Sound(T, g_current), Return(T)
  PROVE  Sound(g_tasks', g_current')
<1> DEFINE t == [T[g_current] EXCEPT !.pc = "user", !.wait_pid = 0]
<1>1. t.pc = "user" /\ deliver_pending(t).pc = "user"
  BY DEF CpuTyped, Tables, Tasks, deliver_pending
<1>2. Settled(deliver_pending(t))
  BY <1>1, AwakeSettled
<1> HIDE DEF t
<1> QED
  BY <1>2, MeSound DEF Return, t

\* task_switch_now() with interrupts off keeps Sound.
LEMMA SuspendSound ==
  ASSUME CpuTyped, NEW T \in Tables, Sound(T, g_current),
         Suspend(T) \/ SuspendOpen(T)
  PROVE  Sound(g_tasks', g_current')
<1>1. Sound(reap(T), g_current) /\ reap(T) \in Tables
  BY ReapSound, ReapType
<1>2. \A to \in Pids : Sound(switch_to(reap(T), to), to)
  BY <1>1, SwitchSound
<1> QED
  BY <1>1, <1>2 DEF Suspend, SuspendOpen, Panic

\* exit() keeps Sound: the caller is a zombie and its parent is told.
LEMMA EndWithSound ==
  ASSUME CpuTyped, NEW T \in Tables, NEW code \in Codes, EndWith(T, code),
         \A p \in Pids : p # g_current =>
            Settled(T[p]) /\ T[p].state # "running"
  PROVE  Sound(g_tasks', g_current')
<1> DEFINE me == T[g_current]
           gone == [T EXCEPT ![g_current].ending = IF T[g_current].state = "killed"
                                                   THEN @ ELSE code,
                             ![g_current].state = "zombie",
                             ![g_current].pc = "exit"]
<1>1. g_current \in Pids /\ me \in Tasks
  BY DEF CpuTyped, Tables
<1>2. [me EXCEPT !.ending = IF me.state = "killed" THEN @ ELSE code,
                 !.state = "zombie", !.pc = "exit"] \in Tasks
  BY <1>1 DEF Tasks, States, Places
<1>3. gone \in Tables
  BY <1>1, <1>2 DEF Tables
<1>4. gone[g_current].pc = "exit" /\ \A p \in Pids : p # g_current => gone[p] = T[p]
  BY <1>1 DEF Tables, Tasks
<1> HIDE DEF gone
<1>5. Sound(gone, g_current)
  BY <1>1, <1>4, AwakeSettled DEF Sound
<1>6. announce(gone, g_current) \in Tables /\ Sound(announce(gone, g_current), g_current)
  BY <1>1, <1>3, <1>5, AnnounceType, AnnounceSound
<1> QED
  BY <1>6, SuspendSound DEF EndWith, gone

\* block() keeps Sound if nothing the caller waits for has been noted.
LEMMA BlockSound ==
  ASSUME CpuTyped, NEW T \in Tables, Sound(T, g_current),
         T[g_current].pc # "park",
         T[g_current].pc = "wait" /\ ~T[g_current].wake_pending
           => T[g_current].waiting /\ NoMatch(T[g_current].done, T[g_current].wait_pid),
         block(T, FALSE) \/ block(T, TRUE)
  PROVE  Sound(g_tasks', g_current')
<1> DEFINE t == T[g_current]
           awake == [t EXCEPT !.wake_pending = FALSE, !.state = "running"]
           parked == [t EXCEPT !.state = "blocked"]
<1>1. g_current \in Pids /\ t \in Tasks
  BY DEF CpuTyped, Tables
<1>2. Settled(awake)
  <2>1. awake.state = "running" /\ awake.pc # "park"
    BY <1>1 DEF Tasks
  <2> QED
    BY <2>1, AwakeSettled
<1>3. ~t.wake_pending => Settled(parked) /\ parked \in Tasks
  BY <1>1 DEF Settled, Tasks, States
<1>4. [T EXCEPT ![g_current].wake_pending = FALSE, ![g_current].state = "running"]
        = [T EXCEPT ![g_current] = awake]
  BY <1>1 DEF Tables
<1>5. [T EXCEPT ![g_current].state = "blocked"] = [T EXCEPT ![g_current] = parked]
  BY <1>1 DEF Tables
<1> HIDE DEF awake, parked
<1>6. /\ Sound([T EXCEPT ![g_current] = awake], g_current)
      /\ ~t.wake_pending => /\ Sound([T EXCEPT ![g_current] = parked], g_current)
                            /\ [T EXCEPT ![g_current] = parked] \in Tables
  BY <1>1, <1>2, <1>3, MeSound DEF Tables
<1> QED
  BY <1>4, <1>5, <1>6, SuspendSound DEF block, schedule

\* A turn of wait_for's loop parks only when take_done found nothing, and keeps Sound.
LEMMA WaitTurnSound ==
  ASSUME CpuTyped, Sound(g_tasks, g_current), g_tasks[g_current].pc # "park",
         g_tasks[g_current].state # "blocked",
         NEW pid \in 0 .. kMaxTask, NEW nowait \in BOOLEAN,
         WaitTurn(pid, nowait, FALSE) \/ WaitTurn(pid, nowait, TRUE)
  PROVE  Sound(g_tasks', g_current')
<1> DEFINE swept == [g_tasks EXCEPT ![g_current].wake_pending = FALSE]
           T == reap(swept)
           cleared == [g_tasks[g_current] EXCEPT !.wake_pending = FALSE]
<1>1. g_current \in Pids /\ g_tasks[g_current] \in Tasks /\ g_tasks \in Tables
      /\ Settled(g_tasks[g_current])
  BY MeType DEF CpuTyped, Sound
<1>2. cleared \in Tasks /\ Settled(cleared)
  BY <1>1 DEF Tasks, Settled
<1>3. swept = [g_tasks EXCEPT ![g_current] = cleared]
  BY <1>1 DEF Tables
<1> HIDE DEF cleared
<1>4. swept \in Tables /\ Sound(swept, g_current)
  BY <1>1, <1>2, <1>3, MeSound DEF Tables
<1> HIDE DEF swept
<1>5. T \in Tables /\ Sound(T, g_current)
  BY <1>4, ReapType, ReapSound
<1> HIDE DEF T
<1>6. T[g_current] \in Tasks /\ Settled(T[g_current]) /\ T[g_current].state # "blocked"
  <2>1. swept[g_current].state # "blocked"
    BY <1>1, <1>2, <1>3 DEF Tables, Tasks, cleared
  <2> QED
    BY <1>1, <1>4, <1>5, <2>1, ReapRouses DEF Tables, Sound, T
<1> DEFINE taken(n) == [T EXCEPT ![g_current].done = @ \ {n}]
           parked == [T EXCEPT ![g_current].waiting = TRUE, ![g_current].wait_pid = pid,
                               ![g_current].pc = "wait"]
<1>7. ASSUME NEW n, Return(taken(n))
      PROVE  Sound(g_tasks', g_current')
  <2> DEFINE less == [T[g_current] EXCEPT !.done = @ \ {n}]
  <2>1. less \in Tasks /\ Settled(less)
    BY <1>6 DEF Tasks, Settled, NoMatch
  <2>2. taken(n) = [T EXCEPT ![g_current] = less]
    BY <1>1, <1>5 DEF Tables
  <2> HIDE DEF less
  <2>3. taken(n) \in Tables /\ Sound(taken(n), g_current)
    BY <1>1, <1>5, <2>1, <2>2, MeSound DEF Tables
  <2> HIDE DEF taken
  <2> QED
    BY <1>7, <2>3, ReturnSound
<1>8. ASSUME NoMatch(T[g_current].done, pid), block(parked, FALSE)
      PROVE  Sound(g_tasks', g_current')
  <2> DEFINE m == [T[g_current] EXCEPT !.waiting = TRUE, !.wait_pid = pid, !.pc = "wait"]
  <2>1. /\ m \in Tasks /\ m.pc = "wait"
        /\ m.waiting /\ NoMatch(m.done, m.wait_pid)
    BY <1>6, <1>8 DEF Tasks, Places
  <2>2. Settled(m)
    BY <2>1 DEF Settled
  <2>3. parked = [T EXCEPT ![g_current] = m]
    BY <1>1, <1>5 DEF Tables
  <2> HIDE DEF m
  <2>4. parked \in Tables /\ Sound(parked, g_current) /\ parked[g_current] = m
    BY <1>1, <1>5, <2>1, <2>2, <2>3, MeSound DEF Tables
  <2> HIDE DEF parked
  <2> QED
    BY <1>8, <2>1, <2>4, BlockSound
<1>9. Panic(swept) => Sound(g_tasks', g_current')
  BY <1>4 DEF Panic
<1>10. Return(T) => Sound(g_tasks', g_current')
  BY <1>5, ReturnSound
<1>11. CASE WaitTurn(pid, nowait, FALSE)
  BY <1>11, <1>7, <1>8, <1>9, <1>10, Zenon DEF WaitTurn, T, swept
<1> DEFINE atpark == [T EXCEPT ![g_current].waiting = TRUE, ![g_current].wait_pid = pid,
                               ![g_current].pc = "park"]
<1>12. ASSUME NoMatch(T[g_current].done, pid), g_tasks' = atpark, g_current' = g_current
       PROVE  Sound(g_tasks', g_current')
  <2> DEFINE m == [T[g_current] EXCEPT !.waiting = TRUE, !.wait_pid = pid, !.pc = "park"]
  <2>1. /\ m \in Tasks /\ m.pc = "park" /\ m.state # "blocked"
        /\ m.waiting /\ NoMatch(m.done, m.wait_pid)
    BY <1>6, <1>12 DEF Tasks, Places
  <2>2. Settled(m)
    BY <2>1 DEF Settled
  <2>3. atpark = [T EXCEPT ![g_current] = m]
    BY <1>1, <1>5 DEF Tables
  <2> HIDE DEF m
  <2>4. Sound([T EXCEPT ![g_current] = m], g_current)
    BY <1>5, <2>2, MeSound
  <2>5. Sound(atpark, g_current)
    BY <2>3, <2>4
  <2> HIDE DEF atpark
  <2> QED
    BY <1>12, <2>5
<1>13. CASE WaitTurn(pid, nowait, TRUE)
  BY <1>13, <1>7, <1>12, <1>9, <1>10, Zenon DEF WaitTurn, T, swept
<1> QED
  BY <1>11, <1>13

\* preempt() keeps Sound, whether the CPU moves or not.
LEMMA PreemptSound ==
  ASSUME CpuTyped, NEW T \in Tables, Sound(T, g_current), preempt(T)
  PROVE  Sound(g_tasks', g_current')
<1> DEFINE t == T[g_current]
           left == IF t.quantum = 0 THEN 0 ELSE t.quantum - 1
           older == [t EXCEPT !.quantum = left]
           spent == IF t.state \in Dead THEN T ELSE [T EXCEPT ![g_current].quantum = left]
<1>1. g_current \in Pids /\ t \in Tasks /\ Settled(t)
  BY DEF CpuTyped, Tables, Sound
<1>2. left \in 0 .. kQuantum
  BY <1>1, TableAssumption DEF Tasks
<1> HIDE DEF left
<1>3. older \in Tasks /\ Settled(older)
  BY <1>1, <1>2 DEF Tasks, Settled
<1>4. [T EXCEPT ![g_current].quantum = left] = [T EXCEPT ![g_current] = older]
  BY <1>1 DEF Tables
<1> HIDE DEF older
<1>5. spent \in Tables /\ Sound(spent, g_current)
  BY <1>1, <1>3, <1>4, MeSound DEF Tables
<1> HIDE DEF spent
<1>6. reap(spent) \in Tables /\ Sound(reap(spent), g_current)
  BY <1>5, ReapType, ReapSound
<1>7. \A to \in Pids : Sound(switch_to(reap(spent), to), to)
  BY <1>6, SwitchSound
<1> QED
  BY <1>5, <1>6, <1>7 DEF preempt, Panic, spent, left

\* fork_user() starts a child that is ready, not running, and keeps Sound.
LEMMA ForkSound == ASSUME CpuTyped, Sound(g_tasks, g_current), Fork
                   PROVE  Sound(g_tasks', g_current')
<1> DEFINE born == [Cleared EXCEPT !.state = "ready", !.ppid = g_current]
<1>1. PICK s \in Pids \ {kPid1} :
        \/ Return([purge_notes(g_tasks, s) EXCEPT ![s] = born])
        \/ Return([purge_notes(g_tasks, s) EXCEPT ![s] = Cleared])
  BY DEF Fork
<1>2. \A q \in Pids : /\ purge_notes(g_tasks, s)[q] \in Tasks
                       /\ Settled(purge_notes(g_tasks, s)[q])
                       /\ purge_notes(g_tasks, s)[q].state = g_tasks[q].state
  BY DEF purge_notes, CpuTyped, Tables, Tasks, Sound, Settled, NoMatch
<1>3. purge_notes(g_tasks, s) \in Tables /\ Sound(purge_notes(g_tasks, s), g_current)
  BY <1>2 DEF purge_notes, Tables, Sound
<1>4. g_current \in 0 .. kMaxTask
  BY DEF CpuTyped, Pids
<1>5. /\ born \in Tasks /\ Settled(born) /\ born.state = "ready"
      /\ Settled(Cleared) /\ Cleared.state = "free"
  <2>1. born \in Tasks
    BY <1>4, ClearedType DEF Tasks, States
  <2>2. born.state = "ready" /\ Cleared.state = "free" /\ born.pc = "user" /\ Cleared.pc = "user"
    BY DEF Cleared
  <2> QED
    BY <2>1, <2>2, AwakeSettled
<1> HIDE DEF born
<1>6. ASSUME NEW t \in Tasks, Settled(t), t.state # "running"
      PROVE  LET N == [purge_notes(g_tasks, s) EXCEPT ![s] = t]
             IN  N \in Tables /\ Sound(N, g_current)
  BY <1>3, <1>6 DEF Tables, Sound
<1> QED
  BY <1>1, <1>5, <1>6, ClearedType, ReturnSound

\* Every step keeps the invariant.
LEMMA NextSound == ASSUME TypeOK, Afoot, Sound(g_tasks, g_current), [Next]_vars
                   PROVE  Sound(g_tasks', g_current')
<1>1. CpuTyped /\ g_tasks \in Tables /\ g_current \in Pids
  BY DEF TypeOK, CpuTyped, Tables
<1> DEFINE me == g_tasks[g_current]
<1>2. me \in Tasks /\ Settled(me)
  BY <1>1 DEF Tables, Sound
<1>3. ASSUME NEW t \in Tasks, Settled(t)
      PROVE  LET N == [g_tasks EXCEPT ![g_current] = t]
             IN  N \in Tables /\ Sound(N, g_current)
  BY <1>1, <1>3, MeSound DEF Tables
<1>4. \A p \in Pids : p # g_current => Settled(g_tasks[p]) /\ g_tasks[p].state # "running"
  BY DEF Sound
<1>5. CASE Fork
  BY <1>1, <1>5, ForkSound
<1>6. CASE Exit
  BY <1>1, <1>4, <1>6, EndWithSound DEF Exit, Codes
<1>7. CASE Fault
  <2> DEFINE hit == [g_tasks EXCEPT ![g_current].ending = kSigSegv,
                                    ![g_current].state = "killed"]
  <2>1. [me EXCEPT !.ending = kSigSegv, !.state = "killed"] \in Tasks
    BY <1>2 DEF Tasks, States, Codes, Signals
  <2>2. hit \in Tables /\ \A p \in Pids : p # g_current => hit[p] = g_tasks[p]
    BY <1>1, <2>1 DEF Tables
  <2>3. PICK code \in ExitCodes : EndWith(hit, code)
    BY <1>7 DEF Fault
  <2> HIDE DEF hit
  <2> QED
    BY <1>1, <1>4, <2>2, <2>3, EndWithSound DEF Codes
<1>8. CASE Kill
  <2>1. PICK p \in Pids, sig \in Raised :
          \/ EndWith(signal_task(g_tasks, p, sig), sig)
          \/ Return(signal_task(g_tasks, p, sig))
    BY <1>8 DEF Kill
  <2>2. sig \in Signals /\ sig \in Codes
    BY SignalAssumption DEF Signals, Codes
  <2>3. signal_task(g_tasks, p, sig) \in Tables
        /\ Sound(signal_task(g_tasks, p, sig), g_current)
    BY <1>1, <2>2, SignalType, SignalSound
  <2>4. \A q \in Pids : q # g_current => /\ Settled(signal_task(g_tasks, p, sig)[q])
                                         /\ signal_task(g_tasks, p, sig)[q].state # "running"
    BY <2>3 DEF Sound
  <2> QED
    BY <1>1, <2>1, <2>2, <2>3, <2>4, EndWithSound, ReturnSound
<1>9. CASE Sigaction
  <2>1. PICK h \in SUBSET Catchable :
          Return([g_tasks EXCEPT ![g_current].sig_handlers = h])
    <3>1. PICK sig \in Catchable :
            \/ Return([g_tasks EXCEPT ![g_current].sig_handlers = @ \cup {sig}])
            \/ Return([g_tasks EXCEPT ![g_current].sig_handlers = @ \ {sig}])
      BY <1>9 DEF Sigaction
    <3>2. me.sig_handlers \cup {sig} \in SUBSET Catchable
          /\ me.sig_handlers \ {sig} \in SUBSET Catchable
      BY <1>2 DEF Tasks
    <3> QED
      BY <3>1, <3>2
  <2> DEFINE t == [me EXCEPT !.sig_handlers = h]
  <2>2. t \in Tasks /\ Settled(t)
    BY <1>2 DEF Tasks, Settled
  <2>3. [g_tasks EXCEPT ![g_current].sig_handlers = h] = [g_tasks EXCEPT ![g_current] = t]
    BY <1>1 DEF Tables
  <2> HIDE DEF t
  <2> QED
    BY <1>1, <1>3, <2>1, <2>2, <2>3, ReturnSound
<1>10. CASE Sigreturn
  <2> DEFINE t == [me EXCEPT !.sig_active = kSigNone]
  <2>1. t \in Tasks /\ Settled(t)
    BY <1>2 DEF Tasks, Settled
  <2>2. [g_tasks EXCEPT ![g_current].sig_active = kSigNone] = [g_tasks EXCEPT ![g_current] = t]
    BY <1>1 DEF Tables
  <2> HIDE DEF t
  <2> QED
    BY <1>1, <1>3, <1>10, <2>1, <2>2, ReturnSound DEF Sigreturn
<1>11. CASE Exec
  <2> DEFINE t == [me EXCEPT !.sig_handlers = {}, !.sig_pending = kSigNone,
                             !.sig_active = kSigNone, !.state = "running"]
  <2>1. t \in Tasks /\ t.pc = "user"
    BY <1>2, <1>11 DEF Tasks, States, Exec, InUser, Me
  <2>2. g_tasks' = [g_tasks EXCEPT ![g_current] = t] /\ g_current' = g_current
    BY <1>1, <1>11 DEF Exec, Tables
  <2> HIDE DEF t
  <2> QED
    BY <1>3, <2>1, <2>2, AwakeSettled
<1>12. CASE Wait \/ WaitAgain
  <2>1. me.wait_pid \in 0 .. kMaxTask /\ me.pc # "park" /\ me.state # "blocked"
    BY <1>2, <1>12 DEF Tasks, Wait, WaitAgain, InUser, InKernel, Me, Afoot
  <2> QED
    BY <1>1, <1>12, <2>1, WaitTurnSound DEF Wait, WaitAgain, Me
<1>13. CASE WaitWake
  <2> DEFINE t == [me EXCEPT !.wake_pending = FALSE, !.waiting = FALSE, !.pc = "loop"]
             T == [g_tasks EXCEPT ![g_current].wake_pending = FALSE,
                                  ![g_current].waiting = FALSE,
                                  ![g_current].pc = "loop"]
  <2>1. t \in Tasks /\ t.pc = "loop"
    BY <1>2 DEF Tasks, Places
  <2>2. T = [g_tasks EXCEPT ![g_current] = t]
    BY <1>1 DEF Tables
  <2>3. T \in Tables /\ Sound(T, g_current)
    BY <1>3, <2>1, <2>2, AwakeSettled
  <2> QED
    BY <1>1, <1>13, <2>3, ReturnSound DEF WaitWake
<1>14. CASE Sleep
  <2>1. PICK n \in 0 .. MaxSleep :
          \/ Return(g_tasks)
          \/ block([g_tasks EXCEPT ![g_current].sleep_until = (g_ticks + n) % TickWord,
                                   ![g_current].pc = "sleep"], FALSE)
    BY <1>14 DEF Sleep
  <2> DEFINE t == [me EXCEPT !.sleep_until = (g_ticks + n) % TickWord, !.pc = "sleep"]
             T == [g_tasks EXCEPT ![g_current].sleep_until = (g_ticks + n) % TickWord,
                                  ![g_current].pc = "sleep"]
  <2>2. (g_ticks + n) % TickWord \in Nat
    BY TickAssumption DEF TypeOK
  <2>3. t \in Tasks /\ t.pc = "sleep"
    BY <1>2, <2>2 DEF Tasks, Places
  <2>4. T = [g_tasks EXCEPT ![g_current] = t]
    BY <1>1 DEF Tables
  <2>5. T \in Tables /\ Sound(T, g_current) /\ T[g_current].pc = "sleep"
    BY <1>1, <1>3, <2>3, <2>4, AwakeSettled DEF Tables
  <2> HIDE DEF T
  <2>6. block(T, FALSE) => Sound(g_tasks', g_current')
    BY <1>1, <2>5, BlockSound
  <2> QED
    BY <1>1, <2>1, <2>6, ReturnSound DEF T
<1>15. CASE SleepWake
  <2> DEFINE t == [me EXCEPT !.wake_pending = FALSE, !.sleep_until = 0]
  <2>1. t \in Tasks /\ Settled(t)
    <3>1. t \in Tasks /\ t.pc = "sleep"
      BY <1>2, <1>15 DEF Tasks, SleepWake, InKernel, Me
    <3> QED
      BY <3>1, AwakeSettled
  <2>2. [g_tasks EXCEPT ![g_current].wake_pending = FALSE, ![g_current].sleep_until = 0]
          = [g_tasks EXCEPT ![g_current] = t]
    BY <1>1 DEF Tables
  <2> HIDE DEF t
  <2> QED
    BY <1>1, <1>3, <1>15, <2>1, <2>2, ReturnSound DEF SleepWake
<1>16. CASE Tick \/ TickInterrupt
  <2>1. on_tick(g_tasks, g_ticks') \in Tables /\ Sound(on_tick(g_tasks, g_ticks'), g_current)
    BY <1>1, TickType, TickSound
  <2>2. \A p \in Interrupted :
          /\ signal_task(on_tick(g_tasks, g_ticks'), p, kSigInt) \in Tables
          /\ Sound(signal_task(on_tick(g_tasks, g_ticks'), p, kSigInt), g_current)
    BY <2>1, SignalType, SignalSound, TickAssumption DEF Signals
  <2>3. \A S : /\ Woke(on_tick(g_tasks, g_ticks'), S) \in Tables
               /\ Sound(Woke(on_tick(g_tasks, g_ticks'), S), g_current)
    BY <2>1, WokeType, WokeSound
  <2>4. \A p \in Interrupted : \A S :
          LET T == signal_task(on_tick(g_tasks, g_ticks'), p, kSigInt)
          IN Woke(T, S) \in Tables /\ Sound(Woke(T, S), g_current)
    BY <2>2, WokeType, WokeSound
  <2> QED
    BY <1>1, <1>16, <2>3, <2>4, PreemptSound DEF Tick, TickInterrupt
<1>17. CASE IdlePick
  BY <1>17 DEF IdlePick
<1>18. CASE IdleSwitch
  <2>1. picked \in Pids
    BY <1>18, TableAssumption DEF IdleSwitch, TypeOK, Pids
  <2> QED
    BY <1>1, <1>18, <2>1, SwitchSound DEF IdleSwitch
<1>19. CASE Halt \/ UNCHANGED vars
  BY <1>19 DEF Halt, vars
<1>20. CASE WaitPark
  <2> DEFINE t == [me EXCEPT !.pc = "wait"]
             T == [g_tasks EXCEPT ![g_current].pc = "wait"]
  <2>1. me.pc = "park" /\ me.state # "blocked"
    BY <1>20 DEF WaitPark, InKernel, Me, Afoot
  <2>2. /\ t \in Tasks /\ t.pc = "wait" /\ t.state = me.state /\ t.waiting
        /\ ~t.wake_pending => NoMatch(t.done, t.wait_pid)
    BY <1>2, <2>1 DEF Tasks, Places, Settled
  <2>3. T = [g_tasks EXCEPT ![g_current] = t]
    BY <1>1 DEF Tables
  <2> HIDE DEF t
  <2>4. T \in Tables /\ Sound(T, g_current) /\ T[g_current] = t
    BY <1>1, <1>3, <2>1, <2>2, <2>3, AwakeSettled DEF Tables
  <2> HIDE DEF T
  <2> QED
    BY <1>1, <1>20, <2>2, <2>4, BlockSound DEF WaitPark, T
<1>21. CASE SleepCut
  <2> DEFINE t == [me EXCEPT !.wake_pending = FALSE, !.state = "running", !.sleep_until = 0]
  <2>1. t \in Tasks /\ Settled(t)
    <3>1. t \in Tasks /\ t.pc = "user"
      BY <1>2, <1>21 DEF Tasks, States, SleepCut, InUser, Me
    <3> QED
      BY <3>1, AwakeSettled
  <2>2. [g_tasks EXCEPT ![g_current].wake_pending = FALSE, ![g_current].state = "running",
                        ![g_current].sleep_until = 0] = [g_tasks EXCEPT ![g_current] = t]
    BY <1>1 DEF Tables
  <2> HIDE DEF t
  <2> QED
    BY <1>1, <1>3, <1>21, <2>1, <2>2, ReturnSound DEF SleepCut
<1>22. CASE Wake
  BY <1>1, <1>22, WokeSound DEF Wake
<1> QED
  BY <1>5, <1>6, <1>7, <1>8, <1>9, <1>10, <1>11, <1>12, <1>13, <1>14, <1>15, <1>16,
     <1>17, <1>18, <1>19, <1>20, <1>21, <1>22 DEF Next

\* The invariant behind both safety theorems.
SoundInv == Afoot /\ Sound(g_tasks, g_current)

\* The strengthened invariant holds in every reachable state.
LEMMA SoundAlways == Spec => []SoundInv
<1>1. ASSUME Init PROVE SoundInv
  <2>0. Afoot
    BY <1>1, TableAssumption DEF Init, Afoot, Cleared, Pids, kPid1
  <2> SUFFICES ASSUME NEW p \in Pids
               PROVE  Settled(g_tasks[p]) /\ (g_tasks[p].state = "running" => p = g_current)
    BY <2>0 DEF Sound, SoundInv
  <2>1. CASE p = kPid1
    <3>1. g_tasks[p] = [Cleared EXCEPT !.state = "running"] /\ g_current = p
      BY <1>1, <2>1 DEF Init
    <3>2. g_tasks[p].pc = "user"
      BY <3>1 DEF Cleared
    <3> QED
      BY <3>1, <3>2, AwakeSettled
  <2>2. CASE p # kPid1
    <3>1. g_tasks[p] = Cleared
      BY <1>1, <2>2 DEF Init
    <3>2. g_tasks[p].state = "free" /\ g_tasks[p].pc = "user"
      BY <3>1 DEF Cleared
    <3> QED
      BY <3>2, AwakeSettled
  <2> QED
    BY <2>1, <2>2
<1>2. TypeOK /\ SoundInv /\ [Next]_vars => SoundInv'
  BY NextSound, NextAfoot DEF SoundInv
<1> QED
  BY <1>1, <1>2, TypeCorrect, PTL DEF Spec

\* At most one process is kRunning, and it is the one on the CPU.
THEOREM RunningIsCurrentAlways == Spec => []RunningIsCurrent
<1>1. SoundInv => RunningIsCurrent
  BY DEF SoundInv, Sound, RunningIsCurrent
<1> QED
  BY <1>1, SoundAlways, PTL

\* wait() loses no wake-up: nobody is parked in it with a note it would take.
THEOREM NoMissedExitAlways == Spec => []NoMissedExit
<1>1. SoundInv => NoMissedExit
  BY DEF SoundInv, Sound, Settled, NoMissedExit
<1> QED
  BY <1>1, SoundAlways, PTL

(***************************************************************************)
(* What processes are told and how they end: wake-ups kept for later, the  *)
(* notes about ended children, and who is waited for.                      *)
(***************************************************************************)
-----------------------------------------------------------------------------
(* What may become of a process while somebody else runs                   *)

\* u is t after being told, woken or swept up by others; slots stay what they are.
Follows(t, u) ==
  /\ u.pc = t.pc /\ u.waiting = t.waiting /\ u.wait_pid = t.wait_pid /\ u.ppid = t.ppid
  /\ t.done \subseteq u.done
  /\ t.wake_pending => u.wake_pending
  /\ u.wake_pending => t.wake_pending \/ t.waiting
  /\ t.state = "free" => u.done = t.done
  /\ \/ u.state = t.state
     \/ t.state = "blocked" /\ u.state = "ready"
     \/ t.state = "killed" /\ u.state = "zombie"

\* Hearing of children adds notes and wakes; it changes nothing else.
LEMMA HearFollows ==
  ASSUME NEW t \in Tasks, t.state # "free", NEW T \in Tables, NEW kids \in SUBSET Pids
  PROVE  /\ Follows(t, Hear(t, T, kids))
         /\ \/ Hear(t, T, kids).state = t.state
            \/ t.state = "blocked" /\ Hear(t, T, kids).state = "ready"
<1> DEFINE room(c) == Cardinality(t.done) + Cardinality({d \in kids : d < c}) < kMaxTask
           heard == {c \in kids : room(c)}
           told == [t EXCEPT !.done = @ \cup {Note(T, c) : c \in heard}]
<1>1. Hear(t, T, kids) = IF t.waiting /\ heard # {} THEN Unblock(told) ELSE told
  BY DEF Hear
<1> HIDE DEF heard
<1>2. /\ told.pc = t.pc /\ told.waiting = t.waiting /\ told.wait_pid = t.wait_pid
      /\ told.ppid = t.ppid /\ t.done \subseteq told.done
      /\ told.wake_pending = t.wake_pending /\ told.state = t.state
  BY DEF Tasks
<1>3. /\ Unblock(told).pc = told.pc /\ Unblock(told).waiting = told.waiting
      /\ Unblock(told).wait_pid = told.wait_pid /\ Unblock(told).ppid = told.ppid
      /\ Unblock(told).done = told.done
      /\ told.wake_pending => Unblock(told).wake_pending
      /\ \/ Unblock(told).state = told.state
         \/ told.state = "blocked" /\ Unblock(told).state = "ready"
  BY DEF Unblock, Tasks
<1> HIDE DEF told
<1> QED
  BY <1>1, <1>2, <1>3 DEF Follows

\* Standing still is following.
LEMMA SameFollows == ASSUME NEW t PROVE Follows(t, t)
  BY DEF Follows

\* What the announcement of an end does to each process.
LEMMA AnnounceFollows ==
  ASSUME NEW T \in Tables, NEW p \in Pids, NEW q \in Pids
  PROVE  Follows(T[q], announce(T, p)[q])
<1>1. T[q] \in Tasks /\ announce(T, p)[q] \in {T[q], Hear(T[q], T, {p})}
      /\ (announce(T, p)[q] # T[q] => T[q].state # "free")
  BY DEF announce, Tables
<1>2. T[q].state # "free" => Follows(T[q], Hear(T[q], T, {p}))
  BY <1>1, HearFollows
<1> QED
  BY <1>1, <1>2, SameFollows

\* What reap() does to each process: swept up if it is dead, not the first and not
\* on the CPU; otherwise it is told of its children, and a killed one is a zombie.
LEMMA ReapFollows ==
  ASSUME NEW T \in Tables, NEW q \in Pids
  PROVE  /\ \/ /\ T[q].state \in Dead /\ q # kPid1 /\ q # g_current
               /\ reap(T)[q] = Cleared
            \/ /\ Follows(T[q], reap(T)[q])
               /\ q \in {kPid1, g_current} \/ T[q].state \notin Dead
         /\ q # kPid1 => reap(T)[q].state # "killed"
<1> DEFINE told == Hear(T[q], T, KilledKids(T, q))
           ended == [told EXCEPT !.state = "zombie"]
<1>1. T[q] \in Tasks /\ KilledKids(T, q) \in SUBSET Pids
  BY DEF Tables, KilledKids
<1>2. ASSUME T[q].state # "free"
      PROVE  /\ Follows(T[q], told) /\ told \in Tasks
             /\ \/ told.state = T[q].state
                \/ T[q].state = "blocked" /\ told.state = "ready"
  BY <1>1, <1>2, HearFollows, HearType
<1> HIDE DEF told
<1>3. told \in Tasks => /\ ended.pc = told.pc /\ ended.waiting = told.waiting
                        /\ ended.wait_pid = told.wait_pid /\ ended.ppid = told.ppid
                        /\ ended.done = told.done /\ ended.wake_pending = told.wake_pending
                        /\ ended.state = "zombie"
  BY DEF Tasks
<1> HIDE DEF ended
<1>4. CASE T[q].state = "free"
  BY <1>4, SameFollows DEF reap, Dead
<1>5. CASE q # kPid1 /\ T[q].state \in Dead /\ q # g_current
  <2>1. reap(T)[q] = Cleared
    BY <1>5 DEF reap, Dead
  <2> QED
    BY <1>5, <2>1 DEF Cleared
<1>6. CASE T[q].state # "free" /\ ~(q # kPid1 /\ T[q].state \in Dead /\ q # g_current)
  <2>1. CASE q # kPid1 /\ T[q].state = "killed"
    <3>1. reap(T)[q] = ended
      BY <1>6, <2>1 DEF reap, ended, told
    <3> QED
      BY <1>2, <1>3, <1>6, <2>1, <3>1 DEF Follows, Dead
  <2>2. CASE ~(q # kPid1 /\ T[q].state = "killed")
    <3>1. reap(T)[q] = told
      BY <1>6, <2>2 DEF reap, told
    <3> QED
      BY <1>2, <1>6, <2>2, <3>1
  <2> QED
    BY <2>1, <2>2
<1> QED
  BY <1>4, <1>5, <1>6

\* What a tick does to each process.
LEMMA TickFollows ==
  ASSUME NEW T \in Tables, NEW now, NEW q \in Pids
  PROVE  /\ Follows(T[q], on_tick(T, now)[q])
         /\ on_tick(T, now)[q].done = T[q].done
         /\ T[q].state # "blocked" => on_tick(T, now)[q] = T[q]
<1> DEFINE t == [T[q] EXCEPT !.sleep_until = 0]
<1>1. T[q] \in Tasks
  BY DEF Tables
<1>2. /\ t.pc = T[q].pc /\ t.waiting = T[q].waiting /\ t.wait_pid = T[q].wait_pid
      /\ t.ppid = T[q].ppid /\ t.done = T[q].done /\ t.wake_pending = T[q].wake_pending
      /\ t.state = T[q].state /\ t \in Tasks
  BY <1>1 DEF Tasks
<1> HIDE DEF t
<1>3. ASSUME NEW u \in Tasks, u.state = "blocked"
      PROVE  /\ Unblock(u).pc = u.pc /\ Unblock(u).waiting = u.waiting
             /\ Unblock(u).wait_pid = u.wait_pid /\ Unblock(u).ppid = u.ppid
             /\ Unblock(u).done = u.done /\ Unblock(u).wake_pending = u.wake_pending
             /\ Unblock(u).state = "ready"
  BY <1>3 DEF Unblock, Tasks
<1>4. \/ on_tick(T, now)[q] = T[q]
      \/ T[q].state = "blocked" /\ on_tick(T, now)[q] \in {Unblock(t), Unblock(T[q])}
  BY DEF on_tick, t
<1> QED
  BY <1>1, <1>2, <1>3, <1>4 DEF Follows

\* What switch_to() does to each process.
LEMMA SwitchEach ==
  ASSUME NEW T \in Tables, NEW to \in Pids, NEW q \in Pids, NEW u, u = switch_to(T, to)[q]
  PROVE  /\ u.pc = T[q].pc /\ u.waiting = T[q].waiting /\ u.wait_pid = T[q].wait_pid
         /\ u.ppid = T[q].ppid /\ u.done = T[q].done /\ u.wake_pending = T[q].wake_pending
         /\ IF q = to THEN u.state = "running"
            ELSE u.state = IF q = g_current /\ T[q].state = "running" THEN "ready"
                           ELSE T[q].state
<1>1. T[q] \in Tasks
  BY DEF Tables
<1> DEFINE t == [T[q] EXCEPT !.state = "running", !.quantum = kQuantum]
           r == [T[q] EXCEPT !.state = "ready"]
<1>2. /\ t.pc = T[q].pc /\ t.waiting = T[q].waiting /\ t.wait_pid = T[q].wait_pid
      /\ t.ppid = T[q].ppid /\ t.done = T[q].done /\ t.wake_pending = T[q].wake_pending
      /\ t.state = "running" /\ t \in Tasks
  <2>1. kQuantum \in 0 .. kQuantum
    BY TableAssumption
  <2> QED
    BY <1>1, <2>1 DEF Tasks, States
<1>3. /\ r.pc = T[q].pc /\ r.waiting = T[q].waiting /\ r.wait_pid = T[q].wait_pid
      /\ r.ppid = T[q].ppid /\ r.done = T[q].done /\ r.wake_pending = T[q].wake_pending
      /\ r.state = "ready"
  BY <1>1 DEF Tasks
<1>4. u = IF q = to THEN IF t.pc = "user" THEN deliver_pending(t) ELSE t
          ELSE IF q = g_current /\ T[q].state = "running" THEN r ELSE T[q]
  BY DEF switch_to
<1> HIDE DEF t, r
<1>5. LET d == deliver_pending(t)
      IN  /\ d.pc = t.pc /\ d.waiting = t.waiting /\ d.wait_pid = t.wait_pid
          /\ d.ppid = t.ppid /\ d.done = t.done /\ d.wake_pending = t.wake_pending
          /\ d.state = t.state
  BY <1>2 DEF deliver_pending, Tasks
<1> QED
  BY <1>2, <1>3, <1>4, <1>5

\* What a signal does to each process.
LEMMA SignalEach ==
  ASSUME NEW T \in Tables, NEW p \in Pids, NEW sig, NEW q \in Pids,
         NEW u, u = signal_task(T, p, sig)[q]
  PROVE  /\ u.pc = T[q].pc /\ u.waiting = T[q].waiting /\ u.wait_pid = T[q].wait_pid
         /\ u.ppid = T[q].ppid /\ u.done = T[q].done /\ u.wake_pending = T[q].wake_pending
         /\ \/ u.state = T[q].state
            \/ q = p /\ T[q].state = "blocked" /\ u.state = "ready"
            \/ q = p /\ T[q].state \notin Dead \cup {"free"} /\ u.state = "killed"
<1>1. T[q] \in Tasks
  BY DEF Tables
<1> DEFINE t == [T[q] EXCEPT !.sig_pending = sig]
           k == [T[q] EXCEPT !.ending = sig, !.state = "killed"]
<1>2. /\ t.pc = T[q].pc /\ t.waiting = T[q].waiting /\ t.wait_pid = T[q].wait_pid
      /\ t.ppid = T[q].ppid /\ t.done = T[q].done /\ t.wake_pending = T[q].wake_pending
      /\ t.state = T[q].state
  BY <1>1 DEF Tasks
<1>3. /\ k.pc = T[q].pc /\ k.waiting = T[q].waiting /\ k.wait_pid = T[q].wait_pid
      /\ k.ppid = T[q].ppid /\ k.done = T[q].done /\ k.wake_pending = T[q].wake_pending
      /\ k.state = "killed"
  BY <1>1 DEF Tasks
<1>4. T[q].state = "blocked" =>
        LET b == Unblock(t)
        IN  /\ b.pc = t.pc /\ b.waiting = t.waiting /\ b.wait_pid = t.wait_pid
            /\ b.ppid = t.ppid /\ b.done = t.done /\ b.wake_pending = t.wake_pending
            /\ b.state = "ready"
  BY <1>1 DEF Unblock, Tasks
<1>5. \/ u = T[q]
      \/ q = p /\ T[q].state \notin Dead \cup {"free"} /\ u = k
      \/ q = p /\ T[q].state = "blocked" /\ u = Unblock(t)
      \/ u = t
  BY <1>2 DEF signal_task, CanSignal, Tables
<1> HIDE DEF t, k
<1> QED
  BY <1>2, <1>3, <1>4, <1>5

-----------------------------------------------------------------------------
(* Wake-ups kept for later, and notes.  NoStaleWake is not inductive: a    *)
(* wake-up is kept only for a process that `waiting' marks, so the mark    *)
(* must be gone once the process has left the wait.  NotesKept needs that  *)
(* a slot nobody has holds no notes.                                       *)

Tidy(p, t) ==
  /\ t.waiting => t.pc \in {"wait", "park"}
  /\ p \notin Woken /\ t.wake_pending => t.waiting
  /\ t.state = "free" => t.done = {}
TidyAll(T) == \A p \in Pids : Tidy(p, T[p])

\* From T to U nobody but the current process loses a note, unless it is swept up,
\* and no free slot is taken.
Kept(T, U) ==
  \A p \in Pids \ {g_current} :
    /\ U[p].state = "free" \/ T[p].done \subseteq U[p].done
    /\ T[p].state = "free" => U[p].state = "free"

\* Two stretches of one step keep what each keeps.
LEMMA KeptTwice ==
  ASSUME NEW T, NEW U, NEW V, Kept(T, U), Kept(U, V)
  PROVE  Kept(T, V)
  BY DEF Kept

\* Who follows a tidy process is tidy.
LEMMA FollowsTidy ==
  ASSUME NEW p, NEW t, NEW u, Tidy(p, t), Follows(t, u)
  PROVE  Tidy(p, u)
  BY DEF Tidy, Follows

\* announce() adds to lists and takes nothing away.
LEMMA AnnounceTidy ==
  ASSUME NEW T \in Tables, NEW p \in Pids, TidyAll(T)
  PROVE  TidyAll(announce(T, p)) /\ Kept(T, announce(T, p))
<1>1. ASSUME NEW q \in Pids
      PROVE  Tidy(q, T[q]) /\ Follows(T[q], announce(T, p)[q])
  BY AnnounceFollows DEF TidyAll
<1>2. TidyAll(announce(T, p))
  BY <1>1, FollowsTidy DEF TidyAll
<1> QED
  BY <1>1, <1>2 DEF Kept, Follows

\* A cleared slot is tidy.
LEMMA ClearedTidy == (\A p : Tidy(p, Cleared)) /\ Cleared.state = "free"
  BY DEF Tidy, Cleared

\* reap() drops the lists of the slots it clears, no others.
LEMMA ReapTidy ==
  ASSUME NEW T \in Tables, TidyAll(T)
  PROVE  TidyAll(reap(T)) /\ Kept(T, reap(T))
<1>1. ASSUME NEW q \in Pids
      PROVE  /\ Tidy(q, T[q])
             /\ reap(T)[q] = Cleared \/ Follows(T[q], reap(T)[q])
             /\ T[q].state = "free" => Follows(T[q], reap(T)[q])
  BY ReapFollows DEF TidyAll, Dead
<1>2. TidyAll(reap(T))
  BY <1>1, FollowsTidy, ClearedTidy DEF TidyAll
<1> QED
  BY <1>1, <1>2, ClearedTidy DEF Kept, Follows

\* on_tick() touches no list.
LEMMA TickTidy ==
  ASSUME NEW T \in Tables, NEW now, TidyAll(T)
  PROVE  TidyAll(on_tick(T, now)) /\ Kept(T, on_tick(T, now))
<1>1. ASSUME NEW q \in Pids
      PROVE  Tidy(q, T[q]) /\ Follows(T[q], on_tick(T, now)[q])
  BY TickFollows DEF TidyAll
<1>2. TidyAll(on_tick(T, now))
  BY <1>1, FollowsTidy DEF TidyAll
<1> QED
  BY <1>1, <1>2 DEF Kept, Follows

\* signal_task() touches no list.
LEMMA SignalTidy ==
  ASSUME NEW T \in Tables, NEW p \in Pids, NEW sig, TidyAll(T)
  PROVE  TidyAll(signal_task(T, p, sig)) /\ Kept(T, signal_task(T, p, sig))
<1>1. ASSUME NEW q \in Pids
      PROVE  LET u == signal_task(T, p, sig)[q]
             IN  /\ Tidy(q, u) /\ u.done = T[q].done
                 /\ u.state = "free" <=> T[q].state = "free"
  BY SignalEach DEF TidyAll, Tidy
<1> QED
  BY <1>1 DEF Kept, TidyAll

\* The keyboard and the pipes wake whom they may, and touch no list.
LEMMA WokeTidy ==
  ASSUME NEW T \in Tables, NEW S \in SUBSET Woken, TidyAll(T)
  PROVE  TidyAll(Woke(T, S)) /\ Kept(T, Woke(T, S))
<1>1. ASSUME NEW q \in Pids
      PROVE  LET u == Woke(T, S)[q]
             IN  /\ Tidy(q, u) /\ u.done = T[q].done
                 /\ u.state = "free" <=> T[q].state = "free"
  <2>1. T[q] \in Tasks /\ Tidy(q, T[q])
    BY DEF Tables, TidyAll
  <2>2. LET b == Unblock(T[q])
        IN  /\ b.pc = T[q].pc /\ b.waiting = T[q].waiting /\ b.done = T[q].done
            /\ b.state = "free" <=> T[q].state = "free"
    BY <2>1 DEF Unblock, Tasks
  <2>3. q \in S => q \in Woken
    OBVIOUS
  <2> QED
    BY <2>1, <2>2, <2>3 DEF Woke, Tidy
<1> QED
  BY <1>1 DEF Kept, TidyAll

\* Whoever switch_to() is given gets the CPU, even if the slot was free by then.
LEMMA SwitchTidy ==
  ASSUME NEW T \in Tables, NEW to \in Pids, TidyAll(T)
  PROVE  /\ TidyAll(switch_to(T, to))
         /\ T[to].state # "free" => Kept(T, switch_to(T, to))
         /\ \A q \in Pids : switch_to(T, to)[q].done = T[q].done
<1>1. ASSUME NEW q \in Pids
      PROVE  LET u == switch_to(T, to)[q]
             IN  /\ Tidy(q, u) /\ u.done = T[q].done
                 /\ T[to].state # "free" /\ T[q].state = "free" => u.state = "free"
  BY SwitchEach DEF TidyAll, Tidy
<1> QED
  BY <1>1 DEF Kept, TidyAll

\* The current process may be given any tidy entry.
LEMMA MeTidy ==
  ASSUME CpuTyped, NEW T \in Tables, TidyAll(T), NEW t, Tidy(g_current, t)
  PROVE  LET U == [T EXCEPT ![g_current] = t]
         IN  TidyAll(U) /\ Kept(T, U)
  BY DEF TidyAll, Kept, Tables

-----------------------------------------------------------------------------
(* The ways a handler ends, one lemma each                                 *)

\* The step leaves the table tidy and takes a note of T from its owner only.
Proper(T) == TidyAll(g_tasks') /\ Kept(T, g_tasks')

\* The way back to user mode, of a process that is not waiting.
LEMMA ReturnTidy ==
  ASSUME CpuTyped, NEW T \in Tables, TidyAll(T), ~T[g_current].waiting, Return(T)
  PROVE  Proper(T)
<1> DEFINE t == [T[g_current] EXCEPT !.pc = "user", !.wait_pid = 0]
<1>1. T[g_current] \in Tasks /\ Tidy(g_current, T[g_current])
  BY DEF CpuTyped, Tables, TidyAll
<1>2. LET d == deliver_pending(t)
      IN  /\ d.waiting = T[g_current].waiting /\ d.wake_pending = T[g_current].wake_pending
          /\ d.state = T[g_current].state /\ d.done = T[g_current].done
  BY <1>1 DEF deliver_pending, Tasks
<1> HIDE DEF t
<1>3. Tidy(g_current, deliver_pending(t))
  BY <1>1, <1>2 DEF Tidy
<1> QED
  BY <1>3, MeTidy DEF Return, Proper, t

\* task_switch_now(), with interrupts off or on.
LEMMA SuspendTidy ==
  ASSUME CpuTyped, NEW T \in Tables, TidyAll(T), Suspend(T) \/ SuspendOpen(T)
  PROVE  Proper(T)
<1>1. TidyAll(reap(T)) /\ Kept(T, reap(T)) /\ reap(T) \in Tables
  BY ReapTidy, ReapType
<1>2. ASSUME NEW to \in Pids, Picks(reap(T), to)
      PROVE  LET V == switch_to(reap(T), to) IN TidyAll(V) /\ Kept(T, V)
  <2>1. reap(T)[to].state # "free"
    BY <1>2 DEF Picks
  <2> QED
    BY <1>1, <2>1, SwitchTidy, KeptTwice
<1>3. Kept(T, T)
  BY DEF Kept
<1> QED
  BY <1>1, <1>2, <1>3 DEF Suspend, SuspendOpen, Panic, Proper

\* exit() of a process that is not waiting.
LEMMA EndWithTidy ==
  ASSUME CpuTyped, NEW T \in Tables, NEW code \in Codes, TidyAll(T),
         ~T[g_current].waiting, EndWith(T, code)
  PROVE  Proper(T)
<1> DEFINE me == T[g_current]
           end == [me EXCEPT !.ending = IF me.state = "killed" THEN @ ELSE code,
                             !.state = "zombie", !.pc = "exit"]
           gone == [T EXCEPT ![g_current] = end]
<1>1. g_current \in Pids /\ me \in Tasks /\ Tidy(g_current, me)
  BY DEF CpuTyped, Tables, TidyAll
<1>2. end \in Tasks /\ Tidy(g_current, end)
  BY <1>1 DEF Tasks, States, Places, Tidy
<1>3. Suspend(announce(gone, g_current))
  BY <1>1 DEF EndWith, Tables
<1> HIDE DEF end
<1>4. gone \in Tables /\ TidyAll(gone) /\ Kept(T, gone)
  BY <1>1, <1>2, MeTidy DEF Tables
<1> HIDE DEF gone
<1>5. /\ announce(gone, g_current) \in Tables /\ TidyAll(announce(gone, g_current))
      /\ Kept(gone, announce(gone, g_current))
  BY <1>1, <1>4, AnnounceType, AnnounceTidy
<1>6. Proper(announce(gone, g_current))
  BY <1>3, <1>5, SuspendTidy
<1> QED
  BY <1>4, <1>5, <1>6, KeptTwice DEF Proper

\* block(), whether a kept wake-up is used up or the CPU goes to somebody else.
LEMMA BlockTidy ==
  ASSUME CpuTyped, NEW T \in Tables, TidyAll(T), block(T, FALSE) \/ block(T, TRUE)
  PROVE  Proper(T)
<1> DEFINE t == T[g_current]
           awake == [t EXCEPT !.wake_pending = FALSE, !.state = "running"]
           parked == [t EXCEPT !.state = "blocked"]
<1>1. g_current \in Pids /\ t \in Tasks /\ Tidy(g_current, t)
  BY DEF CpuTyped, Tables, TidyAll
<1>2. Tidy(g_current, awake) /\ Tidy(g_current, parked) /\ parked \in Tasks
  BY <1>1 DEF Tidy, Tasks, States
<1>3. [T EXCEPT ![g_current].wake_pending = FALSE, ![g_current].state = "running"]
        = [T EXCEPT ![g_current] = awake]
  BY <1>1 DEF Tables
<1>4. [T EXCEPT ![g_current].state = "blocked"] = [T EXCEPT ![g_current] = parked]
  BY <1>1 DEF Tables
<1> HIDE DEF awake, parked
<1> DEFINE A == [T EXCEPT ![g_current] = awake]
           B == [T EXCEPT ![g_current] = parked]
<1>5. TidyAll(A) /\ Kept(T, A) /\ TidyAll(B) /\ Kept(T, B) /\ B \in Tables
  BY <1>1, <1>2, MeTidy DEF Tables
<1> HIDE DEF A, B
<1>6. g_tasks' = A \/ Suspend(B) \/ SuspendOpen(B)
  BY <1>3, <1>4 DEF block, schedule, A, B
<1>7. Suspend(B) \/ SuspendOpen(B) => Proper(B)
  BY <1>5, SuspendTidy
<1> QED
  BY <1>5, <1>6, <1>7, KeptTwice DEF Proper

\* A turn of wait_for's loop, entered outside the wait.
LEMMA WaitTurnTidy ==
  ASSUME CpuTyped, TidyAll(g_tasks), ~g_tasks[g_current].waiting,
         NEW pid \in 0 .. kMaxTask, NEW nowait \in BOOLEAN,
         WaitTurn(pid, nowait, FALSE) \/ WaitTurn(pid, nowait, TRUE)
  PROVE  Proper(g_tasks)
<1> DEFINE swept == [g_tasks EXCEPT ![g_current].wake_pending = FALSE]
           T == reap(swept)
           cleared == [g_tasks[g_current] EXCEPT !.wake_pending = FALSE]
<1>1. g_current \in Pids /\ g_tasks[g_current] \in Tasks /\ g_tasks \in Tables
      /\ Tidy(g_current, g_tasks[g_current])
  BY MeType DEF CpuTyped, TidyAll
<1>2. cleared \in Tasks /\ Tidy(g_current, cleared) /\ ~cleared.waiting
  BY <1>1 DEF Tasks, Tidy
<1>3. swept = [g_tasks EXCEPT ![g_current] = cleared]
  BY <1>1 DEF Tables
<1> HIDE DEF cleared
<1>4. /\ swept \in Tables /\ TidyAll(swept) /\ Kept(g_tasks, swept)
      /\ ~swept[g_current].waiting
  BY <1>1, <1>2, <1>3, MeTidy DEF Tables
<1> HIDE DEF swept
<1>5. T \in Tables /\ TidyAll(T) /\ Kept(swept, T) /\ ~T[g_current].waiting
  <2>1. Cleared.waiting = FALSE
    BY DEF Cleared
  <2> QED
    BY <1>1, <1>4, <2>1, ReapType, ReapTidy, ReapFollows DEF Follows
<1> HIDE DEF T
<1>6. T[g_current] \in Tasks /\ Tidy(g_current, T[g_current]) /\ Kept(g_tasks, T)
  BY <1>1, <1>4, <1>5, KeptTwice DEF Tables, TidyAll
<1> DEFINE taken(n) == [T EXCEPT ![g_current].done = @ \ {n}]
           parked == [T EXCEPT ![g_current].waiting = TRUE, ![g_current].wait_pid = pid,
                               ![g_current].pc = "wait"]
<1>7. ASSUME NEW U \in Tables, TidyAll(U), Kept(T, U), Proper(U)
      PROVE  Proper(g_tasks)
  BY <1>6, <1>7, KeptTwice DEF Proper
<1>8. ASSUME NEW n, Return(taken(n))
      PROVE  Proper(g_tasks)
  <2> DEFINE less == [T[g_current] EXCEPT !.done = @ \ {n}]
  <2>1. less \in Tasks /\ Tidy(g_current, less) /\ ~less.waiting
    BY <1>5, <1>6 DEF Tasks, Tidy
  <2>2. taken(n) = [T EXCEPT ![g_current] = less]
    BY <1>1, <1>5 DEF Tables
  <2> HIDE DEF less
  <2>3. /\ taken(n) \in Tables /\ TidyAll(taken(n)) /\ Kept(T, taken(n))
        /\ ~taken(n)[g_current].waiting
    BY <1>1, <1>5, <2>1, <2>2, MeTidy DEF Tables
  <2> HIDE DEF taken
  <2> QED
    BY <1>7, <1>8, <2>3, ReturnTidy
<1>9. ASSUME block(parked, FALSE)
      PROVE  Proper(g_tasks)
  <2> DEFINE m == [T[g_current] EXCEPT !.waiting = TRUE, !.wait_pid = pid, !.pc = "wait"]
  <2>1. m \in Tasks /\ Tidy(g_current, m)
    BY <1>6 DEF Tasks, Places, Tidy
  <2>2. parked = [T EXCEPT ![g_current] = m]
    BY <1>1, <1>5 DEF Tables
  <2> HIDE DEF m
  <2>3. parked \in Tables /\ TidyAll(parked) /\ Kept(T, parked)
    BY <1>1, <1>5, <2>1, <2>2, MeTidy DEF Tables
  <2> HIDE DEF parked
  <2> QED
    BY <1>7, <1>9, <2>3, BlockTidy
<1>10. Panic(swept) => Proper(g_tasks)
  BY <1>4 DEF Panic, Proper
<1>11. Return(T) => Proper(g_tasks)
  BY <1>5, <1>6, ReturnTidy, KeptTwice DEF Proper
<1>12. CASE WaitTurn(pid, nowait, FALSE)
  BY <1>12, <1>8, <1>9, <1>10, <1>11, Zenon DEF WaitTurn, T, swept
<1> DEFINE atpark == [T EXCEPT ![g_current].waiting = TRUE, ![g_current].wait_pid = pid,
                               ![g_current].pc = "park"]
<1>13. ASSUME g_tasks' = atpark
       PROVE  Proper(g_tasks)
  <2> DEFINE m == [T[g_current] EXCEPT !.waiting = TRUE, !.wait_pid = pid, !.pc = "park"]
  <2>1. m \in Tasks /\ Tidy(g_current, m)
    BY <1>6 DEF Tasks, Places, Tidy
  <2>2. atpark = [T EXCEPT ![g_current] = m]
    BY <1>1, <1>5 DEF Tables
  <2> HIDE DEF m
  <2>3. TidyAll(atpark) /\ Kept(T, atpark)
    BY <1>1, <1>5, <2>1, <2>2, MeTidy
  <2> HIDE DEF atpark
  <2> QED
    BY <1>6, <1>13, <2>3, KeptTwice DEF Proper
<1>14. CASE WaitTurn(pid, nowait, TRUE)
  BY <1>14, <1>8, <1>10, <1>11, <1>13, Zenon DEF WaitTurn, T, swept
<1> QED
  BY <1>12, <1>14

\* preempt(), whether the CPU moves or not.
LEMMA PreemptTidy ==
  ASSUME CpuTyped, NEW T \in Tables, TidyAll(T), preempt(T)
  PROVE  Proper(T)
<1> DEFINE t == T[g_current]
           left == IF t.quantum = 0 THEN 0 ELSE t.quantum - 1
           older == [t EXCEPT !.quantum = left]
           spent == IF t.state \in Dead THEN T ELSE [T EXCEPT ![g_current].quantum = left]
<1>1. g_current \in Pids /\ t \in Tasks /\ Tidy(g_current, t)
  BY DEF CpuTyped, Tables, TidyAll
<1>2. left \in 0 .. kQuantum
  BY <1>1, TableAssumption DEF Tasks
<1> HIDE DEF left
<1>3. older \in Tasks /\ Tidy(g_current, older)
  BY <1>1, <1>2 DEF Tasks, Tidy
<1>4. [T EXCEPT ![g_current].quantum = left] = [T EXCEPT ![g_current] = older]
  BY <1>1 DEF Tables
<1> HIDE DEF older
<1>5. spent \in Tables /\ TidyAll(spent) /\ Kept(T, spent) /\ Kept(T, T)
  <2>1. Kept(T, T)
    BY DEF Kept
  <2> QED
    BY <1>1, <1>3, <1>4, <2>1, MeTidy DEF Tables
<1> HIDE DEF spent
<1>6. reap(spent) \in Tables /\ TidyAll(reap(spent)) /\ Kept(T, reap(spent))
  BY <1>5, ReapType, ReapTidy, KeptTwice
<1>7. ASSUME NEW to \in Pids, Picks(reap(spent), to)
      PROVE  LET V == switch_to(reap(spent), to) IN TidyAll(V) /\ Kept(T, V)
  <2>1. reap(spent)[to].state # "free"
    BY <1>7 DEF Picks
  <2> QED
    BY <1>6, <2>1, SwitchTidy, KeptTwice
<1> QED
  BY <1>5, <1>6, <1>7 DEF preempt, Panic, Proper, spent, left

\* What a step may do to the notes, the action of NotesKept.
KeepsNotes ==
  \A p \in Pids : \A n \in g_tasks[p].done :
    \/ p = g_current \/ g_tasks'[p].state = "free" \/ n \in g_tasks'[p].done
    \/ g_tasks[n.pid].state = "free"

\* fork_user() drops the notes about the slot it takes, and no others.
LEMMA ForkTidy ==
  ASSUME CpuTyped, TidyAll(g_tasks), Fork
  PROVE  TidyAll(g_tasks') /\ KeepsNotes
<1> DEFINE born == [Cleared EXCEPT !.state = "ready", !.ppid = g_current]
<1>1. PICK s \in Pids \ {kPid1} :
        /\ g_tasks[s].state = "free"
        /\ \/ Return([purge_notes(g_tasks, s) EXCEPT ![s] = born])
           \/ Return([purge_notes(g_tasks, s) EXCEPT ![s] = Cleared])
  BY DEF Fork
<1> DEFINE P == purge_notes(g_tasks, s)
<1>2. /\ g_tasks \in Tables /\ g_current \in Pids /\ g_tasks[g_current].pc = "user"
      /\ g_current \in 0 .. kMaxTask
  BY DEF Fork, InUser, Me, CpuTyped, Pids
<1>3. ASSUME NEW q \in Pids
      PROVE  /\ P[q] \in Tasks /\ Tidy(q, P[q]) /\ P[q].state = g_tasks[q].state
             /\ P[q].done = {n \in g_tasks[q].done : n.pid # s}
             /\ P[q].waiting = g_tasks[q].waiting
  BY <1>2 DEF purge_notes, Tables, Tasks, Tidy, TidyAll
<1>4. P \in Tables
  BY <1>3 DEF purge_notes, Tables
<1>5. ~g_tasks[g_current].waiting /\ g_tasks[s].done = {}
  BY <1>1, <1>2 DEF TidyAll, Tidy
<1>6. born \in Tasks /\ Tidy(s, born) /\ ~born.waiting /\ ~Cleared.waiting
  <2>1. born \in Tasks
    BY <1>2, ClearedType DEF Tasks, States
  <2>2. Tidy(s, born) /\ ~born.waiting /\ ~Cleared.waiting
    BY DEF Tidy, Cleared
  <2> QED
    BY <2>1, <2>2
<1> HIDE DEF born, P
<1>7. ASSUME NEW t \in Tasks, Tidy(s, t), ~t.waiting, Return([P EXCEPT ![s] = t])
      PROVE  TidyAll(g_tasks') /\ KeepsNotes
  <2> DEFINE U == [P EXCEPT ![s] = t]
  <2>1. /\ U \in Tables /\ TidyAll(U) /\ ~U[g_current].waiting
        /\ \A q \in Pids : q # s => U[q] = P[q]
    BY <1>2, <1>3, <1>4, <1>5, <1>7 DEF Tables, TidyAll
  <2> HIDE DEF U
  <2>2. TidyAll(g_tasks') /\ Kept(U, g_tasks')
    BY <1>7, <2>1, ReturnTidy DEF Proper, U
  <2>3. ASSUME NEW q \in Pids, NEW n \in g_tasks[q].done, q # g_current,
               g_tasks[n.pid].state # "free", g_tasks'[q].state # "free"
        PROVE  n \in g_tasks'[q].done
    <3>1. q # s /\ n.pid # s
      BY <1>1, <1>5, <2>3
    <3>2. n \in U[q].done
      BY <1>3, <2>1, <2>3, <3>1
    <3> QED
      BY <2>2, <2>3, <3>2 DEF Kept
  <2> QED
    BY <2>2, <2>3 DEF KeepsNotes
<1> QED
  BY <1>1, <1>6, <1>7, ClearedType, ClearedTidy DEF P

\* Every step leaves the table tidy and the notes with their owners.
LEMMA NextTidy ==
  ASSUME TypeOK, TidyAll(g_tasks), [Next]_vars
  PROVE  TidyAll(g_tasks') /\ KeepsNotes
<1>1. CpuTyped /\ g_tasks \in Tables /\ g_current \in Pids
  BY DEF TypeOK, CpuTyped, Tables
<1> DEFINE me == g_tasks[g_current]
<1>2. me \in Tasks /\ Tidy(g_current, me)
  BY <1>1 DEF Tables, TidyAll
<1>3. ASSUME Proper(g_tasks) PROVE TidyAll(g_tasks') /\ KeepsNotes
  BY <1>3 DEF Proper, Kept, KeepsNotes
<1>4. InUser => ~me.waiting
  BY <1>2 DEF InUser, Me, Tidy
<1>5. ASSUME NEW t \in Tasks, Tidy(g_current, t)
      PROVE  LET N == [g_tasks EXCEPT ![g_current] = t]
             IN  N \in Tables /\ TidyAll(N) /\ Kept(g_tasks, N) /\ N[g_current] = t
  BY <1>1, <1>5, MeTidy DEF Tables
<1>6. ASSUME NEW t \in Tasks, Tidy(g_current, t), ~t.waiting,
             Return([g_tasks EXCEPT ![g_current] = t])
      PROVE  Proper(g_tasks)
  <2> DEFINE N == [g_tasks EXCEPT ![g_current] = t]
  <2>1. N \in Tables /\ TidyAll(N) /\ Kept(g_tasks, N) /\ ~N[g_current].waiting
    BY <1>5, <1>6
  <2> HIDE DEF N
  <2>2. Proper(N)
    BY <1>1, <1>6, <2>1, ReturnTidy DEF N
  <2> QED
    BY <2>1, <2>2, KeptTwice DEF Proper
<1>7. CASE Fork
  BY <1>1, <1>7, ForkTidy
<1>8. CASE Exit
  BY <1>1, <1>3, <1>4, <1>8, EndWithTidy DEF Exit, Codes
<1>9. CASE Fault
  <2> DEFINE t == [me EXCEPT !.ending = kSigSegv, !.state = "killed"]
             hit == [g_tasks EXCEPT ![g_current].ending = kSigSegv,
                                    ![g_current].state = "killed"]
  <2>1. t \in Tasks /\ Tidy(g_current, t) /\ ~t.waiting
    BY <1>2, <1>4, <1>9 DEF Tasks, States, Codes, Signals, Tidy, Fault
  <2>2. hit = [g_tasks EXCEPT ![g_current] = t]
    BY <1>1 DEF Tables
  <2> HIDE DEF t
  <2>3. hit \in Tables /\ TidyAll(hit) /\ Kept(g_tasks, hit) /\ ~hit[g_current].waiting
    BY <1>5, <2>1, <2>2
  <2>4. PICK code \in ExitCodes : EndWith(hit, code)
    BY <1>9 DEF Fault
  <2> HIDE DEF hit
  <2>5. Proper(hit)
    BY <1>1, <2>3, <2>4, EndWithTidy DEF Codes
  <2> QED
    BY <1>3, <2>3, <2>5, KeptTwice DEF Proper
<1>10. CASE Kill
  <2>1. PICK p \in Pids, sig \in Raised :
          \/ EndWith(signal_task(g_tasks, p, sig), sig)
          \/ Return(signal_task(g_tasks, p, sig))
    BY <1>10 DEF Kill
  <2> DEFINE S == signal_task(g_tasks, p, sig)
  <2>2. sig \in Signals /\ sig \in Codes
    BY SignalAssumption DEF Signals, Codes
  <2>3. S \in Tables /\ TidyAll(S) /\ Kept(g_tasks, S)
    BY <1>1, <2>2, SignalType, SignalTidy
  <2>4. ~S[g_current].waiting
    BY <1>1, <1>4, <1>10, SignalEach DEF Kill
  <2> HIDE DEF S
  <2>5. Proper(S)
    BY <1>1, <2>1, <2>2, <2>3, <2>4, EndWithTidy, ReturnTidy DEF S
  <2> QED
    BY <1>3, <2>3, <2>5, KeptTwice DEF Proper
<1>11. CASE Sigaction
  <2>1. PICK h \in SUBSET Catchable :
          Return([g_tasks EXCEPT ![g_current].sig_handlers = h])
    <3>1. PICK sig \in Catchable :
            \/ Return([g_tasks EXCEPT ![g_current].sig_handlers = @ \cup {sig}])
            \/ Return([g_tasks EXCEPT ![g_current].sig_handlers = @ \ {sig}])
      BY <1>11 DEF Sigaction
    <3>2. me.sig_handlers \cup {sig} \in SUBSET Catchable
          /\ me.sig_handlers \ {sig} \in SUBSET Catchable
      BY <1>2 DEF Tasks
    <3> QED
      BY <3>1, <3>2
  <2> DEFINE t == [me EXCEPT !.sig_handlers = h]
  <2>2. t \in Tasks /\ Tidy(g_current, t) /\ ~t.waiting
    BY <1>2, <1>4, <1>11 DEF Tasks, Tidy, Sigaction
  <2>3. [g_tasks EXCEPT ![g_current].sig_handlers = h] = [g_tasks EXCEPT ![g_current] = t]
    BY <1>1 DEF Tables
  <2> HIDE DEF t
  <2> QED
    BY <1>3, <1>6, <2>1, <2>2, <2>3
<1>12. CASE Sigreturn
  <2> DEFINE t == [me EXCEPT !.sig_active = kSigNone]
  <2>1. t \in Tasks /\ Tidy(g_current, t) /\ ~t.waiting
    BY <1>2, <1>4, <1>12 DEF Tasks, Tidy, Sigreturn
  <2>2. [g_tasks EXCEPT ![g_current].sig_active = kSigNone] = [g_tasks EXCEPT ![g_current] = t]
    BY <1>1 DEF Tables
  <2> HIDE DEF t
  <2> QED
    BY <1>3, <1>6, <1>12, <2>1, <2>2 DEF Sigreturn
<1>13. CASE Exec
  <2> DEFINE t == [me EXCEPT !.sig_handlers = {}, !.sig_pending = kSigNone,
                             !.sig_active = kSigNone, !.state = "running"]
  <2>1. t \in Tasks /\ Tidy(g_current, t)
    BY <1>2 DEF Tasks, States, Tidy
  <2>2. g_tasks' = [g_tasks EXCEPT ![g_current] = t]
    BY <1>1, <1>13 DEF Exec, Tables
  <2> HIDE DEF t
  <2> QED
    BY <1>3, <1>5, <2>1, <2>2 DEF Proper
<1>14. CASE Wait \/ WaitAgain
  <2>1. me.wait_pid \in 0 .. kMaxTask /\ ~me.waiting
    BY <1>2, <1>4, <1>14 DEF Tasks, Tidy, Wait, WaitAgain, InKernel, Me
  <2> QED
    BY <1>1, <1>3, <1>14, <2>1, WaitTurnTidy DEF Wait, WaitAgain, Me
<1>15. CASE WaitWake
  <2> DEFINE t == [me EXCEPT !.wake_pending = FALSE, !.waiting = FALSE, !.pc = "loop"]
  <2>1. t \in Tasks /\ Tidy(g_current, t) /\ ~t.waiting
    BY <1>2 DEF Tasks, Places, Tidy
  <2>2. [g_tasks EXCEPT ![g_current].wake_pending = FALSE, ![g_current].waiting = FALSE,
                        ![g_current].pc = "loop"] = [g_tasks EXCEPT ![g_current] = t]
    BY <1>1 DEF Tables
  <2> HIDE DEF t
  <2>3. \/ Return([g_tasks EXCEPT ![g_current] = t])
        \/ g_tasks' = [g_tasks EXCEPT ![g_current] = t]
    BY <1>15, <2>2 DEF WaitWake
  <2> QED
    BY <1>3, <1>5, <1>6, <2>1, <2>3 DEF Proper
<1>16. CASE Sleep
  <2>1. PICK n \in 0 .. MaxSleep :
          \/ Return(g_tasks)
          \/ block([g_tasks EXCEPT ![g_current].sleep_until = (g_ticks + n) % TickWord,
                                   ![g_current].pc = "sleep"], FALSE)
    BY <1>16 DEF Sleep
  <2> DEFINE t == [me EXCEPT !.sleep_until = (g_ticks + n) % TickWord, !.pc = "sleep"]
             T == [g_tasks EXCEPT ![g_current].sleep_until = (g_ticks + n) % TickWord,
                                  ![g_current].pc = "sleep"]
  <2>2. (g_ticks + n) % TickWord \in Nat
    BY TickAssumption DEF TypeOK
  <2>3. t \in Tasks /\ Tidy(g_current, t)
    BY <1>2, <1>4, <1>16, <2>2 DEF Tasks, Places, Tidy, Sleep
  <2>4. T = [g_tasks EXCEPT ![g_current] = t]
    BY <1>1 DEF Tables
  <2> HIDE DEF t
  <2>5. T \in Tables /\ TidyAll(T) /\ Kept(g_tasks, T)
    BY <1>5, <2>3, <2>4
  <2> HIDE DEF T
  <2>6. block(T, FALSE) => Proper(g_tasks)
    BY <1>1, <2>5, BlockTidy, KeptTwice DEF Proper
  <2>7. Return(g_tasks) => Proper(g_tasks)
    BY <1>1, <1>4, <1>16, ReturnTidy DEF Sleep
  <2> QED
    BY <1>3, <2>1, <2>6, <2>7 DEF T
<1>17. CASE SleepWake
  <2> DEFINE t == [me EXCEPT !.wake_pending = FALSE, !.sleep_until = 0]
  <2>1. t \in Tasks /\ Tidy(g_current, t) /\ ~t.waiting
    BY <1>2, <1>17 DEF Tasks, Tidy, SleepWake, InKernel, Me
  <2>2. [g_tasks EXCEPT ![g_current].wake_pending = FALSE, ![g_current].sleep_until = 0]
          = [g_tasks EXCEPT ![g_current] = t]
    BY <1>1 DEF Tables
  <2> HIDE DEF t
  <2> QED
    BY <1>3, <1>6, <1>17, <2>1, <2>2 DEF SleepWake
<1>18. CASE Tick \/ TickInterrupt
  <2> DEFINE N == on_tick(g_tasks, g_ticks')
  <2>1. N \in Tables /\ TidyAll(N) /\ Kept(g_tasks, N)
    BY <1>1, TickType, TickTidy
  <2> HIDE DEF N
  <2>2. ASSUME NEW p \in Interrupted
        PROVE  LET S == signal_task(N, p, kSigInt)
               IN  S \in Tables /\ TidyAll(S) /\ Kept(g_tasks, S)
    BY <2>1, SignalType, SignalTidy, KeptTwice, TickAssumption DEF Signals
  <2>3. ASSUME NEW T \in Tables, TidyAll(T), Kept(g_tasks, T), NEW S \in SUBSET Woken
        PROVE  LET W == Woke(T, S)
               IN  W \in Tables /\ TidyAll(W) /\ Kept(g_tasks, W)
    BY <2>3, WokeType, WokeTidy, KeptTwice
  <2>4. PICK T \in Tables : TidyAll(T) /\ Kept(g_tasks, T) /\ preempt(T)
    <3>1. CASE Tick
      <4>1. PICK S \in SUBSET Woken : preempt(Woke(N, S))
        BY <3>1 DEF Tick, N
      <4> QED
        BY <2>1, <2>3, <4>1
    <3>2. CASE TickInterrupt
      <4>1. PICK p \in Interrupted, S \in SUBSET Woken :
              preempt(Woke(signal_task(N, p, kSigInt), S))
        BY <3>2 DEF TickInterrupt, N
      <4> QED
        BY <2>2, <2>3, <4>1
    <3> QED
      BY <1>18, <3>1, <3>2
  <2> QED
    BY <1>1, <1>3, <2>4, PreemptTidy, KeptTwice DEF Proper
<1>19. CASE IdleSwitch
  <2>1. picked \in Pids
    BY <1>19, TableAssumption DEF IdleSwitch, TypeOK, Pids
  <2> QED
    BY <1>1, <1>19, <2>1, SwitchTidy DEF IdleSwitch, KeepsNotes
<1>20. CASE IdlePick \/ Halt \/ UNCHANGED vars
  BY <1>20 DEF IdlePick, Halt, vars, KeepsNotes
<1>21. CASE WaitPark
  <2> DEFINE t == [me EXCEPT !.pc = "wait"]
             T == [g_tasks EXCEPT ![g_current].pc = "wait"]
  <2>1. t \in Tasks /\ Tidy(g_current, t)
    BY <1>2 DEF Tasks, Places, Tidy
  <2>2. T = [g_tasks EXCEPT ![g_current] = t]
    BY <1>1 DEF Tables
  <2> HIDE DEF t
  <2>3. T \in Tables /\ TidyAll(T) /\ Kept(g_tasks, T) /\ block(T, TRUE)
    BY <1>5, <1>21, <2>1, <2>2 DEF WaitPark
  <2> HIDE DEF T
  <2> QED
    BY <1>1, <1>3, <2>3, BlockTidy, KeptTwice DEF Proper
<1>22. CASE SleepCut
  <2> DEFINE t == [me EXCEPT !.wake_pending = FALSE, !.state = "running", !.sleep_until = 0]
  <2>1. t \in Tasks /\ Tidy(g_current, t) /\ ~t.waiting
    BY <1>2, <1>4, <1>22 DEF Tasks, States, Tidy, SleepCut
  <2>2. [g_tasks EXCEPT ![g_current].wake_pending = FALSE, ![g_current].state = "running",
                        ![g_current].sleep_until = 0] = [g_tasks EXCEPT ![g_current] = t]
    BY <1>1 DEF Tables
  <2> HIDE DEF t
  <2> QED
    BY <1>3, <1>6, <1>22, <2>1, <2>2 DEF SleepCut
<1>23. CASE Wake
  BY <1>1, <1>3, <1>23, WokeTidy DEF Wake, Proper
<1> QED
  BY <1>7, <1>8, <1>9, <1>10, <1>11, <1>12, <1>13, <1>14, <1>15, <1>16, <1>17, <1>18,
     <1>19, <1>20, <1>21, <1>22, <1>23 DEF Next

TidyInv == TidyAll(g_tasks)

\* Initially every slot is tidy, and every step keeps it so.
LEMMA TidyAlways == Spec => []TidyInv
<1>1. Init => TidyInv
  <2> SUFFICES ASSUME Init, NEW p \in Pids PROVE Tidy(p, g_tasks[p])
    BY DEF TidyInv, TidyAll
  <2>1. g_tasks[p] \in {Cleared, [Cleared EXCEPT !.state = "running"]}
    BY DEF Init
  <2>2. Tidy(p, [Cleared EXCEPT !.state = "running"])
    BY DEF Tidy, Cleared
  <2> QED
    BY <2>1, <2>2, ClearedTidy
<1>2. TypeOK /\ TidyInv /\ [Next]_vars => TidyInv'
  BY NextTidy DEF TidyInv
<1> QED
  BY <1>1, <1>2, TypeCorrect, PTL DEF Spec

\* Whatever signals and Ctrl-C do, a wake-up kept for later is for the wait the
\* process is in, unless it is one the keyboard or a pipe may wake: no later sleep is
\* cut short by the end of a child, an alarm or a signal.
THEOREM NoStaleWakeAlways == Spec => []NoStaleWake
<1>1. TidyInv => NoStaleWake
  BY DEF TidyInv, TidyAll, Tidy, NoStaleWake
<1> QED
  BY <1>1, TidyAlways, PTL

\* In every step, also one that kills, sweeps up or interrupts, the notes about ended
\* children stay with who was told, but for those fork_user() drops with a free slot.
THEOREM NotesKeptAlways == Spec => NotesKept
<1>1. TypeOK /\ TidyInv /\ [Next]_vars => [KeepsNotes]_vars
  BY NextTidy DEF TidyInv
<1> QED
  BY <1>1, TypeCorrect, TidyAlways, PTL DEF Spec, NotesKept, KeepsNotes

-----------------------------------------------------------------------------
(* Who is noted has ended, and who is waited for has not.  A Ctrl-C breaks *)
(* both (it may find the process on the CPU, which then ends twice), so    *)
(* what follows is about a terminal nobody interrupts from.                *)

Ended == {"free", "zombie"}

\* A list has one note about a pid, and that process has ended.
Books(T) ==
  \A p \in Pids :
    /\ \A m, n \in T[p].done : m.pid = n.pid => m = n
    /\ \A n \in T[p].done : T[n.pid].state \in Ended

\* Who is parked for one child, or on its way there with no wake-up to stop it, has
\* that child, and it has not ended.
Parked(t) ==
  /\ t.wait_pid # 0
  /\ \/ t.state = "blocked" /\ t.pc = "wait"
     \/ t.state # "free" /\ t.pc = "park" /\ ~t.wake_pending
Awaited(T) ==
  \A p \in Pids :
    Parked(T[p]) => /\ T[T[p].wait_pid].state \notin Ended
                    /\ T[T[p].wait_pid].ppid = p

Quiet(T) == Books(T) /\ Awaited(T)

\* From T to U nobody comes back to life.
Gone == Dead \cup {"free"}
Buried(T, U) == \A p \in Pids : T[p].state \in Gone => U[p].state \in Gone

\* Notes being about different processes, none of them in kids, there is room for
\* all of kids: the parent hears of every one.
LEMMA HearsAll ==
  ASSUME NEW T \in Tables, NEW q \in Pids, NEW kids \in SUBSET Pids,
         \A m, n \in T[q].done : m.pid = n.pid => m = n,
         \A n \in T[q].done : n.pid \notin kids
  PROVE  LET h == Hear(T[q], T, kids)
         IN  /\ h.done = T[q].done \cup {Note(T, c) : c \in kids}
             /\ T[q].waiting /\ kids # {} =>
                  h.state # "blocked" /\ (T[q].state = "blocked" \/ h.wake_pending)
<1> DEFINE t == T[q]
           room(c) == Cardinality(t.done) + Cardinality({d \in kids : d < c}) < kMaxTask
           heard == {c \in kids : room(c)}
           told == [t EXCEPT !.done = @ \cup {Note(T, c) : c \in heard}]
<1>1. t \in Tasks /\ t.done \subseteq Notes
  BY DEF Tables, Tasks
<1>2. IsFiniteSet(Pids) /\ Cardinality(Pids) = kMaxTask /\ Pids \subseteq Nat
  BY FS_Interval, TableAssumption DEF Pids
<1>3. /\ IsFiniteSet(kids) /\ IsFiniteSet(Pids \ kids)
      /\ Cardinality(kids) \in Nat /\ Cardinality(Pids \ kids) \in Nat
      /\ Cardinality(Pids \ kids) + Cardinality(kids) = kMaxTask
  <2>1. IsFiniteSet(kids) /\ Pids \cap kids = kids
    BY <1>2, FS_Subset
  <2>2. IsFiniteSet(Pids \ kids)
        /\ Cardinality(Pids \ kids) = Cardinality(Pids) - Cardinality(Pids \cap kids)
    BY <1>2, FS_Difference
  <2>3. Cardinality(kids) \in Nat /\ Cardinality(Pids \ kids) \in Nat
    BY <2>1, <2>2, FS_CardinalityType
  <2>4. Cardinality(Pids \ kids) = kMaxTask - Cardinality(kids)
    BY <1>2, <2>1, <2>2, Zenon
  <2>5. Cardinality(Pids \ kids) + Cardinality(kids) = kMaxTask
    BY <2>3, <2>4, TableAssumption
  <2> QED
    BY <2>1, <2>2, <2>3, <2>5
<1>4. Cardinality(t.done) \in Nat /\ Cardinality(t.done) <= Cardinality(Pids \ kids)
  <2> DEFINE f == [n \in t.done |-> n.pid]
  <2>1. f \in [t.done -> Pids \ kids]
    BY <1>1 DEF Notes
  <2>2. f \in Injection(t.done, Pids \ kids)
    BY <2>1 DEF Injection, IsInjective
  <2> HIDE DEF f
  <2>3. IsFiniteSet(t.done) /\ Cardinality(t.done) <= Cardinality(Pids \ kids)
    BY <1>3, <2>2, FS_Injection
  <2> QED
    BY <2>3, FS_CardinalityType
<1>5. ASSUME NEW c \in kids PROVE room(c)
  <2> DEFINE below == {d \in kids : d < c}
  <2>1. below \in SUBSET (kids \ {c})
    BY <1>2
  <2>2. IsFiniteSet(kids \ {c}) /\ Cardinality(kids \ {c}) = Cardinality(kids) - 1
    BY <1>3, FS_RemoveElement
  <2> HIDE DEF below
  <2>3. Cardinality(below) \in Nat /\ Cardinality(below) <= Cardinality(kids) - 1
    BY <2>1, <2>2, FS_Subset, FS_CardinalityType
  <2> QED
    BY <1>3, <1>4, <2>3, TableAssumption DEF below
<1>6. heard = kids
  BY <1>5
<1> HIDE DEF room
<1>7. Hear(T[q], T, kids) = IF t.waiting /\ heard # {} THEN Unblock(told) ELSE told
  BY DEF Hear, room
<1> HIDE DEF heard
<1>8. told.done = t.done \cup {Note(T, c) : c \in kids} /\ told.state = t.state
  BY <1>1, <1>6 DEF Tasks
<1>9. /\ Unblock(told).done = told.done /\ Unblock(told).state # "blocked"
      /\ t.state = "blocked" \/ Unblock(told).wake_pending
  BY <1>1 DEF Unblock, Tasks
<1> HIDE DEF told
<1> QED
  BY <1>6, <1>7, <1>8, <1>9

\* reap(): every parent is told, so whoever waited for a killed child is awake.
LEMMA ReapQuiet ==
  ASSUME NEW T \in Tables, Quiet(T), \A p \in Pids : Settled(T[p])
  PROVE  /\ Quiet(reap(T)) /\ Buried(T, reap(T))
         /\ \A p \in Pids : T[p].state \in {"ready", "running"} => reap(T)[p].state = T[p].state
<1> DEFINE U == reap(T)
<1>1. ASSUME NEW q \in Pids
      PROVE  /\ \/ T[q].state \in Dead /\ U[q] = Cleared
                \/ Follows(T[q], U[q])
             /\ q # kPid1 => U[q].state # "killed"
             /\ T[q] \in Tasks
  BY ReapFollows DEF Tables
<1>2. Cleared.state = "free" /\ Cleared.done = {}
  BY DEF Cleared
<1>3. ASSUME NEW q \in Pids, NEW n \in U[q].done
      PROVE  \/ n \in T[q].done
             \/ \E c \in KilledKids(T, q) : n = Note(T, c)
  <2> DEFINE told == Hear(T[q], T, KilledKids(T, q))
             ended == [told EXCEPT !.state = "zombie"]
  <2>1. \A m \in T[q].done : m.pid \notin KilledKids(T, q)
    BY DEF Quiet, Books, KilledKids, Ended
  <2>2. told.done = T[q].done \cup {Note(T, c) : c \in KilledKids(T, q)} /\ told \in Tasks
    BY <1>1, <2>1, HearsAll, HearType DEF Quiet, Books, KilledKids
  <2>3. U[q] \in {T[q], Cleared, told, ended}
    BY DEF reap
  <2> HIDE DEF told
  <2>4. ended.done = told.done
    BY <2>2 DEF Tasks
  <2> HIDE DEF ended, U
  <2> QED
    BY <1>2, <1>3, <2>2, <2>3, <2>4
<1>4. \A q \in Pids : \A c \in KilledKids(T, q) :
        c \in Pids /\ Note(T, c).pid = c /\ T[c].state = "killed" /\ c # kPid1
  BY DEF KilledKids, Note
<1> HIDE DEF U
<1>5. Books(U)
  <2> SUFFICES ASSUME NEW q \in Pids
               PROVE  /\ \A m, n \in U[q].done : m.pid = n.pid => m = n
                      /\ \A n \in U[q].done : U[n.pid].state \in Ended
    BY DEF Books
  <2>1. /\ \A m, n \in T[q].done : m.pid = n.pid => m = n
        /\ \A n \in T[q].done : T[n.pid].state \in Ended /\ n.pid \in Pids
    BY <1>1 DEF Quiet, Books, Tasks, Notes
  <2>2. ASSUME NEW m \in U[q].done, NEW n \in U[q].done, m.pid = n.pid PROVE m = n
    BY <1>3, <1>4, <2>1, <2>2 DEF Ended
  <2>3. ASSUME NEW n \in U[q].done PROVE U[n.pid].state \in Ended
    <3>1. CASE n \in T[q].done
      BY <1>1, <1>2, <2>1, <3>1 DEF Ended, Follows, Dead
    <3>2. CASE \E c \in KilledKids(T, q) : n = Note(T, c)
      BY <1>1, <1>2, <1>4, <3>2 DEF Ended, Follows
    <3> QED
      BY <1>3, <3>1, <3>2
  <2> QED
    BY <2>2, <2>3
<1>6. Awaited(U)
  <2> SUFFICES ASSUME NEW p \in Pids, Parked(U[p])
               PROVE  /\ U[U[p].wait_pid].state \notin Ended
                      /\ U[U[p].wait_pid].ppid = p
    BY DEF Awaited
  <2>1. /\ Follows(T[p], U[p]) /\ Parked(T[p]) /\ T[p].state # "free"
        /\ U[p].wait_pid = T[p].wait_pid
    BY <1>1, <1>2 DEF Follows, Parked
  <2> DEFINE w == T[p].wait_pid
  <2>2. w \in Pids /\ T[w].state \notin Ended /\ T[w].ppid = p /\ T[p].waiting
    <3>1. w \in Pids
      BY <1>1, <2>1, TableAssumption DEF Parked, Tasks, Pids
    <3> QED
      BY <2>1, <3>1 DEF Quiet, Awaited, Parked, Settled
  <2>3. ~(T[w].state = "killed" /\ w # kPid1)
    <3> SUFFICES ASSUME T[w].state = "killed", w # kPid1 PROVE FALSE
      OBVIOUS
    <3>1. w \in KilledKids(T, p)
      BY <2>2 DEF KilledKids
    <3>2. \A m \in T[p].done : m.pid \notin KilledKids(T, p)
      BY DEF Quiet, Books, KilledKids, Ended
    <3> DEFINE told == Hear(T[p], T, KilledKids(T, p))
    <3>3. told.state # "blocked" /\ (T[p].state = "blocked" \/ told.wake_pending) /\ told \in Tasks
      <4>1. KilledKids(T, p) \in SUBSET Pids /\ KilledKids(T, p) # {}
        BY <3>1 DEF KilledKids
      <4>2. \A m, n \in T[p].done : m.pid = n.pid => m = n
        BY DEF Quiet, Books
      <4>3. told \in Tasks
        BY <1>1, <4>1, HearType
      <4> QED
        BY <2>2, <3>2, <4>1, <4>2, <4>3, HearsAll
    <3>4. U[p] \in {told, [told EXCEPT !.state = "zombie"]}
      <4>1. U[p] # Cleared
        BY DEF Parked, Cleared
      <4> QED
        BY <2>1, <4>1 DEF reap, U
    <3> HIDE DEF told
    <3>5. U[p].state # "blocked" /\ U[p].wake_pending = told.wake_pending
      BY <3>3, <3>4 DEF Tasks
    <3>6. T[p].state # "blocked" /\ U[p].pc = "park"
      BY <2>1, <3>5 DEF Parked, Follows, Settled
    <3> QED
      BY <3>3, <3>5, <3>6 DEF Parked
  <2>4. Follows(T[w], U[w])
    BY <1>1, <2>2, <2>3, ReapFollows DEF U, Dead, Ended
  <2>5. U[w].state \notin Ended /\ U[w].ppid = p
    <3>1. T[w].state = "killed" => U[w].state = "killed"
      <4> SUFFICES ASSUME T[w].state = "killed" PROVE U[w].state = "killed"
        OBVIOUS
      <4>1. U[w] = Hear(T[w], T, KilledKids(T, w))
        BY <2>2, <2>3 DEF reap, U
      <4> QED
        BY <1>1, <2>2, <4>1, HearFollows DEF KilledKids
    <3> QED
      BY <2>2, <2>4, <3>1 DEF Follows, Ended
  <2> QED
    BY <2>1, <2>5
<1>7. Buried(T, U)
  BY <1>1, <1>2 DEF Buried, Gone, Dead, Follows
<1>8. \A p \in Pids : T[p].state \in {"ready", "running"} => U[p].state = T[p].state
  BY <1>1 DEF Follows, Dead
<1> QED
  BY <1>5, <1>6, <1>7, <1>8 DEF Quiet, U

\* switch_to() a process that is ready.
LEMMA SwitchQuiet ==
  ASSUME NEW T \in Tables, NEW to \in Pids, T[to].state = "ready", Quiet(T)
  PROVE  LET V == switch_to(T, to)
         IN  Quiet(V) /\ Buried(T, V) /\ V[to].state = "running"
<1> DEFINE V == switch_to(T, to)
<1>1. ASSUME NEW q \in Pids
      PROVE  /\ V[q].done = T[q].done /\ V[q].pc = T[q].pc /\ V[q].ppid = T[q].ppid
             /\ V[q].wait_pid = T[q].wait_pid /\ (T[q].wake_pending => V[q].wake_pending)
             /\ \/ V[q].state = T[q].state
                \/ T[q].state \in {"ready", "running"} /\ V[q].state \in {"ready", "running"}
             /\ q = to => V[q].state = "running"
             /\ T[q] \in Tasks
  BY SwitchEach DEF Tables
<1> HIDE DEF V
<1>2. \A q \in Pids : \A n \in T[q].done : n.pid \in Pids
  BY <1>1 DEF Tasks, Notes
<1>3. Books(V)
  BY <1>1, <1>2 DEF Quiet, Books, Ended
<1>4. Awaited(V)
  <2> SUFFICES ASSUME NEW p \in Pids, Parked(V[p])
               PROVE  V[V[p].wait_pid].state \notin Ended /\ V[V[p].wait_pid].ppid = p
    BY DEF Awaited
  <2>1. Parked(T[p]) /\ V[p].wait_pid = T[p].wait_pid
    BY <1>1 DEF Parked
  <2>2. T[p].wait_pid \in Pids
    BY <1>1, <2>1, TableAssumption DEF Parked, Tasks, Pids
  <2> QED
    BY <1>1, <2>1, <2>2 DEF Quiet, Awaited, Ended
<1>5. Buried(T, V)
  BY <1>1 DEF Buried, Gone, Dead
<1> QED
  BY <1>1, <1>3, <1>4, <1>5 DEF Quiet, V

\* A signal ends nobody yet: who is killed has still to be swept up.
LEMMA SignalQuiet ==
  ASSUME NEW T \in Tables, NEW p \in Pids, NEW sig, Quiet(T)
  PROVE  LET V == signal_task(T, p, sig)
         IN  /\ Quiet(V) /\ Buried(T, V)
             /\ \A q \in Pids : q # p => V[q].state = T[q].state
<1> DEFINE V == signal_task(T, p, sig)
<1>1. ASSUME NEW q \in Pids
      PROVE  /\ V[q].done = T[q].done /\ V[q].pc = T[q].pc /\ V[q].ppid = T[q].ppid
             /\ V[q].wait_pid = T[q].wait_pid /\ (T[q].wake_pending => V[q].wake_pending)
             /\ \/ V[q].state = T[q].state
                \/ /\ T[q].state \notin Gone /\ V[q].state \in {"ready", "killed"}
                   /\ q = p
             /\ T[q] \in Tasks
  BY SignalEach DEF Tables, Gone, Dead
<1> HIDE DEF V
<1>2. \A q \in Pids : \A n \in T[q].done : n.pid \in Pids
  BY <1>1 DEF Tasks, Notes
<1>3. Books(V)
  BY <1>1, <1>2 DEF Quiet, Books, Ended, Gone, Dead
<1>4. Awaited(V)
  <2> SUFFICES ASSUME NEW q \in Pids, Parked(V[q])
               PROVE  V[V[q].wait_pid].state \notin Ended /\ V[V[q].wait_pid].ppid = q
    BY DEF Awaited
  <2>1. Parked(T[q]) /\ V[q].wait_pid = T[q].wait_pid
    BY <1>1 DEF Parked, Gone
  <2>2. T[q].wait_pid \in Pids
    BY <1>1, <2>1, TableAssumption DEF Parked, Tasks, Pids
  <2> QED
    BY <1>1, <2>1, <2>2 DEF Quiet, Awaited, Ended
<1>5. Buried(T, V)
  BY <1>1 DEF Buried, Gone, Dead
<1> QED
  BY <1>1, <1>3, <1>4, <1>5 DEF Quiet, V

\* A tick wakes the sleeping and nobody else.
LEMMA TickQuiet ==
  ASSUME NEW T \in Tables, NEW now, Quiet(T)
  PROVE  LET V == on_tick(T, now)
         IN  /\ Quiet(V) /\ Buried(T, V)
             /\ \A q \in Pids : T[q].state # "blocked" => V[q].state = T[q].state
<1> DEFINE V == on_tick(T, now)
<1>1. ASSUME NEW q \in Pids
      PROVE  /\ V[q].done = T[q].done /\ V[q].pc = T[q].pc /\ V[q].ppid = T[q].ppid
             /\ V[q].wait_pid = T[q].wait_pid /\ (T[q].wake_pending => V[q].wake_pending)
             /\ \/ V[q].state = T[q].state
                \/ T[q].state = "blocked" /\ V[q].state = "ready"
             /\ T[q] \in Tasks
  BY TickFollows DEF Tables, Follows
<1> HIDE DEF V
<1>2. \A q \in Pids : \A n \in T[q].done : n.pid \in Pids
  BY <1>1 DEF Tasks, Notes
<1>3. Books(V)
  BY <1>1, <1>2 DEF Quiet, Books, Ended
<1>4. Awaited(V)
  <2> SUFFICES ASSUME NEW q \in Pids, Parked(V[q])
               PROVE  V[V[q].wait_pid].state \notin Ended /\ V[V[q].wait_pid].ppid = q
    BY DEF Awaited
  <2>1. Parked(T[q]) /\ V[q].wait_pid = T[q].wait_pid
    BY <1>1 DEF Parked
  <2>2. T[q].wait_pid \in Pids
    BY <1>1, <2>1, TableAssumption DEF Parked, Tasks, Pids
  <2> QED
    BY <1>1, <2>1, <2>2 DEF Quiet, Awaited, Ended
<1>5. Buried(T, V)
  BY <1>1 DEF Buried, Gone, Dead
<1> QED
  BY <1>1, <1>3, <1>4, <1>5 DEF Quiet, V

\* Nor does the keyboard or a pipe.
LEMMA WokeQuiet ==
  ASSUME NEW T \in Tables, NEW S, Quiet(T)
  PROVE  LET V == Woke(T, S)
         IN  /\ Quiet(V) /\ Buried(T, V)
             /\ \A q \in Pids : T[q].state # "blocked" => V[q].state = T[q].state
<1> DEFINE V == Woke(T, S)
<1>1. ASSUME NEW q \in Pids
      PROVE  /\ V[q].done = T[q].done /\ V[q].pc = T[q].pc /\ V[q].ppid = T[q].ppid
             /\ V[q].wait_pid = T[q].wait_pid /\ (T[q].wake_pending => V[q].wake_pending)
             /\ \/ V[q].state = T[q].state
                \/ T[q].state = "blocked" /\ V[q].state = "ready"
             /\ T[q] \in Tasks
  <2>1. T[q] \in Tasks /\ V[q] \in {T[q], Unblock(T[q])}
    BY DEF Woke, Tables
  <2>2. LET b == Unblock(T[q])
        IN  /\ b.done = T[q].done /\ b.pc = T[q].pc /\ b.ppid = T[q].ppid
            /\ b.wait_pid = T[q].wait_pid /\ (T[q].wake_pending => b.wake_pending)
            /\ \/ b.state = T[q].state
               \/ T[q].state = "blocked" /\ b.state = "ready"
    BY <2>1 DEF Unblock, Tasks
  <2> HIDE DEF V
  <2> QED
    BY <2>1, <2>2
<1> HIDE DEF V
<1>2. \A q \in Pids : \A n \in T[q].done : n.pid \in Pids
  BY <1>1 DEF Tasks, Notes
<1>3. Books(V)
  BY <1>1, <1>2 DEF Quiet, Books, Ended
<1>4. Awaited(V)
  <2> SUFFICES ASSUME NEW q \in Pids, Parked(V[q])
               PROVE  V[V[q].wait_pid].state \notin Ended /\ V[V[q].wait_pid].ppid = q
    BY DEF Awaited
  <2>1. Parked(T[q]) /\ V[q].wait_pid = T[q].wait_pid
    BY <1>1 DEF Parked
  <2>2. T[q].wait_pid \in Pids
    BY <1>1, <2>1, TableAssumption DEF Parked, Tasks, Pids
  <2> QED
    BY <1>1, <2>1, <2>2 DEF Quiet, Awaited, Ended
<1>5. Buried(T, V)
  BY <1>1 DEF Buried, Gone, Dead
<1> QED
  BY <1>1, <1>3, <1>4, <1>5 DEF Quiet, V

\* The same for one child.
LEMMA HearsOne ==
  ASSUME NEW T \in Tables, NEW q \in Pids, NEW c \in Pids,
         \A m, n \in T[q].done : m.pid = n.pid => m = n,
         \A n \in T[q].done : n.pid # c
  PROVE  LET h == Hear(T[q], T, {c})
         IN  /\ h.done = T[q].done \cup {Note(T, c)}
             /\ T[q].waiting => h.state # "blocked" /\ (T[q].state = "blocked" \/ h.wake_pending)
<1> DEFINE kids == {c}
           h == Hear(T[q], T, kids)
<1>1. kids \in SUBSET Pids /\ kids # {} /\ \A n \in T[q].done : n.pid \notin kids
  OBVIOUS
<1>2. {Note(T, d) : d \in kids} = {Note(T, c)}
  OBVIOUS
<1> HIDE DEF kids
<1>3. /\ h.done = T[q].done \cup {Note(T, d) : d \in kids}
      /\ T[q].waiting => h.state # "blocked" /\ (T[q].state = "blocked" \/ h.wake_pending)
  BY <1>1, HearsAll
<1> HIDE DEF h
<1>4. h.done = T[q].done \cup {Note(T, c)}
  BY <1>2, <1>3
<1> QED
  BY <1>3, <1>4 DEF h, kids

\* c has ended and nobody was told yet.
Leaving(T, c) ==
  /\ T[c].state = "zombie" /\ T[c].pc = "exit" /\ Books(T)
  /\ \A p \in Pids : Settled(T[p]) /\ \A n \in T[p].done : n.pid # c
  /\ \A p \in Pids :
       Parked(T[p]) => /\ \/ T[T[p].wait_pid].state \notin Ended
                          \/ T[p].wait_pid = c
                       /\ T[T[p].wait_pid].ppid = p

\* An exit is announced: whoever waited for this process is awake.
LEMMA AnnounceQuiet ==
  ASSUME NEW T \in Tables, NEW c \in Pids, Leaving(T, c)
  PROVE  Quiet(announce(T, c)) /\ Buried(T, announce(T, c))
<1> DEFINE U == announce(T, c)
<1>1. ASSUME NEW q \in Pids
      PROVE  /\ Follows(T[q], U[q]) /\ T[q] \in Tasks
             /\ \/ U[q] = T[q] /\ ~(q = T[c].ppid /\ q # c /\ T[q].state # "free")
                \/ /\ U[q] = Hear(T[q], T, {c}) /\ U[q].done = T[q].done \cup {Note(T, c)}
                   /\ T[q].waiting => /\ U[q].state # "blocked"
                                      /\ T[q].state = "blocked" \/ U[q].wake_pending
             /\ U[q].state = "zombie" <=> T[q].state = "zombie"
  <2>1. Follows(T[q], U[q]) /\ T[q] \in Tasks
    BY AnnounceFollows DEF Tables
  <2>2. LET h == Hear(T[q], T, {c})
        IN  /\ h.done = T[q].done \cup {Note(T, c)}
            /\ T[q].waiting => h.state # "blocked" /\ (T[q].state = "blocked" \/ h.wake_pending)
    <3>1. /\ \A m, n \in T[q].done : m.pid = n.pid => m = n
          /\ \A n \in T[q].done : n.pid # c
      BY DEF Leaving, Books
    <3> QED
      BY <3>1, HearsOne
  <2>3. \/ U[q] = T[q] /\ ~(q = T[c].ppid /\ q # c /\ T[q].state # "free")
        \/ U[q] = Hear(T[q], T, {c}) /\ T[q].state # "free"
    BY DEF announce
  <2>4. T[q].state # "free" =>
          LET h == Hear(T[q], T, {c})
          IN  h.state = T[q].state \/ (T[q].state = "blocked" /\ h.state = "ready")
    BY <2>1, HearFollows
  <2> HIDE DEF U
  <2> QED
    BY <2>1, <2>2, <2>3, <2>4
<1> HIDE DEF U
<1>2. Note(T, c).pid = c
  BY DEF Note
<1>3. \A q \in Pids : \A n \in T[q].done : n.pid \in Pids
  BY <1>1 DEF Tasks, Notes
<1>4. Books(U)
  <2> SUFFICES ASSUME NEW q \in Pids
               PROVE  /\ \A m, n \in U[q].done : m.pid = n.pid => m = n
                      /\ \A n \in U[q].done : U[n.pid].state \in Ended
    BY DEF Books
  <2>1. \A n \in U[q].done : n \in T[q].done \/ n = Note(T, c)
    BY <1>1
  <2>2. /\ \A m, n \in T[q].done : m.pid = n.pid => m = n
        /\ \A n \in T[q].done : T[n.pid].state \in Ended /\ n.pid \in Pids /\ n.pid # c
    BY <1>3 DEF Leaving, Books
  <2>3. \A n \in T[q].done : U[n.pid].state \in Ended
    BY <1>1, <2>2 DEF Ended, Follows
  <2>4. U[c].state = "zombie"
    BY <1>1 DEF Leaving
  <2> QED
    BY <1>2, <2>1, <2>2, <2>3, <2>4 DEF Ended
<1>5. Awaited(U)
  <2> SUFFICES ASSUME NEW p \in Pids, Parked(U[p])
               PROVE  U[U[p].wait_pid].state \notin Ended /\ U[U[p].wait_pid].ppid = p
    BY DEF Awaited
  <2>1. Parked(T[p]) /\ U[p].wait_pid = T[p].wait_pid
    BY <1>1 DEF Parked, Follows
  <2> DEFINE w == T[p].wait_pid
  <2>2. w \in Pids
    BY <1>1, <2>1, TableAssumption DEF Parked, Tasks, Pids
  <2>3. w # c
    <3> SUFFICES ASSUME w = c PROVE FALSE
      OBVIOUS
    <3>1. T[c].ppid = p /\ p # c /\ T[p].state # "free" /\ T[p].waiting
      BY <2>1 DEF Leaving, Parked, Settled
    <3>2. U[p].state # "blocked" /\ (T[p].state = "blocked" \/ U[p].wake_pending)
      BY <1>1, <3>1
    <3>3. U[p].pc = "park" /\ T[p].pc = "park" /\ ~U[p].wake_pending
      BY <1>1, <3>2 DEF Parked, Follows
    <3> QED
      BY <3>2, <3>3 DEF Leaving, Settled
  <2>4. T[w].state \notin Ended /\ T[w].ppid = p
    BY <2>1, <2>3 DEF Leaving
  <2> QED
    BY <1>1, <2>1, <2>2, <2>4 DEF Ended, Follows
<1>6. Buried(T, U)
  BY <1>1 DEF Buried, Gone, Dead, Follows
<1> QED
  BY <1>4, <1>5, <1>6 DEF Quiet, U

\* The current process may give notes up and go on, or park for a child that lives.
LEMMA MeQuiet ==
  ASSUME CpuTyped, NEW T \in Tables, Quiet(T), NEW t \in Tasks,
         t.done \subseteq T[g_current].done, t.ppid = T[g_current].ppid,
         t.state = T[g_current].state \/ (t.state \notin Ended /\ T[g_current].state \notin Gone),
         Parked(t) => T[t.wait_pid].state \notin Ended /\ T[t.wait_pid].ppid = g_current
  PROVE  LET U == [T EXCEPT ![g_current] = t]
         IN  Quiet(U) /\ Buried(T, U)
<1> DEFINE U == [T EXCEPT ![g_current] = t]
<1>1. g_current \in Pids /\ T[g_current] \in Tasks
  BY DEF CpuTyped, Tables
<1>2. U[g_current] = t /\ \A q \in Pids : q # g_current => U[q] = T[q]
  BY <1>1 DEF Tables
<1> HIDE DEF U
<1>3. \A q \in Pids : /\ U[q].done \subseteq T[q].done /\ U[q].ppid = T[q].ppid
                       /\ \/ U[q].state = T[q].state
                          \/ U[q].state \notin Ended /\ T[q].state \notin Gone
  BY <1>2
<1>4. \A q \in Pids : \A n \in T[q].done : n.pid \in Pids
  BY DEF Tables, Tasks, Notes
<1>5. Books(U)
  BY <1>3, <1>4 DEF Quiet, Books, Ended, Gone, Dead
<1>6. Awaited(U)
  <2> SUFFICES ASSUME NEW p \in Pids, Parked(U[p])
               PROVE  U[U[p].wait_pid].state \notin Ended /\ U[U[p].wait_pid].ppid = p
    BY DEF Awaited
  <2> DEFINE w == U[p].wait_pid
  <2>1. w \in Pids
    <3>1. U[p] \in Tasks
      BY <1>2 DEF Tables
    <3> QED
      BY <3>1, TableAssumption DEF Parked, Tasks, Pids
  <2>2. T[w].state \notin Ended /\ T[w].ppid = p
    BY <1>2, <2>1 DEF Quiet, Awaited
  <2> HIDE DEF w
  <2>3. U[w].state \notin Ended /\ U[w].ppid = p
    BY <1>3, <2>1, <2>2 DEF Ended, Gone, Dead
  <2> QED
    BY <2>3 DEF w
<1>7. Buried(T, U)
  BY <1>3 DEF Buried
<1> QED
  BY <1>5, <1>6, <1>7 DEF Quiet, U

\* Unless the CPU is looking for somebody, it runs a process that is alive; who was
\* found is still ready.
OnCpu ==
  /\ ~idle /\ ~panicked => g_tasks[g_current].state = "running"
  /\ picked # 0 => idle /\ g_tasks[picked].state = "ready"

\* The step leaves all that as it should be, and brings nobody of T back to life.
Orderly(T) == Quiet(g_tasks') /\ OnCpu' /\ Buried(T, g_tasks')

\* Two stretches of one step.
LEMMA BuriedTwice ==
  ASSUME NEW T, NEW U, NEW V, Buried(T, U), Buried(U, V)
  PROVE  Buried(T, V)
  BY DEF Buried

\* The way back to user mode.
LEMMA ReturnQuiet ==
  ASSUME CpuTyped, NEW T \in Tables, Quiet(T), T[g_current].state = "running",
         picked = 0, Return(T)
  PROVE  Orderly(T)
<1> DEFINE t == deliver_pending([T[g_current] EXCEPT !.pc = "user", !.wait_pid = 0])
           me == T[g_current]
<1>1. g_current \in Pids /\ me \in Tasks
  BY DEF CpuTyped, Tables
<1>2. /\ t \in Tasks /\ t.done = me.done /\ t.ppid = me.ppid /\ t.state = me.state
      /\ t.pc = "user"
  <2>1. [me EXCEPT !.pc = "user", !.wait_pid = 0] \in Tasks
    <3>1. 0 \in 0 .. kMaxTask
      BY TableAssumption
    <3> QED
      BY <1>1, <3>1 DEF Tasks, Places
  <2> DEFINE u == [me EXCEPT !.pc = "user", !.wait_pid = 0]
  <2>2. u.done = me.done /\ u.ppid = me.ppid /\ u.state = me.state /\ u.pc = "user"
    BY <1>1 DEF Tasks
  <2>3. t = deliver_pending(u) /\ u \in Tasks
    BY <2>1
  <2> HIDE DEF u, t
  <2>4. t \in Tasks
    BY <2>3, DeliverType
  <2>5. t.done = u.done /\ t.ppid = u.ppid /\ t.state = u.state /\ t.pc = u.pc
    BY <2>3 DEF deliver_pending, Tasks
  <2> QED
    BY <2>2, <2>4, <2>5
<1>3. g_tasks' = [T EXCEPT ![g_current] = t] /\ g_current' = g_current /\ picked' = picked
  BY DEF Return
<1> HIDE DEF t
<1>4. ~Parked(t)
  BY <1>2 DEF Parked
<1>5. Quiet(g_tasks') /\ Buried(T, g_tasks')
  BY <1>1, <1>2, <1>3, <1>4, MeQuiet
<1>6. g_tasks'[g_current'].state = "running"
  BY <1>1, <1>2, <1>3 DEF Tables
<1> QED
  BY <1>3, <1>5, <1>6 DEF Orderly, OnCpu

\* task_switch_now(), with interrupts off or on.
LEMMA SuspendQuiet ==
  ASSUME CpuTyped, NEW T \in Tables, Quiet(T), Sound(T, g_current), picked = 0,
         Suspend(T) \/ SuspendOpen(T)
  PROVE  Orderly(T)
<1> DEFINE R == reap(T)
<1>1. R \in Tables /\ Quiet(R) /\ Buried(T, R)
  BY ReapType, ReapQuiet DEF Sound
<1>2. Buried(T, T)
  BY DEF Buried
<1> HIDE DEF R
<1>3. ASSUME NEW to \in Pids, Picks(R, to)
      PROVE  LET V == switch_to(R, to)
             IN  Quiet(V) /\ Buried(T, V) /\ V[to].state = "running"
  <2>1. R[to].state = "ready"
    BY <1>3 DEF Picks
  <2> QED
    BY <1>1, <2>1, SwitchQuiet, BuriedTwice
<1>4. \/ g_tasks' = T /\ panicked' /\ picked' = 0
      \/ g_tasks' = R /\ idle' /\ picked' = 0
      \/ \E to \in Pids : /\ Picks(R, to) /\ g_tasks' = switch_to(R, to)
                           /\ g_current' = to /\ picked' = 0
  BY DEF Suspend, SuspendOpen, Panic, R
<1> QED
  BY <1>1, <1>2, <1>3, <1>4 DEF Orderly, OnCpu

\* A process ends: what was in order is, but for who waits for it.
LEMMA EndsLeaving ==
  ASSUME NEW T \in Tables, NEW U \in Tables, NEW c \in Pids, Quiet(T),
         T[c].state \notin Ended, \A p \in Pids : p # c => U[p] = T[p],
         U[c].state = "zombie", U[c].pc = "exit", U[c].done = T[c].done, U[c].ppid = T[c].ppid,
         \A p \in Pids : Settled(U[p])
  PROVE  Leaving(U, c)
<1>1. ASSUME NEW p \in Pids
      PROVE  /\ \A m, n \in U[p].done : m.pid = n.pid => m = n
             /\ \A n \in U[p].done : n.pid # c /\ U[n.pid].state \in Ended
  <2>1. U[p].done = T[p].done
    OBVIOUS
  <2>2. \A n \in T[p].done : n.pid \in Pids
    BY DEF Tables, Tasks, Notes
  <2>3. /\ \A m, n \in T[p].done : m.pid = n.pid => m = n
        /\ \A n \in T[p].done : T[n.pid].state \in Ended
    BY DEF Quiet, Books
  <2>4. \A n \in T[p].done : n.pid # c
    BY <2>3
  <2> QED
    BY <2>1, <2>2, <2>3, <2>4
<1>2. ASSUME NEW p \in Pids, Parked(U[p])
      PROVE  /\ \/ U[U[p].wait_pid].state \notin Ended
                \/ U[p].wait_pid = c
             /\ U[U[p].wait_pid].ppid = p
  <2>1. U[p] = T[p]
    BY <1>2 DEF Parked
  <2> DEFINE w == T[p].wait_pid
  <2>2. w \in 0 .. kMaxTask
    BY DEF Tables, Tasks
  <2>3. w \in Pids
    BY <1>2, <2>1, <2>2, TableAssumption DEF Parked, Pids
  <2>4. T[w].state \notin Ended /\ T[w].ppid = p
    BY <1>2, <2>1 DEF Quiet, Awaited
  <2> HIDE DEF w
  <2>5. U[w].ppid = p /\ (w # c => U[w].state \notin Ended)
    BY <2>3, <2>4
  <2> QED
    BY <2>1, <2>5 DEF w
<1> QED
  BY <1>1, <1>2 DEF Leaving, Books

\* exit() of a process that is alive, or has just been killed.
LEMMA EndWithQuiet ==
  ASSUME CpuTyped, NEW T \in Tables, NEW code \in Codes, Quiet(T), Sound(T, g_current),
         T[g_current].state \notin Ended, picked = 0, EndWith(T, code)
  PROVE  Orderly(T)
<1> DEFINE me == T[g_current]
           end == [me EXCEPT !.ending = IF me.state = "killed" THEN @ ELSE code,
                             !.state = "zombie", !.pc = "exit"]
           gone == [T EXCEPT ![g_current] = end]
<1>1. g_current \in Pids /\ me \in Tasks
  BY DEF CpuTyped, Tables
<1>2. /\ end \in Tasks /\ end.state = "zombie" /\ end.done = me.done /\ end.ppid = me.ppid
      /\ end.pc = "exit"
  BY <1>1 DEF Tasks, States, Places
<1>3. Suspend(announce(gone, g_current))
  BY <1>1 DEF EndWith, Tables
<1>4. Settled(end)
  BY <1>2, AwakeSettled
<1> HIDE DEF end
<1>5. /\ gone \in Tables /\ Sound(gone, g_current) /\ gone[g_current] = end
      /\ \A p \in Pids : p # g_current => gone[p] = T[p]
  BY <1>1, <1>2, <1>4, MeSound DEF Tables
<1> HIDE DEF gone
<1>6. Buried(T, gone)
  BY <1>2, <1>5 DEF Buried, Gone, Dead
<1>7. gone[g_current].done = me.done /\ gone[g_current].ppid = me.ppid
  BY <1>2, <1>5
<1>8. Leaving(gone, g_current)
  BY <1>1, <1>2, <1>5, <1>7, EndsLeaving DEF Sound
<1> DEFINE A == announce(gone, g_current)
<1>9. A \in Tables /\ Quiet(A) /\ Buried(gone, A) /\ Sound(A, g_current)
  BY <1>1, <1>5, <1>8, AnnounceType, AnnounceQuiet, AnnounceSound
<1> HIDE DEF A
<1>10. Orderly(A)
  BY <1>3, <1>9, SuspendQuiet DEF A
<1> QED
  BY <1>6, <1>9, <1>10, BuriedTwice DEF Orderly

\* block(): who parks for one child has seen that it is there and has not ended.
LEMMA BlockQuiet ==
  ASSUME CpuTyped, NEW T \in Tables, Quiet(T), Sound(T, g_current),
         T[g_current].state = "running", picked = 0, T[g_current].pc # "park",
         T[g_current].pc = "wait" /\ ~T[g_current].wake_pending =>
           T[g_current].waiting /\ NoMatch(T[g_current].done, T[g_current].wait_pid),
         T[g_current].pc = "wait" /\ ~T[g_current].wake_pending /\ T[g_current].wait_pid # 0 =>
           /\ T[T[g_current].wait_pid].state \notin Ended
           /\ T[T[g_current].wait_pid].ppid = g_current,
         block(T, FALSE) \/ block(T, TRUE)
  PROVE  Orderly(T)
<1> DEFINE t == T[g_current]
           awake == [t EXCEPT !.wake_pending = FALSE, !.state = "running"]
           parked == [t EXCEPT !.state = "blocked"]
<1>1. g_current \in Pids /\ t \in Tasks
  BY DEF CpuTyped, Tables
<1>2. /\ awake \in Tasks /\ awake.state = "running"
      /\ awake.done = t.done /\ awake.ppid = t.ppid /\ awake.pc = t.pc
  BY <1>1 DEF Tasks, States
<1>3. /\ parked \in Tasks /\ parked.state = "blocked"
      /\ ~t.wake_pending => Settled(parked)
      /\ parked.done = t.done /\ parked.ppid = t.ppid
      /\ parked.wait_pid = t.wait_pid /\ parked.pc = t.pc
  BY <1>1 DEF Settled, Tasks, States
<1>4. [T EXCEPT ![g_current].wake_pending = FALSE, ![g_current].state = "running"]
        = [T EXCEPT ![g_current] = awake]
  BY <1>1 DEF Tables
<1>5. [T EXCEPT ![g_current].state = "blocked"] = [T EXCEPT ![g_current] = parked]
  BY <1>1 DEF Tables
<1> HIDE DEF awake, parked
<1> DEFINE A == [T EXCEPT ![g_current] = awake]
           B == [T EXCEPT ![g_current] = parked]
<1>6. Quiet(A) /\ Buried(T, A) /\ A[g_current].state = "running"
  <2>1. ~Parked(awake)
    BY <1>2 DEF Parked
  <2>2. Quiet(A) /\ Buried(T, A)
    BY <1>1, <1>2, <2>1, MeQuiet
  <2> QED
    BY <1>1, <1>2, <2>2 DEF Tables
<1>7. ASSUME ~t.wake_pending
      PROVE  Quiet(B) /\ Buried(T, B) /\ B \in Tables /\ Sound(B, g_current)
  <2>1. parked.state \notin Ended /\ t.state \notin Gone
    BY <1>3 DEF Ended, Gone, Dead
  <2>2. Parked(parked) => /\ T[parked.wait_pid].state \notin Ended
                          /\ T[parked.wait_pid].ppid = g_current
    BY <1>3, <1>7 DEF Parked
  <2>3. Quiet(B) /\ Buried(T, B)
    BY <1>1, <1>3, <2>1, <2>2, MeQuiet
  <2> QED
    BY <1>1, <1>3, <1>7, <2>3, MeSound DEF Tables
<1> HIDE DEF A, B
<1>8. \/ g_tasks' = A /\ g_current' = g_current /\ picked' = picked
      \/ ~t.wake_pending /\ (Suspend(B) \/ SuspendOpen(B))
  BY <1>4, <1>5 DEF block, schedule, A, B
<1>9. ~t.wake_pending /\ (Suspend(B) \/ SuspendOpen(B)) => Orderly(B)
  BY <1>7, SuspendQuiet
<1> QED
  BY <1>6, <1>7, <1>8, <1>9, BuriedTwice DEF Orderly, OnCpu

\* A turn of wait_for's loop: reap() leaves no zombie but the caller, so whoever is
\* there to wait for has not ended.
LEMMA WaitTurnQuiet ==
  ASSUME CpuTyped, Quiet(g_tasks), Sound(g_tasks, g_current),
         g_tasks[g_current].state = "running", g_tasks[g_current].pc # "park", picked = 0,
         NEW pid \in 0 .. kMaxTask, NEW nowait \in BOOLEAN,
         WaitTurn(pid, nowait, FALSE) \/ WaitTurn(pid, nowait, TRUE)
  PROVE  Orderly(g_tasks)
<1> DEFINE swept == [g_tasks EXCEPT ![g_current].wake_pending = FALSE]
           T == reap(swept)
           cleared == [g_tasks[g_current] EXCEPT !.wake_pending = FALSE]
<1>1. g_current \in Pids /\ g_tasks[g_current] \in Tasks /\ g_tasks \in Tables
      /\ Settled(g_tasks[g_current])
  BY MeType DEF CpuTyped, Sound
<1>2. /\ cleared \in Tasks /\ Settled(cleared) /\ cleared.state = "running"
      /\ cleared.done = g_tasks[g_current].done /\ cleared.ppid = g_tasks[g_current].ppid
      /\ ~Parked(cleared) /\ cleared.pc # "park"
  BY <1>1 DEF Tasks, Settled, Parked
<1>3. swept = [g_tasks EXCEPT ![g_current] = cleared]
  BY <1>1 DEF Tables
<1> HIDE DEF cleared
<1>4. /\ swept \in Tables /\ Sound(swept, g_current) /\ swept[g_current] = cleared
      /\ Quiet(swept) /\ Buried(g_tasks, swept)
  <2>1. swept \in Tables /\ Sound(swept, g_current) /\ swept[g_current] = cleared
    BY <1>1, <1>2, <1>3, MeSound DEF Tables
  <2>2. Quiet(swept) /\ Buried(g_tasks, swept)
    BY <1>1, <1>2, <1>3, MeQuiet
  <2> QED
    BY <2>1, <2>2
<1> HIDE DEF swept
<1>5. /\ T \in Tables /\ Sound(T, g_current) /\ Quiet(T) /\ Buried(swept, T)
      /\ T[g_current].state = "running" /\ T[g_current].pc # "park"
  <2>1. \A p \in Pids : Settled(swept[p])
    BY <1>4 DEF Sound
  <2>2. T[g_current].pc # "park"
    BY <1>1, <1>2, <1>4, ReapFollows DEF Follows
  <2> QED
    BY <1>1, <1>2, <1>4, <2>1, <2>2, ReapType, ReapSound, ReapQuiet
<1>6. ASSUME ~InitDead(swept), NEW w \in Pids, T[w].state = "zombie"
      PROVE  FALSE
  <2>1. w # g_current
    BY <1>5, <1>6
  <2>2. swept[w].state \notin Dead
    BY <1>4, <1>6, <2>1, ReapFollows DEF InitDead, Cleared
  <2> QED
    BY <1>4, <1>6, <2>2, ReapFollows DEF Follows, Dead
<1> HIDE DEF T
<1>7. Buried(g_tasks, T) /\ T[g_current] \in Tasks /\ Settled(T[g_current])
  BY <1>1, <1>4, <1>5, BuriedTwice DEF Tables, Sound
<1> DEFINE taken(n) == [T EXCEPT ![g_current].done = @ \ {n}]
           parked == [T EXCEPT ![g_current].waiting = TRUE, ![g_current].wait_pid = pid,
                               ![g_current].pc = "wait"]
<1>8. ASSUME NEW U \in Tables, Buried(T, U), Orderly(U)
      PROVE  Orderly(g_tasks)
  BY <1>7, <1>8, BuriedTwice DEF Orderly
<1>9. ASSUME NEW n, Return(taken(n))
      PROVE  Orderly(g_tasks)
  <2> DEFINE less == [T[g_current] EXCEPT !.done = @ \ {n}]
  <2>1. /\ less \in Tasks /\ less.state = "running" /\ ~Parked(less)
        /\ less.done \subseteq T[g_current].done /\ less.ppid = T[g_current].ppid
    BY <1>5, <1>7 DEF Tasks, Parked
  <2>2. taken(n) = [T EXCEPT ![g_current] = less]
    BY <1>1, <1>5 DEF Tables
  <2> HIDE DEF less
  <2>3. Quiet(taken(n)) /\ Buried(T, taken(n))
    BY <1>5, <2>1, <2>2, MeQuiet
  <2>4. taken(n) \in Tables /\ taken(n)[g_current].state = "running"
    BY <1>1, <1>5, <2>1, <2>2 DEF Tables
  <2> HIDE DEF taken
  <2> QED
    BY <1>8, <1>9, <2>3, <2>4, ReturnQuiet
<1>10. ASSUME ~InitDead(swept), NoMatch(T[g_current].done, pid),
              pid # 0 => T[pid].state # "free" /\ T[pid].ppid = g_current,
              block(parked, FALSE)
       PROVE  Orderly(g_tasks)
  <2> DEFINE m == [T[g_current] EXCEPT !.waiting = TRUE, !.wait_pid = pid, !.pc = "wait"]
  <2>1. /\ m \in Tasks /\ m.state = "running" /\ ~Parked(m) /\ m.pc = "wait"
        /\ m.waiting /\ NoMatch(m.done, m.wait_pid) /\ m.wait_pid = pid
        /\ m.done = T[g_current].done /\ m.ppid = T[g_current].ppid
    BY <1>5, <1>7, <1>10 DEF Tasks, Places, Parked
  <2>2. Settled(m)
    BY <2>1 DEF Settled
  <2>3. parked = [T EXCEPT ![g_current] = m]
    BY <1>1, <1>5 DEF Tables
  <2> HIDE DEF m
  <2>4. parked \in Tables /\ Sound(parked, g_current) /\ parked[g_current] = m
    <3>1. parked \in Tables /\ parked[g_current] = m
      BY <1>1, <1>5, <2>1, <2>3 DEF Tables
    <3>2. Sound([T EXCEPT ![g_current] = m], g_current)
      BY <1>5, <2>2, MeSound
    <3> QED
      BY <2>3, <3>1, <3>2
  <2>5. Quiet(parked) /\ Buried(T, parked)
    BY <1>5, <2>1, <2>3, MeQuiet
  <2>6. pid # 0 => parked[pid].state \notin Ended /\ parked[pid].ppid = g_current
    <3> SUFFICES ASSUME pid # 0
                 PROVE  parked[pid].state \notin Ended /\ parked[pid].ppid = g_current
      OBVIOUS
    <3>1. pid \in Pids
      BY TableAssumption DEF Pids
    <3>2. T[pid].state \notin Ended /\ T[pid].ppid = g_current
      BY <1>6, <1>10, <3>1 DEF Ended
    <3> QED
      BY <1>1, <1>5, <2>1, <2>3, <3>1, <3>2 DEF Tables, Ended
  <2> HIDE DEF parked
  <2>7. Orderly(parked)
    BY <1>10, <2>1, <2>4, <2>5, <2>6, BlockQuiet
  <2> QED
    BY <1>8, <2>4, <2>5, <2>7
<1>11. Panic(swept) => Orderly(g_tasks)
  BY <1>4 DEF Panic, Orderly, OnCpu
<1>12. Return(T) => Orderly(g_tasks)
  <2>1. Return(T) => Orderly(T)
    BY <1>5, ReturnQuiet
  <2>2. Buried(T, T)
    BY DEF Buried
  <2> QED
    BY <1>5, <1>8, <2>1, <2>2
<1>13. CASE WaitTurn(pid, nowait, FALSE)
  BY <1>13, <1>9, <1>10, <1>11, <1>12, Zenon DEF WaitTurn, T, swept
<1> DEFINE atpark == [T EXCEPT ![g_current].waiting = TRUE, ![g_current].wait_pid = pid,
                               ![g_current].pc = "park"]
<1>14. ASSUME ~InitDead(swept),
              pid # 0 => T[pid].state # "free" /\ T[pid].ppid = g_current,
              g_tasks' = atpark, UNCHANGED <<g_current, idle, picked, panicked>>
       PROVE  Orderly(g_tasks)
  <2> DEFINE m == [T[g_current] EXCEPT !.waiting = TRUE, !.wait_pid = pid, !.pc = "park"]
  <2>1. /\ m \in Tasks /\ m.state = "running" /\ m.wait_pid = pid
        /\ m.done = T[g_current].done /\ m.ppid = T[g_current].ppid
    BY <1>5, <1>7, <1>14 DEF Tasks, Places
  <2>2. atpark = [T EXCEPT ![g_current] = m]
    BY <1>1, <1>5 DEF Tables
  <2> HIDE DEF m
  <2>3. Parked(m) => T[m.wait_pid].state \notin Ended /\ T[m.wait_pid].ppid = g_current
    <3> SUFFICES ASSUME pid # 0
                 PROVE  T[pid].state \notin Ended /\ T[pid].ppid = g_current
      BY <2>1 DEF Parked
    <3>1. pid \in Pids
      BY TableAssumption DEF Pids
    <3> QED
      BY <1>6, <1>14, <3>1 DEF Ended
  <2>4. Quiet(atpark) /\ Buried(T, atpark)
    BY <1>5, <2>1, <2>2, <2>3, MeQuiet
  <2>5. atpark[g_current].state = "running"
    BY <1>1, <1>5, <2>1, <2>2 DEF Tables
  <2> HIDE DEF atpark
  <2>6. Buried(g_tasks, atpark)
    BY <1>7, <2>4, BuriedTwice
  <2> QED
    BY <1>14, <2>4, <2>5, <2>6 DEF Orderly, OnCpu
<1>15. CASE WaitTurn(pid, nowait, TRUE)
  BY <1>15, <1>9, <1>11, <1>12, <1>14, Zenon DEF WaitTurn, T, swept
<1> QED
  BY <1>13, <1>15

\* preempt(), from a tick that found who was picked still ready.
LEMMA PreemptQuiet ==
  ASSUME CpuTyped, ~panicked, NEW T \in Tables, Quiet(T), Sound(T, g_current),
         ~idle => T[g_current].state = "running",
         picked # 0 => idle /\ T[picked].state = "ready", preempt(T)
  PROVE  Orderly(T)
<1> DEFINE t == T[g_current]
           left == IF t.quantum = 0 THEN 0 ELSE t.quantum - 1
           older == [t EXCEPT !.quantum = left]
           spent == IF t.state \in Dead THEN T ELSE [T EXCEPT ![g_current].quantum = left]
<1>1. g_current \in Pids /\ t \in Tasks /\ Settled(t) /\ (picked # 0 => picked \in Pids)
  BY TableAssumption DEF CpuTyped, Tables, Sound, Pids
<1>2. left \in 0 .. kQuantum
  BY <1>1, TableAssumption DEF Tasks
<1> HIDE DEF left
<1>3. /\ older \in Tasks /\ Settled(older) /\ older.state = t.state /\ older.done = t.done
      /\ older.ppid = t.ppid /\ older.pc = t.pc /\ older.wait_pid = t.wait_pid
      /\ older.wake_pending = t.wake_pending
  BY <1>1, <1>2 DEF Tasks, Settled
<1>4. [T EXCEPT ![g_current].quantum = left] = [T EXCEPT ![g_current] = older]
  BY <1>1 DEF Tables
<1> HIDE DEF older
<1>5. Buried(T, T)
  BY DEF Buried
<1>6. /\ spent \in Tables /\ Sound(spent, g_current) /\ Quiet(spent) /\ Buried(T, spent)
      /\ \A p \in Pids : spent[p].state = T[p].state
  <2> DEFINE S == [T EXCEPT ![g_current] = older]
  <2>1. S \in Tables /\ Sound(S, g_current) /\ \A p \in Pids : S[p].state = T[p].state
    BY <1>1, <1>3, MeSound DEF Tables
  <2>2. Parked(older) => T[older.wait_pid].state \notin Ended /\ T[older.wait_pid].ppid = g_current
    BY <1>1, <1>3 DEF Parked, Quiet, Awaited
  <2>3. Quiet(S) /\ Buried(T, S)
    BY <1>3, <2>2, MeQuiet
  <2>4. spent = S \/ spent = T
    BY <1>4
  <2> HIDE DEF S, spent
  <2> QED
    BY <1>5, <2>1, <2>3, <2>4
<1> HIDE DEF spent
<1> DEFINE R == reap(spent)
<1>7. /\ R \in Tables /\ Quiet(R) /\ Buried(T, R)
      /\ \A p \in Pids : spent[p].state \in {"ready", "running"} => R[p].state = spent[p].state
  <2>1. \A p \in Pids : Settled(spent[p])
    BY <1>6 DEF Sound
  <2> QED
    BY <1>6, <2>1, ReapType, ReapQuiet, BuriedTwice
<1> HIDE DEF R
<1>8. ASSUME NEW to \in Pids, Picks(R, to)
      PROVE  LET V == switch_to(R, to)
             IN  Quiet(V) /\ Buried(T, V) /\ V[to].state = "running"
  <2>1. R[to].state = "ready"
    BY <1>8 DEF Picks
  <2> QED
    BY <1>7, <2>1, SwitchQuiet, BuriedTwice
<1>9. \/ g_tasks' \in {T, spent, R} /\ UNCHANGED <<g_current, idle, picked>>
      \/ \E to \in Pids : /\ Picks(R, to) /\ g_tasks' = switch_to(R, to)
                           /\ g_current' = to /\ picked' = 0
  BY DEF preempt, Panic, spent, left, R
<1>10. ASSUME g_tasks' \in {T, spent, R}, UNCHANGED <<g_current, idle, picked>>
       PROVE  Orderly(T)
  <2>1. /\ Quiet(g_tasks') /\ Buried(T, g_tasks')
        /\ \A p \in Pids : T[p].state \in {"ready", "running"} => g_tasks'[p].state = T[p].state
    BY <1>5, <1>6, <1>7, <1>10
  <2> QED
    BY <1>1, <1>10, <2>1 DEF Orderly, OnCpu
<1> QED
  BY <1>8, <1>9, <1>10 DEF Orderly, OnCpu

\* Who has ended does not come back, the action of DeadStaysDead.
EndsForGood ==
  \A p \in Pids : g_tasks[p].state \in Dead => g_tasks'[p].state \in Dead \cup {"free"}

\* fork_user(): the slot it takes is nobody's, and after purge_notes() not noted either.
LEMMA ForkQuiet ==
  ASSUME CpuTyped, Quiet(g_tasks), Sound(g_tasks, g_current),
         g_tasks[g_current].state = "running", picked = 0, Fork
  PROVE  Quiet(g_tasks') /\ OnCpu' /\ EndsForGood
<1> DEFINE born == [Cleared EXCEPT !.state = "ready", !.ppid = g_current]
<1>1. PICK s \in Pids \ {kPid1} :
        /\ g_tasks[s].state = "free"
        /\ \/ Return([purge_notes(g_tasks, s) EXCEPT ![s] = born])
           \/ Return([purge_notes(g_tasks, s) EXCEPT ![s] = Cleared])
  BY DEF Fork
<1> DEFINE P == purge_notes(g_tasks, s)
<1>2. g_tasks \in Tables /\ g_current \in Pids /\ g_current \in 0 .. kMaxTask
  BY DEF CpuTyped, Pids
<1>3. ASSUME NEW q \in Pids
      PROVE  /\ P[q] \in Tasks /\ P[q].state = g_tasks[q].state
             /\ P[q].done = {n \in g_tasks[q].done : n.pid # s}
             /\ P[q].ppid = g_tasks[q].ppid /\ P[q].pc = g_tasks[q].pc
             /\ P[q].wait_pid = g_tasks[q].wait_pid
             /\ P[q].wake_pending = g_tasks[q].wake_pending
  BY <1>2 DEF purge_notes, Tables, Tasks
<1>4. P \in Tables
  BY <1>3 DEF purge_notes, Tables
<1>5. /\ born \in Tasks /\ born.done = {} /\ Cleared.done = {}
      /\ born.state = "ready" /\ Cleared.state = "free"
      /\ born.pc = "user" /\ Cleared.pc = "user"
  <2>1. born \in Tasks
    BY <1>2, ClearedType DEF Tasks, States
  <2>2. /\ born.done = {} /\ Cleared.done = {}
        /\ born.state = "ready" /\ Cleared.state = "free"
        /\ born.pc = "user" /\ Cleared.pc = "user"
    BY DEF Cleared
  <2> QED
    BY <2>1, <2>2
<1> HIDE DEF born, P
<1>6. ASSUME NEW t \in Tasks, t.done = {}, t.state \in {"ready", "free"}, t.pc = "user",
             Return([P EXCEPT ![s] = t])
      PROVE  Quiet(g_tasks') /\ OnCpu' /\ EndsForGood
  <2> DEFINE U == [P EXCEPT ![s] = t]
  <2>1. /\ U \in Tables /\ U[s] = t
        /\ \A q \in Pids : q # s => U[q] = P[q]
    BY <1>4, <1>6 DEF Tables
  <2> HIDE DEF U
  <2>2. ASSUME NEW q \in Pids
        PROVE  /\ \A m, n \in U[q].done : m.pid = n.pid => m = n
               /\ \A n \in U[q].done : U[n.pid].state \in Ended
    <3>1. \A n \in U[q].done : n \in g_tasks[q].done /\ n.pid # s
      BY <1>3, <1>6, <2>1
    <3>2. \A n \in g_tasks[q].done : n.pid \in Pids
      BY <1>2 DEF Tables, Tasks, Notes
    <3>3. /\ \A m, n \in g_tasks[q].done : m.pid = n.pid => m = n
          /\ \A n \in g_tasks[q].done : g_tasks[n.pid].state \in Ended
      BY DEF Quiet, Books
    <3>4. \A n \in U[q].done : U[n.pid].state = g_tasks[n.pid].state
      BY <1>3, <2>1, <3>1, <3>2
    <3> QED
      BY <3>1, <3>3, <3>4
  <2>3. ASSUME NEW p \in Pids, Parked(U[p])
        PROVE  U[U[p].wait_pid].state \notin Ended /\ U[U[p].wait_pid].ppid = p
    <3>1. p # s /\ Parked(g_tasks[p]) /\ U[p].wait_pid = g_tasks[p].wait_pid
      BY <1>3, <1>6, <2>1, <2>3 DEF Parked
    <3> DEFINE w == g_tasks[p].wait_pid
    <3>2. w \in Pids
      <4>1. w \in 0 .. kMaxTask
        BY <1>2 DEF Tables, Tasks
      <4> QED
        BY <3>1, <4>1, TableAssumption DEF Parked, Pids
    <3>3. g_tasks[w].state \notin Ended /\ g_tasks[w].ppid = p
      BY <3>1 DEF Quiet, Awaited
    <3>4. w # s
      BY <1>1, <3>3 DEF Ended
    <3> HIDE DEF w
    <3>5. U[w].state \notin Ended /\ U[w].ppid = p
      BY <1>3, <2>1, <3>2, <3>3, <3>4
    <3> QED
      BY <3>1, <3>5 DEF w
  <2>4. Quiet(U)
    BY <2>2, <2>3 DEF Quiet, Books, Awaited
  <2>5. U[g_current].state = "running"
    BY <1>1, <1>2, <1>3, <2>1
  <2>6. Orderly(U)
    BY <1>6, <2>1, <2>4, <2>5, ReturnQuiet DEF U
  <2>7. \A p \in Pids : g_tasks[p].state \in Dead => U[p].state \in Dead
    BY <1>1, <1>3, <2>1 DEF Dead
  <2> QED
    BY <2>6, <2>7 DEF Orderly, Buried, Gone, EndsForGood
<1> QED
  BY <1>1, <1>5, <1>6, ClearedType DEF P

\* The whole of it, as an invariant.
QuietInv == Quiet(g_tasks) /\ OnCpu

\* As long as nobody types Ctrl-C, every step leaves the books in order and brings
\* nobody back to life.
LEMMA NextQuiet ==
  ASSUME Interrupted = {}, TypeOK, SoundInv, QuietInv, [Next]_vars
  PROVE  QuietInv' /\ EndsForGood
<1> DEFINE me == g_tasks[g_current]
<1>1. /\ CpuTyped /\ g_tasks \in Tables /\ g_current \in Pids /\ me \in Tasks
      /\ Sound(g_tasks, g_current) /\ Settled(me)
  BY DEF TypeOK, CpuTyped, Tables, SoundInv, Sound
<1>2. Quiet(g_tasks) /\ (~idle /\ ~panicked => me.state = "running" /\ picked = 0)
  BY DEF QuietInv, OnCpu
<1>3. ASSUME Orderly(g_tasks) PROVE QuietInv' /\ EndsForGood
  BY <1>3 DEF Orderly, Buried, Gone, EndsForGood, QuietInv
<1>4. ASSUME NEW T \in Tables, Buried(g_tasks, T), Orderly(T) PROVE Orderly(g_tasks)
  BY <1>4, BuriedTwice DEF Orderly
<1>5. ASSUME NEW t \in Tasks, t.done = me.done, t.ppid = me.ppid, ~Parked(t),
             t.state \notin Ended, me.state \notin Gone
      PROVE  LET N == [g_tasks EXCEPT ![g_current] = t]
             IN  N \in Tables /\ Quiet(N) /\ Buried(g_tasks, N) /\ N[g_current] = t
  <2> DEFINE N == [g_tasks EXCEPT ![g_current] = t]
  <2>1. N \in Tables /\ N[g_current] = t
    BY <1>1 DEF Tables
  <2>2. Quiet(N) /\ Buried(g_tasks, N)
    BY <1>1, <1>2, <1>5, MeQuiet
  <2> QED
    BY <2>1, <2>2
<1>6. ASSUME NEW t \in Tasks, t.done = me.done, t.ppid = me.ppid, t.state = "running",
             t.pc # "park", me.state = "running", picked = 0, Return([g_tasks EXCEPT ![g_current] = t])
      PROVE  QuietInv' /\ EndsForGood
  <2> DEFINE N == [g_tasks EXCEPT ![g_current] = t]
  <2>1. ~Parked(t) /\ t.state \notin Ended /\ me.state \notin Gone
    BY <1>6 DEF Parked, Ended, Gone, Dead
  <2>2. N \in Tables /\ Quiet(N) /\ Buried(g_tasks, N) /\ N[g_current].state = "running"
    BY <1>5, <1>6, <2>1
  <2> HIDE DEF N
  <2>3. Orderly(N)
    BY <1>1, <1>6, <2>2, ReturnQuiet DEF N
  <2> QED
    BY <1>3, <1>4, <2>2, <2>3
<1>7. CASE Fork
  BY <1>1, <1>2, <1>7, ForkQuiet DEF Fork, InUser, QuietInv
<1>8. CASE Exit
  <2>1. me.state = "running" /\ picked = 0 /\ me.state \notin Ended
    BY <1>2, <1>8 DEF Exit, InUser, Ended
  <2> QED
    BY <1>1, <1>2, <1>3, <1>8, <2>1, EndWithQuiet DEF Exit, Codes
<1>9. CASE Sigaction
  <2>1. me.state = "running" /\ picked = 0
    BY <1>2, <1>9 DEF Sigaction, InUser
  <2>2. PICK h \in SUBSET Catchable :
          Return([g_tasks EXCEPT ![g_current].sig_handlers = h])
    <3>1. PICK sig \in Catchable :
            \/ Return([g_tasks EXCEPT ![g_current].sig_handlers = @ \cup {sig}])
            \/ Return([g_tasks EXCEPT ![g_current].sig_handlers = @ \ {sig}])
      BY <1>9 DEF Sigaction
    <3>2. me.sig_handlers \cup {sig} \in SUBSET Catchable
          /\ me.sig_handlers \ {sig} \in SUBSET Catchable
      BY <1>1 DEF Tasks
    <3> QED
      BY <3>1, <3>2
  <2> DEFINE t == [me EXCEPT !.sig_handlers = h]
  <2>3. /\ t \in Tasks /\ t.done = me.done /\ t.ppid = me.ppid /\ t.state = "running"
        /\ t.pc # "park"
    BY <1>1, <1>9, <2>1 DEF Tasks, Sigaction, InUser, Me
  <2>4. [g_tasks EXCEPT ![g_current].sig_handlers = h] = [g_tasks EXCEPT ![g_current] = t]
    BY <1>1 DEF Tables
  <2> HIDE DEF t
  <2> QED
    BY <1>6, <2>1, <2>2, <2>3, <2>4
<1>10. CASE Sigreturn
  <2>1. me.state = "running" /\ picked = 0
    BY <1>2, <1>10 DEF Sigreturn, InUser
  <2> DEFINE t == [me EXCEPT !.sig_active = kSigNone]
  <2>2. /\ t \in Tasks /\ t.done = me.done /\ t.ppid = me.ppid /\ t.state = "running"
        /\ t.pc # "park"
    BY <1>1, <1>10, <2>1 DEF Tasks, Sigreturn, InUser, Me
  <2>3. [g_tasks EXCEPT ![g_current].sig_active = kSigNone] = [g_tasks EXCEPT ![g_current] = t]
    BY <1>1 DEF Tables
  <2> HIDE DEF t
  <2> QED
    BY <1>6, <1>10, <2>1, <2>2, <2>3 DEF Sigreturn
<1>11. CASE Exec
  <2>1. me.state = "running" /\ picked = 0 /\ me.state \notin Gone
    BY <1>2, <1>11 DEF Exec, InUser, Gone, Dead
  <2> DEFINE t == [me EXCEPT !.sig_handlers = {}, !.sig_pending = kSigNone,
                             !.sig_active = kSigNone, !.state = "running"]
  <2>2. /\ t \in Tasks /\ t.done = me.done /\ t.ppid = me.ppid /\ t.state = "running"
        /\ ~Parked(t) /\ t.state \notin Ended
    BY <1>1, <1>11 DEF Tasks, States, Parked, Ended, Exec, InUser, Me
  <2>3. g_tasks' = [g_tasks EXCEPT ![g_current] = t] /\ UNCHANGED <<g_current, picked>>
    BY <1>1, <1>11 DEF Exec, Tables
  <2> HIDE DEF t
  <2>4. Quiet(g_tasks') /\ Buried(g_tasks, g_tasks') /\ g_tasks'[g_current] = t
    BY <1>5, <2>1, <2>2, <2>3
  <2> QED
    BY <1>3, <2>1, <2>2, <2>3, <2>4 DEF Orderly, OnCpu
<1>12. CASE Wait \/ WaitAgain
  <2>1. me.state = "running" /\ picked = 0 /\ me.pc # "park"
    BY <1>2, <1>12 DEF Wait, WaitAgain, InUser, InKernel, Me
  <2>2. me.wait_pid \in 0 .. kMaxTask
    BY <1>1 DEF Tasks
  <2> QED
    BY <1>1, <1>2, <1>3, <1>12, <2>1, <2>2, WaitTurnQuiet DEF Wait, WaitAgain, Me
<1>13. CASE WaitWake
  <2>1. me.state = "running" /\ picked = 0 /\ me.state \notin Gone
    BY <1>2, <1>13 DEF WaitWake, InKernel, Gone, Dead
  <2> DEFINE t == [me EXCEPT !.wake_pending = FALSE, !.waiting = FALSE, !.pc = "loop"]
  <2>2. /\ t \in Tasks /\ t.done = me.done /\ t.ppid = me.ppid /\ t.state = "running"
        /\ ~Parked(t) /\ t.state \notin Ended /\ t.pc # "park"
    BY <1>1, <2>1 DEF Tasks, Places, Parked, Ended
  <2>3. [g_tasks EXCEPT ![g_current].wake_pending = FALSE, ![g_current].waiting = FALSE,
                        ![g_current].pc = "loop"] = [g_tasks EXCEPT ![g_current] = t]
    BY <1>1 DEF Tables
  <2> HIDE DEF t
  <2>4. \/ Return([g_tasks EXCEPT ![g_current] = t])
        \/ g_tasks' = [g_tasks EXCEPT ![g_current] = t] /\ UNCHANGED <<g_current, picked>>
    BY <1>13, <2>3 DEF WaitWake
  <2>5. ASSUME g_tasks' = [g_tasks EXCEPT ![g_current] = t], UNCHANGED <<g_current, picked>>
        PROVE  Orderly(g_tasks)
    <3>1. Quiet(g_tasks') /\ Buried(g_tasks, g_tasks') /\ g_tasks'[g_current] = t
      BY <1>5, <2>1, <2>2, <2>5
    <3> QED
      BY <2>1, <2>2, <2>5, <3>1 DEF Orderly, OnCpu
  <2> QED
    BY <1>3, <1>6, <2>1, <2>2, <2>4, <2>5
<1>14. CASE SleepWake
  <2>1. me.state = "running" /\ picked = 0
    BY <1>2, <1>14 DEF SleepWake, InKernel
  <2> DEFINE t == [me EXCEPT !.wake_pending = FALSE, !.sleep_until = 0]
  <2>2. /\ t \in Tasks /\ t.done = me.done /\ t.ppid = me.ppid /\ t.state = "running"
        /\ t.pc # "park"
    BY <1>1, <1>14, <2>1 DEF Tasks, SleepWake, InKernel, Me
  <2>3. [g_tasks EXCEPT ![g_current].wake_pending = FALSE, ![g_current].sleep_until = 0]
          = [g_tasks EXCEPT ![g_current] = t]
    BY <1>1 DEF Tables
  <2> HIDE DEF t
  <2> QED
    BY <1>6, <1>14, <2>1, <2>2, <2>3 DEF SleepWake
<1>15. CASE Fault
  <2>1. me.state = "running" /\ picked = 0 /\ me.state \notin Gone
    BY <1>2, <1>15 DEF Fault, InUser, Gone, Dead
  <2> DEFINE t == [me EXCEPT !.ending = kSigSegv, !.state = "killed"]
             hit == [g_tasks EXCEPT ![g_current].ending = kSigSegv,
                                    ![g_current].state = "killed"]
  <2>2. /\ t \in Tasks /\ t.done = me.done /\ t.ppid = me.ppid /\ t.state = "killed"
        /\ t.pc = "user" /\ Settled(t)
    BY <1>1, <1>15 DEF Tasks, States, Codes, Signals, Settled, Fault, InUser, Me
  <2>3. hit = [g_tasks EXCEPT ![g_current] = t]
    BY <1>1 DEF Tables
  <2>4. PICK code \in ExitCodes : EndWith(hit, code)
    BY <1>15 DEF Fault
  <2> HIDE DEF t
  <2>5. hit \in Tables /\ hit[g_current] = t /\ Sound(hit, g_current)
    BY <1>1, <2>2, <2>3, MeSound DEF Tables
  <2> HIDE DEF hit
  <2>6. Quiet(hit) /\ Buried(g_tasks, hit)
    <3>1. ~Parked(t) /\ t.state \notin Ended
      BY <2>2 DEF Parked, Ended
    <3> QED
      BY <1>5, <2>1, <2>2, <2>3, <3>1
  <2>7. Orderly(hit)
    BY <1>1, <2>1, <2>2, <2>4, <2>5, <2>6, EndWithQuiet DEF Codes, Ended
  <2> QED
    BY <1>3, <1>4, <2>5, <2>6, <2>7
<1>16. CASE Kill
  <2>1. me.state = "running" /\ picked = 0
    BY <1>2, <1>16 DEF Kill, InUser
  <2>2. PICK p \in Pids, sig \in Raised :
          \/ p = g_current /\ EndWith(signal_task(g_tasks, p, sig), sig)
          \/ /\ ~(p = g_current /\ CanSignal(g_tasks, p))
             /\ Return(signal_task(g_tasks, p, sig))
    BY <1>16 DEF Kill
  <2>3. p # g_current \/ EndWith(signal_task(g_tasks, p, sig), sig)
    BY <2>1, <2>2 DEF CanSignal, Dead
  <2> DEFINE S == signal_task(g_tasks, p, sig)
  <2>4. sig \in Signals /\ sig \in Codes
    BY SignalAssumption DEF Signals, Codes
  <2>5. /\ S \in Tables /\ Sound(S, g_current) /\ Quiet(S) /\ Buried(g_tasks, S)
        /\ p # g_current => S[g_current].state = "running"
    BY <1>1, <1>2, <2>1, <2>4, SignalType, SignalSound, SignalQuiet
  <2>6. S[g_current].state \notin Ended
    BY <1>1, <2>1, SignalEach DEF Ended
  <2> HIDE DEF S
  <2>7. EndWith(S, sig) => Orderly(S)
    BY <1>1, <2>1, <2>4, <2>5, <2>6, EndWithQuiet
  <2>8. p # g_current /\ Return(S) => Orderly(S)
    BY <1>1, <2>1, <2>5, ReturnQuiet
  <2> QED
    BY <1>3, <1>4, <2>2, <2>3, <2>5, <2>7, <2>8 DEF S
<1>17. CASE Sleep
  <2>1. me.state = "running" /\ picked = 0 /\ me.state \notin Gone
    BY <1>2, <1>17 DEF Sleep, InUser, Gone, Dead
  <2>2. PICK n \in 0 .. MaxSleep :
          \/ Return(g_tasks)
          \/ block([g_tasks EXCEPT ![g_current].sleep_until = (g_ticks + n) % TickWord,
                                   ![g_current].pc = "sleep"], FALSE)
    BY <1>17 DEF Sleep
  <2> DEFINE t == [me EXCEPT !.sleep_until = (g_ticks + n) % TickWord, !.pc = "sleep"]
             T == [g_tasks EXCEPT ![g_current].sleep_until = (g_ticks + n) % TickWord,
                                  ![g_current].pc = "sleep"]
  <2>3. (g_ticks + n) % TickWord \in Nat
    BY TickAssumption DEF TypeOK
  <2>4. /\ t \in Tasks /\ t.done = me.done /\ t.ppid = me.ppid /\ t.state = "running"
        /\ t.pc = "sleep" /\ Settled(t) /\ ~Parked(t) /\ t.state \notin Ended
    BY <1>1, <2>1, <2>3 DEF Tasks, Places, Settled, Parked, Ended
  <2>5. T = [g_tasks EXCEPT ![g_current] = t]
    BY <1>1 DEF Tables
  <2> HIDE DEF t
  <2>6. /\ T \in Tables /\ T[g_current] = t /\ Sound(T, g_current)
        /\ Quiet(T) /\ Buried(g_tasks, T)
    BY <1>1, <1>5, <2>1, <2>4, <2>5, MeSound
  <2> HIDE DEF T
  <2>7. block(T, FALSE) => Orderly(T)
    BY <1>1, <2>1, <2>4, <2>6, BlockQuiet
  <2>8. Return(g_tasks) => Orderly(g_tasks)
    BY <1>1, <1>2, <2>1, ReturnQuiet
  <2> QED
    BY <1>3, <1>4, <2>2, <2>6, <2>7, <2>8 DEF T
<1>18. CASE Tick
  <2> DEFINE R == on_tick(g_tasks, g_ticks')
  <2>0. PICK S \in SUBSET Woken : ~panicked /\ preempt(Woke(R, S))
    BY <1>18 DEF Tick
  <2> DEFINE N == Woke(R, S)
  <2>1. /\ N \in Tables /\ Sound(N, g_current) /\ Quiet(N) /\ Buried(g_tasks, N)
        /\ \A q \in Pids : g_tasks[q].state # "blocked" => N[q].state = g_tasks[q].state
    <3>1. /\ R \in Tables /\ Sound(R, g_current) /\ Quiet(R) /\ Buried(g_tasks, R)
          /\ \A q \in Pids : g_tasks[q].state # "blocked" => R[q].state = g_tasks[q].state
      BY <1>1, <1>2, TickType, TickSound, TickQuiet
    <3> HIDE DEF R
    <3>2. /\ N \in Tables /\ Sound(N, g_current) /\ Quiet(N) /\ Buried(R, N)
          /\ \A q \in Pids : R[q].state # "blocked" => N[q].state = R[q].state
      BY <3>1, WokeType, WokeSound, WokeQuiet
    <3> HIDE DEF N
    <3> QED
      BY <3>1, <3>2, BuriedTwice
  <2>2. ~panicked /\ preempt(N)
    BY <2>0
  <2> HIDE DEF N
  <2>3. picked # 0 => picked \in Pids
    BY <1>1, TableAssumption DEF CpuTyped, Pids
  <2>4. /\ ~idle => N[g_current].state = "running"
        /\ picked # 0 => idle /\ N[picked].state = "ready"
    BY <1>1, <2>1, <2>2, <2>3 DEF QuietInv, OnCpu
  <2>5. Orderly(N)
    BY <1>1, <2>1, <2>2, <2>4, PreemptQuiet
  <2> QED
    BY <1>3, <1>4, <2>1, <2>5
<1>19. CASE IdlePick
  BY <1>19 DEF IdlePick, Picks, QuietInv, OnCpu, EndsForGood
<1>20. CASE IdleSwitch
  <2>1. picked \in Pids /\ g_tasks[picked].state = "ready"
    BY <1>20, TableAssumption DEF IdleSwitch, TypeOK, Pids, QuietInv, OnCpu
  <2>2. /\ Quiet(g_tasks') /\ Buried(g_tasks, g_tasks')
        /\ g_tasks'[picked].state = "running" /\ g_current' = picked /\ picked' = 0
    BY <1>1, <1>2, <1>20, <2>1, SwitchQuiet DEF IdleSwitch
  <2> QED
    BY <1>3, <2>2 DEF Orderly, OnCpu
<1>21. CASE Halt \/ UNCHANGED vars
  BY <1>21 DEF Halt, vars, QuietInv, OnCpu, Quiet, EndsForGood
<1>22. ~TickInterrupt
  BY DEF TickInterrupt
<1>23. CASE SleepCut
  <2>1. me.state = "running" /\ picked = 0
    BY <1>2, <1>23 DEF SleepCut, InUser
  <2> DEFINE t == [me EXCEPT !.wake_pending = FALSE, !.state = "running", !.sleep_until = 0]
  <2>2. /\ t \in Tasks /\ t.done = me.done /\ t.ppid = me.ppid /\ t.state = "running"
        /\ t.pc # "park"
    BY <1>1, <1>23 DEF Tasks, States, SleepCut, InUser, Me
  <2>3. [g_tasks EXCEPT ![g_current].wake_pending = FALSE, ![g_current].state = "running",
                        ![g_current].sleep_until = 0] = [g_tasks EXCEPT ![g_current] = t]
    BY <1>1 DEF Tables
  <2> HIDE DEF t
  <2> QED
    BY <1>6, <1>23, <2>1, <2>2, <2>3 DEF SleepCut
<1>24. CASE WaitPark
  <2>1. me.state = "running" /\ picked = 0 /\ me.pc = "park" /\ me.state \notin Gone
    BY <1>2, <1>24 DEF WaitPark, InKernel, Me, Gone, Dead
  <2> DEFINE t == [me EXCEPT !.pc = "wait"]
             T == [g_tasks EXCEPT ![g_current].pc = "wait"]
  <2>2. /\ t \in Tasks /\ t.done = me.done /\ t.ppid = me.ppid /\ t.state = "running"
        /\ t.pc = "wait" /\ t.wait_pid = me.wait_pid /\ t.wake_pending = me.wake_pending
        /\ t.waiting = me.waiting
    BY <1>1, <2>1 DEF Tasks, Places
  <2>3. /\ Settled(t) /\ ~Parked(t) /\ t.state \notin Ended
        /\ ~t.wake_pending => t.waiting /\ NoMatch(t.done, t.wait_pid)
    BY <1>1, <2>1, <2>2 DEF Settled, Parked, Ended
  <2>4. ~t.wake_pending /\ t.wait_pid # 0 =>
          /\ t.wait_pid \in Pids /\ g_tasks[t.wait_pid].state \notin Ended
          /\ g_tasks[t.wait_pid].ppid = g_current
    BY <1>1, <1>2, <2>1, <2>2, TableAssumption DEF Parked, Quiet, Awaited, Tasks, Pids
  <2>5. T = [g_tasks EXCEPT ![g_current] = t]
    BY <1>1 DEF Tables
  <2> HIDE DEF t
  <2>6. /\ T \in Tables /\ T[g_current] = t /\ Sound(T, g_current)
        /\ Quiet(T) /\ Buried(g_tasks, T)
    BY <1>1, <1>5, <2>1, <2>2, <2>3, <2>5, MeSound
  <2>7. \A q \in Pids : T[q].ppid = g_tasks[q].ppid
                         /\ (g_tasks[q].state \notin Ended => T[q].state \notin Ended)
    BY <1>1, <2>2, <2>3, <2>5 DEF Tables
  <2>8. block(T, TRUE)
    BY <1>24 DEF WaitPark
  <2> HIDE DEF T
  <2>9. Orderly(T)
    BY <1>1, <2>1, <2>2, <2>3, <2>4, <2>6, <2>7, <2>8, BlockQuiet
  <2> QED
    BY <1>3, <1>4, <2>6, <2>9
<1>25. CASE Wake
  <2>1. PICK S \in SUBSET Woken : g_tasks' = Woke(g_tasks, S)
    BY <1>25 DEF Wake
  <2>2. /\ Quiet(g_tasks') /\ Buried(g_tasks, g_tasks')
        /\ \A q \in Pids : g_tasks[q].state # "blocked" => g_tasks'[q].state = g_tasks[q].state
    BY <1>1, <1>2, <2>1, WokeQuiet
  <2>3. UNCHANGED <<g_current, idle, picked, panicked>> /\ (picked # 0 => picked \in Pids)
    BY <1>1, <1>25, TableAssumption DEF Wake, CpuTyped, Pids
  <2>4. OnCpu'
    BY <1>1, <2>2, <2>3 DEF QuietInv, OnCpu
  <2> QED
    BY <1>3, <2>2, <2>4 DEF Orderly
<1> QED
  BY <1>7, <1>8, <1>9, <1>10, <1>11, <1>12, <1>13, <1>14, <1>15, <1>16, <1>17, <1>18,
     <1>19, <1>20, <1>21, <1>22, <1>23, <1>24, <1>25 DEF Next

\* It holds from the start.
LEMMA QuietAlways == ASSUME Interrupted = {} PROVE Spec => []QuietInv
<1>1. Init => QuietInv
  <2> SUFFICES ASSUME Init PROVE QuietInv
    OBVIOUS
  <2>1. kPid1 \in Pids
    BY TableAssumption DEF Pids, kPid1
  <2>2. [Cleared EXCEPT !.state = "running"].state = "running"
        /\ [Cleared EXCEPT !.state = "running"].done = {}
        /\ Cleared.state = "free" /\ Cleared.done = {}
        /\ Cleared.pc = "user" /\ [Cleared EXCEPT !.state = "running"].pc = "user"
    BY DEF Cleared
  <2>3. \A p \in Pids : g_tasks[p].done = {} /\ g_tasks[p].pc = "user"
    BY <2>2 DEF Init
  <2>4. g_tasks[g_current].state = "running" /\ picked = 0
    BY <2>1, <2>2 DEF Init
  <2> QED
    BY <2>3, <2>4 DEF QuietInv, Quiet, Books, Awaited, Parked, OnCpu
<1>2. TypeOK /\ SoundInv /\ QuietInv /\ [Next]_vars => QuietInv'
  BY NextQuiet
<1> QED
  BY <1>1, <1>2, TypeCorrect, SoundAlways, PTL DEF Spec

\* While nobody types Ctrl-C, a pid is in its parent's list once at most: announce()
\* and reap() never both tell, and purge_notes() is in time.
THEOREM NotesDistinctAlways == ASSUME Interrupted = {} PROVE Spec => []NotesDistinct
<1>1. QuietInv => NotesDistinct
  BY DEF QuietInv, Quiet, Books, NotesDistinct
<1> QED
  BY <1>1, QuietAlways, PTL

\* While nobody types Ctrl-C, whoever is parked in wait_for for one pid waits for a
\* child of its own that is still there to wake it.
THEOREM WaitsForChildAlways == ASSUME Interrupted = {} PROVE Spec => []WaitsForChild
<1>1. QuietInv => WaitsForChild
  BY DEF QuietInv, Quiet, Awaited, Parked, Ended, WaitsForChild
<1> QED
  BY <1>1, QuietAlways, PTL

\* While nobody types Ctrl-C, there is no way back from kZombie and kKilled.
THEOREM DeadStaysDeadAlways == ASSUME Interrupted = {} PROVE Spec => DeadStaysDead
<1>1. TypeOK /\ SoundInv /\ QuietInv /\ [Next]_vars => [EndsForGood]_vars
  BY NextQuiet
<1> QED
  BY <1>1, TypeCorrect, SoundAlways, QuietAlways, PTL DEF Spec, DeadStaysDead, EndsForGood
=============================================================================
