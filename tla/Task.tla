-------------------------------- MODULE Task --------------------------------
(***************************************************************************)
(* The process table and the scheduler: kernel/task.cpp, the process calls *)
(* of kernel/syscall.cpp and the timer path of arch/isr.cpp.               *)
(*                                                                         *)
(* One CPU.  A system call enters through an interrupt gate, so it runs    *)
(* with interrupts off until it returns to user mode or gives the CPU      *)
(* away: such a stretch is one action.  A process that was switched away   *)
(* inside the kernel resumes with interrupts ON (the `sti' at the end of   *)
(* task_switch_asm and task_suspend_asm), so what it still does in the     *)
(* kernel is cut into the steps between which a timer tick may come; `pc'  *)
(* says where it is.  The idle loop of task_switch_now also runs with      *)
(* interrupts on, on the kernel stack of the process that went to sleep.   *)
(*                                                                         *)
(* Reads of the keyboard, the terminal and pipes are in modules Tty and    *)
(* Pipe.  Here is only what they do to others, unblock(), whom they may do *)
(* it to being a parameter, and the wake-up one may leave behind it.       *)
(* Of deliver() the signal is kept, not the frame it builds.               *)
(*                                                                         *)
(* A pid is its slot plus one, so pids index the table here.               *)
(***************************************************************************)
EXTENDS Integers, FiniteSets

CONSTANTS
  kMaxTask,    \* slots of the process table (8 in the code)
  kQuantum,    \* ticks a process gets before it is moved along
  Catchable,   \* the signals a handler can be installed for
  kSigInt,     \* the one Ctrl-C raises
  kSigKill,    \* the one nobody can catch
  Raised,      \* the signals processes send each other
  kSigSegv,    \* the one a fault in user mode ends in
  kSigNone,    \* no signal
  ExitCodes,   \* codes a process may pass to exit
  Interrupted, \* pids the terminal's owner may be when Ctrl-C is typed
  Woken,       \* pids that kbd::wake() and the pipes may unblock
  TickWord,    \* values of g_ticks before it wraps (2^32 in the code)
  MaxTicks,    \* bound: ticks a behaviour may have (no bound if >= TickWord)
  MaxSleep     \* bound: the longest sleep asked for, in ticks

Pids == 1 .. kMaxTask
kPid1 == 1
Signals == Catchable \cup {kSigInt, kSigKill, kSigSegv}

ASSUME TableAssumption == kMaxTask \in Nat \ {0} /\ kQuantum \in Nat \ {0}
ASSUME SignalAssumption ==
  /\ kSigInt # kSigKill
  /\ kSigKill \notin Catchable
  /\ Raised \subseteq Catchable \cup {kSigKill}
  /\ kSigNone \notin Signals
  /\ ExitCodes \cap (Signals \cup {kSigNone}) = {}
  /\ ExitCodes # {}
ASSUME TickAssumption ==
  /\ TickWord \in Nat \ {0}
  /\ MaxTicks \in Nat
  /\ MaxSleep \in Nat
  /\ Interrupted \subseteq Pids
  /\ Woken \subseteq Pids

VARIABLES
  g_tasks,    \* the process table
  g_current,  \* pid of the process on the CPU
  idle,       \* the CPU is in task_switch_now, looking for somebody to run
  picked,     \* what pick() returned there, 0 before it found anybody
  g_ticks,    \* timer interrupts since boot
  panicked    \* the kernel stopped in panic()

vars == <<g_tasks, g_current, idle, picked, g_ticks, panicked>>

-----------------------------------------------------------------------------
(* The table                                                               *)

States == {"free", "ready", "running", "zombie", "killed", "blocked"}
Dead == {"zombie", "killed"}

\* How a process ended, `signal' and `exit_code' in one: the code it passed to
\* exit, or the signal that stands for 128 + itself; kSigNone while it lives.
Codes == ExitCodes \cup Signals \cup {kSigNone}
Notes == [pid : Pids, code : Codes]

\* `done' is a set: which note wait() takes when several would do is left open
\* (the list is packed by moving its last entry into the hole), and a pid noted
\* twice with one code counts once.

\* Where a process is: in user mode; suspended or just resumed inside the
\* block() of wait_for ("wait") or of sleep_ticks ("sleep"); at the top of
\* wait_for's loop ("loop") or about to call block() there ("park"); past exit,
\* never to come back ("exit").
Places == {"user", "wait", "loop", "park", "sleep", "exit"}

Tasks == [state : States, ppid : 0 .. kMaxTask,
          ending : Codes,
          done : SUBSET Notes, waiting : BOOLEAN, wait_pid : 0 .. kMaxTask,
          wake_pending : BOOLEAN,
          sig_handlers : SUBSET Catchable,
          sig_pending : Catchable \cup {kSigNone},
          sig_active : Catchable \cup {kSigNone},
          sleep_until : Nat, quantum : 0 .. kQuantum, pc : Places]

\* A slot fork_user has just cleared.  Nothing reads the fields of a free slot.
Cleared ==
  [state |-> "free", ppid |-> 0, ending |-> kSigNone, done |-> {},
   waiting |-> FALSE, wait_pid |-> 0, wake_pending |-> FALSE,
   sig_handlers |-> {}, sig_pending |-> kSigNone, sig_active |-> kSigNone,
   sleep_until |-> 0, quantum |-> kQuantum, pc |-> "user"]

\* Once exec::init_first and become_first have run, the shell is alone in user mode.
Init ==
  /\ g_tasks = [p \in Pids |-> IF p = kPid1
                               THEN [Cleared EXCEPT !.state = "running"]
                               ELSE Cleared]
  /\ g_current = kPid1
  /\ idle = FALSE
  /\ picked = 0
  /\ g_ticks = 0
  /\ panicked = FALSE

-----------------------------------------------------------------------------
(* Functions of the table that several handlers call                       *)

Unblock(t) ==
  IF t.state = "blocked" THEN [t EXCEPT !.state = "ready"]
                         ELSE [t EXCEPT !.wake_pending = TRUE]

\* What a process that ended is remembered by.
Note(T, p) == [pid |-> p, code |-> T[p].ending]

\* Mutant: the parent is told and left asleep.
HearUnwoken(t, T, kids) == [t EXCEPT !.done = @ \cup {Note(T, c) : c \in kids}]

\* Mutant: the list has room for the last child to end only.
HearLast(t, T, kids) ==
  LET told == [t EXCEPT !.done = {Note(T, c) : c \in kids}]
  IN IF kids = {} THEN t ELSE IF t.waiting THEN Unblock(told) ELSE told

\* The parent takes down notes until its list is full, and stops waiting.
Hear(t, T, kids) ==
  LET room(c) == Cardinality(t.done) + Cardinality({d \in kids : d < c}) < kMaxTask
      heard == {c \in kids : room(c)}
      told == [t EXCEPT !.done = @ \cup {Note(T, c) : c \in heard}]
  IN IF t.waiting /\ heard # {} THEN Unblock(told) ELSE told

announce(T, p) ==
  [q \in Pids |-> IF q = T[p].ppid /\ q # p /\ T[q].state # "free"
                  THEN Hear(T[q], T, {p}) ELSE T[q]]

\* reap(): a killed process becomes a zombie and its parent is told; every
\* zombie but the current process gives its slot back.
KilledKids(T, q) == {c \in Pids \ {kPid1} : T[c].state = "killed" /\ T[c].ppid = q}
\* Mutant: a process is swept up before its parent was told.
ReapQuietly(T) ==
  [q \in Pids |-> IF q # kPid1 /\ T[q].state \in Dead /\ q # g_current THEN Cleared
                  ELSE T[q]]
reap(T) ==
  [q \in Pids |->
     IF T[q].state = "free" THEN T[q]
     ELSE IF q # kPid1 /\ T[q].state \in Dead /\ q # g_current THEN Cleared
     ELSE LET told == Hear(T[q], T, KilledKids(T, q))
          IN IF q # kPid1 /\ T[q].state = "killed"
             THEN [told EXCEPT !.state = "zombie"] ELSE told]

InitDead(T) == T[kPid1].state \in Dead

\* pick(): the first ready process after the current one, in slot order.
Turn(p) == (p - g_current - 1) % kMaxTask
\* Mutant: the search always starts at the first slot.
PicksLowest(T, to) ==
  /\ T[to].state = "ready"
  /\ \A q \in Pids : T[q].state = "ready" => to <= q
Picks(T, to) ==
  /\ T[to].state = "ready"
  /\ \A q \in Pids : T[q].state = "ready" => Turn(to) <= Turn(q)
NoneReady(T) == \A q \in Pids : T[q].state # "ready"

\* deliver_pending(): the one pending signal is taken, and its handler entered
\* if there still is one, unless a handler is running already.
deliver_pending(t) ==
  IF t.sig_pending = kSigNone \/ t.sig_active # kSigNone THEN t
  ELSE [t EXCEPT !.sig_pending = kSigNone,
                 !.sig_active = IF t.sig_pending \in t.sig_handlers
                                THEN t.sig_pending ELSE kSigNone]

\* Mutant: the process that loses the CPU stays kRunning.
SwitchKeepsFrom(T, to) ==
  [T EXCEPT ![to].state = "running", ![to].quantum = kQuantum]

\* switch_to(): nobody looks at what state `to' has come to be in.
switch_to(T, to) ==
  [p \in Pids |->
     IF p = to
     THEN LET t == [T[p] EXCEPT !.state = "running", !.quantum = kQuantum]
          IN IF t.pc = "user" THEN deliver_pending(t) ELSE t
     ELSE IF p = g_current /\ T[p].state = "running"
          THEN [T[p] EXCEPT !.state = "ready"]
     ELSE T[p]]

\* signal_task(): FALSE when there is nobody to signal.
CanSignal(T, p) == T[p].state # "free" /\ T[p].state \notin Dead
signal_task(T, p, sig) ==
  IF ~CanSignal(T, p) THEN T
  ELSE [T EXCEPT ![p] =
          IF sig # kSigKill /\ sig \in @.sig_handlers
          THEN LET t == [@ EXCEPT !.sig_pending = sig]
               IN IF t.state = "blocked" THEN Unblock(t) ELSE t
          ELSE [@ EXCEPT !.ending = sig, !.state = "killed"]]

-----------------------------------------------------------------------------
(* How a handler ends                                                      *)

Panic(T) == panicked' = TRUE /\ g_tasks' = T /\ UNCHANGED <<g_current, idle, picked>>

\* The end of syscall_dispatch: a pending signal is delivered on the way out.
\* (wait_pid means nothing outside wait_for.)
Return(T) ==
  /\ g_tasks' = [T EXCEPT ![g_current] = deliver_pending([@ EXCEPT !.pc = "user", !.wait_pid = 0])]
  /\ UNCHANGED <<g_current, idle, picked, panicked>>

\* task_switch_now() with interrupts off: no tick between pick and switch_to.
Suspend(T) ==
  \/ InitDead(T) /\ Panic(T)
  \/ /\ ~InitDead(T)
     /\ UNCHANGED panicked
     /\ \/ \E to \in Pids :
             /\ Picks(reap(T), to)
             /\ g_tasks' = switch_to(reap(T), to)
             /\ g_current' = to
             /\ UNCHANGED <<idle, picked>>
        \/ /\ NoneReady(reap(T))
           /\ g_tasks' = reap(T)
           /\ idle' = TRUE
           /\ UNCHANGED <<g_current, picked>>

\* task_switch_now() with interrupts on: reap() here, pick() and switch_to() later.
SuspendOpen(T) ==
  \/ InitDead(T) /\ Panic(T)
  \/ /\ ~InitDead(T)
     /\ g_tasks' = reap(T)
     /\ idle' = TRUE
     /\ UNCHANGED <<g_current, picked, panicked>>

\* schedule(), from a call that still has interrupts off or from one that was
\* switched away before and has them on.
schedule(T, interrupts) ==
  \/ interrupts /\ SuspendOpen(T)
  \/ ~interrupts /\ Suspend(T)

\* block(): a wake-up that came before the process was off the run queue is
\* used up at once; otherwise the CPU goes to somebody else.
block(T, interrupts) ==
  IF T[g_current].wake_pending
  THEN /\ g_tasks' = [T EXCEPT ![g_current].wake_pending = FALSE,
                               ![g_current].state = "running"]
       /\ UNCHANGED <<g_current, idle, picked, panicked>>
  ELSE schedule([T EXCEPT ![g_current].state = "blocked"], interrupts)

-----------------------------------------------------------------------------
(* System calls.  A process in user mode may make any of them.             *)

Me == g_tasks[g_current]
InUser == ~panicked /\ ~idle /\ Me.pc = "user"
InKernel(place) == ~panicked /\ ~idle /\ Me.pc = place

\* Mutant: the old owner's notes are kept.
PurgeNothing(T, s) == T
purge_notes(T, s) ==
  [q \in Pids |-> [T[q] EXCEPT !.done = {n \in @ : n.pid # s}]]

\* fork_user(): the first free slot; notes about its last owner are dropped
\* everywhere, even if there turns out to be no memory for the child.
Fork ==
  /\ InUser
  /\ \E s \in Pids \ {kPid1} :
       /\ g_tasks[s].state = "free"
       /\ \A r \in Pids \ {kPid1} : g_tasks[r].state = "free" => s <= r
       /\ \/ Return([purge_notes(g_tasks, s) EXCEPT
                       ![s] = [Cleared EXCEPT !.state = "ready", !.ppid = g_current]])
          \/ Return([purge_notes(g_tasks, s) EXCEPT ![s] = Cleared])
  /\ UNCHANGED g_ticks

\* exit(): leave a note with the parent and never come back.
EndWith(T, code) ==
  LET gone == [T EXCEPT ![g_current].ending = IF T[g_current].state = "killed"
                                              THEN @ ELSE code,
                        ![g_current].state = "zombie",
                        ![g_current].pc = "exit"]
  IN Suspend(announce(gone, g_current))

Exit ==
  /\ InUser
  /\ \E code \in ExitCodes : EndWith(g_tasks, code)
  /\ UNCHANGED g_ticks

\* kill_user_fault(): an exception in user mode that copy-on-write did not explain.
Fault ==
  /\ InUser
  /\ \E code \in ExitCodes :
       EndWith([g_tasks EXCEPT ![g_current].ending = kSigSegv,
                               ![g_current].state = "killed"], code)
  /\ UNCHANGED g_ticks

\* Mutant: a process that killed itself goes on.
KillSelfReturns ==
  /\ InUser
  /\ \E p \in Pids, sig \in Raised : Return(signal_task(g_tasks, p, sig))
  /\ UNCHANGED g_ticks

\* kill(): a process that signals itself ends, whether it catches the signal or not.
Kill ==
  /\ InUser
  /\ \E p \in Pids, sig \in Raised :
       IF p = g_current /\ CanSignal(g_tasks, p)
       THEN EndWith(signal_task(g_tasks, p, sig), sig)
       ELSE Return(signal_task(g_tasks, p, sig))
  /\ UNCHANGED g_ticks

Sigaction ==
  /\ InUser
  /\ \E sig \in Catchable :
       \/ Return([g_tasks EXCEPT ![g_current].sig_handlers = @ \cup {sig}])
       \/ Return([g_tasks EXCEPT ![g_current].sig_handlers = @ \ {sig}])
  /\ UNCHANGED g_ticks

\* sigreturn(): the signal that arrived meanwhile is delivered in its turn.
Sigreturn ==
  /\ InUser
  /\ Me.sig_active # kSigNone
  /\ Return([g_tasks EXCEPT ![g_current].sig_active = kSigNone])
  /\ UNCHANGED g_ticks

\* exec::replace() when it succeeds: a new image, no handlers, and running.
Exec ==
  /\ InUser
  /\ g_tasks' = [g_tasks EXCEPT ![g_current].sig_handlers = {},
                                ![g_current].sig_pending = kSigNone,
                                ![g_current].sig_active = kSigNone,
                                ![g_current].state = "running"]
  /\ UNCHANGED <<g_current, idle, picked, g_ticks, panicked>>

-----------------------------------------------------------------------------
(* wait()                                                                  *)

Matches(n, pid) == pid = 0 \/ n.pid = pid
NoMatch(done, pid) == \A n \in done : ~Matches(n, pid)

\* One turn of wait_for's loop: with interrupts off up to and with block(), and with
\* interrupts on as far as its call.
WaitTurn(pid, nowait, interrupts) ==
  LET swept == [g_tasks EXCEPT ![g_current].wake_pending = FALSE]
      T == reap(swept)
      me == T[g_current]
  IN \/ InitDead(swept) /\ Panic(swept)
     \/ /\ ~InitDead(swept)
        /\ \/ \E n \in me.done :
                /\ Matches(n, pid)
                /\ Return([T EXCEPT ![g_current].done = @ \ {n}])
           \/ /\ NoMatch(me.done, pid)
              /\ \/ /\ \/ nowait
                       \/ pid # 0 /\ (T[pid].state = "free" \/ T[pid].ppid # g_current)
                    /\ Return(T)
                 \/ /\ ~nowait
                    /\ pid # 0 => T[pid].state # "free" /\ T[pid].ppid = g_current
                    /\ \/ /\ ~interrupts
                          /\ block([T EXCEPT ![g_current].waiting = TRUE,
                                             ![g_current].wait_pid = pid,
                                             ![g_current].pc = "wait"], FALSE)
                       \/ /\ interrupts
                          /\ g_tasks' = [T EXCEPT ![g_current].waiting = TRUE,
                                                  ![g_current].wait_pid = pid,
                                                  ![g_current].pc = "park"]
                          /\ UNCHANGED <<g_current, idle, picked, panicked>>

Wait ==
  /\ InUser
  /\ \E pid \in 0 .. kMaxTask, nowait \in BOOLEAN : WaitTurn(pid, nowait, FALSE)
  /\ UNCHANGED g_ticks

\* Mutant: the wake-up that ended the wait is not used up.
WaitWakeKeeps ==
  /\ InKernel("wait")
  /\ LET T == [g_tasks EXCEPT ![g_current].waiting = FALSE, ![g_current].pc = "loop"]
     IN IF Me.sig_pending # kSigNone
        THEN Return(T)
        ELSE g_tasks' = T /\ UNCHANGED <<g_current, idle, picked, panicked>>
  /\ UNCHANGED g_ticks

\* Back from block(): a signal ends the wait, anything else tries again.
WaitWake ==
  /\ InKernel("wait")
  /\ LET T == [g_tasks EXCEPT ![g_current].wake_pending = FALSE,
                              ![g_current].waiting = FALSE,
                              ![g_current].pc = "loop"]
     IN IF Me.sig_pending # kSigNone
        THEN Return(T)
        ELSE g_tasks' = T /\ UNCHANGED <<g_current, idle, picked, panicked>>
  /\ UNCHANGED g_ticks

WaitAgain ==
  /\ InKernel("loop")
  /\ WaitTurn(Me.wait_pid, FALSE, TRUE)
  /\ UNCHANGED g_ticks

WaitPark ==
  /\ InKernel("park")
  /\ block([g_tasks EXCEPT ![g_current].pc = "wait"], TRUE)
  /\ UNCHANGED g_ticks

-----------------------------------------------------------------------------
(* sleep()                                                                 *)

Sleep ==
  /\ InUser
  /\ \E n \in 0 .. MaxSleep :
       \/ /\ n = 0 \/ Me.sig_pending # kSigNone
          /\ Return(g_tasks)
       \/ /\ n # 0 /\ Me.sig_pending = kSigNone /\ ~Me.wake_pending
          /\ block([g_tasks EXCEPT ![g_current].sleep_until = (g_ticks + n) % TickWord,
                                   ![g_current].pc = "sleep"], FALSE)
  /\ UNCHANGED g_ticks

\* A wake-up is left over: block() uses it up and returns, with interrupts still off.
SleepCut ==
  /\ InUser /\ MaxSleep > 0 /\ Me.sig_pending = kSigNone /\ Me.wake_pending
  /\ Return([g_tasks EXCEPT ![g_current].wake_pending = FALSE,
                            ![g_current].state = "running",
                            ![g_current].sleep_until = 0])
  /\ UNCHANGED g_ticks

SleepWake ==
  /\ InKernel("sleep")
  /\ Return([g_tasks EXCEPT ![g_current].wake_pending = FALSE,
                            ![g_current].sleep_until = 0])
  /\ UNCHANGED g_ticks

-----------------------------------------------------------------------------
(* The timer interrupt                                                     *)

\* Mutant: the alarm rings one tick late.
OnTickLate(T, now) ==
  [p \in Pids |->
     IF T[p].state = "blocked" /\ T[p].sleep_until # 0 /\ now > T[p].sleep_until
     THEN Unblock([T[p] EXCEPT !.sleep_until = 0])
     ELSE IF T[p].state = "blocked" /\ T[p].sig_pending # kSigNone /\ ~T[p].waiting
     THEN Unblock(T[p])
     ELSE T[p]]

\* on_tick(): sleepers whose time has come, and blocked processes with a
\* signal pending, unless they are in wait(), go back on the run queue.
on_tick(T, now) ==
  [p \in Pids |->
     IF T[p].state = "blocked" /\ T[p].sleep_until # 0 /\ now >= T[p].sleep_until
     THEN Unblock([T[p] EXCEPT !.sleep_until = 0])
     ELSE IF T[p].state = "blocked" /\ T[p].sig_pending # kSigNone /\ ~T[p].waiting
     THEN Unblock(T[p])
     ELSE T[p]]

\* Mutant: the quantum is counted down past zero.
PreemptUnderflow(T) ==
  /\ g_tasks' = [T EXCEPT ![g_current].quantum = @ - 1]
  /\ UNCHANGED <<g_current, idle, picked, panicked>>
\* preempt(): a dead process, or one in user mode whose quantum is used up,
\* loses the CPU if anybody else can have it.
preempt(T) ==
  LET t == T[g_current]
      dead == t.state \in Dead
      kernel == idle \/ t.pc # "user"
      left == IF t.quantum = 0 THEN 0 ELSE t.quantum - 1
      spent == IF dead THEN T ELSE [T EXCEPT ![g_current].quantum = left]
  IN \/ /\ ~dead /\ kernel
        /\ g_tasks' = T
        /\ UNCHANGED <<g_current, idle, picked, panicked>>
     \/ /\ ~dead /\ ~kernel /\ left # 0
        /\ g_tasks' = spent
        /\ UNCHANGED <<g_current, idle, picked, panicked>>
     \/ /\ dead \/ (~kernel /\ left = 0)
        /\ \/ InitDead(spent) /\ Panic(spent)
           \/ /\ ~InitDead(spent)
              /\ UNCHANGED panicked
              /\ \/ \E to \in Pids \ {g_current} :
                      /\ Picks(reap(spent), to)
                      /\ g_tasks' = switch_to(reap(spent), to)
                      /\ g_current' = to
                      /\ idle' = FALSE
                      /\ picked' = 0
                 \/ /\ \/ NoneReady(reap(spent))
                       \/ Picks(reap(spent), g_current)
                    /\ g_tasks' = reap(spent)
                    /\ UNCHANGED <<g_current, idle, picked>>

\* kbd::wake() and the pipes: what they find in their slots is unblocked.  A slot may
\* name a process that is not waiting any more, or a dead one, and with it whoever has
\* its place in the table later.
Woke(T, S) == [p \in Pids |-> IF p \in S /\ T[p].state # "free" THEN Unblock(T[p]) ELSE T[p]]

\* The keyboard's interrupt, or the current process at the other end of a pipe.
Wake ==
  /\ ~panicked
  /\ \E S \in SUBSET Woken : g_tasks' = Woke(g_tasks, S)
  /\ UNCHANGED <<g_current, idle, picked, g_ticks, panicked>>

\* At the end of on_tick() tty_drain() and a pending byte wake the keyboard's readers.
Tick ==
  /\ ~panicked
  /\ MaxTicks >= TickWord \/ g_ticks < MaxTicks
  /\ g_ticks' = (g_ticks + 1) % TickWord
  /\ \E S \in SUBSET Woken : preempt(Woke(on_tick(g_tasks, g_ticks'), S))

\* The same tick, with a Ctrl-C in what tty_drain() takes from the keyboard.
TickInterrupt ==
  /\ ~panicked
  /\ MaxTicks >= TickWord \/ g_ticks < MaxTicks
  /\ g_ticks' = (g_ticks + 1) % TickWord
  /\ \E p \in Interrupted, S \in SUBSET Woken :
       preempt(Woke(signal_task(on_tick(g_tasks, g_ticks'), p, kSigInt), S))

-----------------------------------------------------------------------------
(* The rest of task_switch_now() when interrupts are on                    *)

IdlePick ==
  /\ ~panicked /\ idle /\ picked = 0
  /\ \E to \in Pids : Picks(g_tasks, to) /\ picked' = to
  /\ UNCHANGED <<g_tasks, g_current, idle, g_ticks, panicked>>

IdleSwitch ==
  /\ ~panicked /\ idle /\ picked # 0
  /\ g_tasks' = switch_to(g_tasks, picked)
  /\ g_current' = picked
  /\ idle' = FALSE
  /\ picked' = 0
  /\ UNCHANGED <<g_ticks, panicked>>

\* panic() ends in a loop around hlt.
Halt == panicked /\ UNCHANGED vars

Kernel == WaitWake \/ WaitAgain \/ WaitPark \/ SleepWake \/ IdlePick \/ IdleSwitch

Next ==
  \/ Fork \/ Exit \/ Fault \/ Kill \/ Sigaction \/ Sigreturn \/ Exec
  \/ Wait \/ WaitWake \/ WaitAgain \/ WaitPark
  \/ Sleep \/ SleepCut \/ SleepWake
  \/ Tick \/ TickInterrupt \/ Wake
  \/ IdlePick \/ IdleSwitch
  \/ Halt

Spec == Init /\ [][Next]_vars
\* The timer keeps ticking and the kernel never stops half way; what a process
\* does in user mode is its own business.
FairSpec ==
  /\ Spec
  /\ WF_vars(Tick \/ TickInterrupt)
  /\ WF_vars(Kernel)

-----------------------------------------------------------------------------
(* Properties                                                              *)

\* Type invariant of the process table and of the CPU's registers.
TypeOK ==
  /\ g_tasks \in [Pids -> Tasks]
  /\ g_current \in Pids
  /\ idle \in BOOLEAN
  /\ picked \in 0 .. kMaxTask
  /\ g_ticks \in 0 .. (TickWord - 1)
  /\ panicked \in BOOLEAN

\* Through preemption, sleep, wake-ups and the idle loop, kRunning is never left
\* behind on a process that lost the CPU (switch_to, block, resume_after_exec).
RunningIsCurrent ==
  \A p \in Pids : g_tasks[p].state = "running" => p = g_current

\* No lost wake-up in wait_for: a process parked there has no note it would take,
\* however the end of its child falls between take_done and block.
NoMissedExit ==
  \A p \in Pids :
    g_tasks[p].state = "blocked" /\ g_tasks[p].pc = "wait"
      => NoMatch(g_tasks[p].done, g_tasks[p].wait_pid)

\* A process parked in wait_for for one pid waits for a child of its own that is
\* still there to wake it: it cannot be left waiting for a slot that was given back.
WaitsForChild ==
  \A p \in Pids :
    LET t == g_tasks[p]
    IN t.state = "blocked" /\ t.pc = "wait" /\ t.wait_pid # 0
         => /\ g_tasks[t.wait_pid].state # "free"
            /\ g_tasks[t.wait_pid].ppid = p

\* A pid is in its parent's list once at most, slots being reused (purge_notes).
NotesDistinct ==
  \A p \in Pids : \A m, n \in g_tasks[p].done : m.pid = n.pid => m = n

\* task.h calls kZombie "exited" and kKilled "took a signal, unwinding": from
\* either there is no way back to life.
DeadStaysDead ==
  [][\A p \in Pids : g_tasks[p].state \in Dead
                        => g_tasks'[p].state \in Dead \cup {"free"}]_vars

\* A note waits for its owner: only the owner takes it out of its list, but for a
\* fork that purges the notes about a slot that was given back and is free (where
\* task.h promises all "children that have ended and not been collected yet").
NotesKept ==
  [][\A p \in Pids : \A n \in g_tasks[p].done :
       \/ p = g_current \/ g_tasks'[p].state = "free" \/ n \in g_tasks'[p].done
       \/ g_tasks[n.pid].state = "free"]_vars

\* Round robin with a quantum starves nobody: a ready process gets the CPU, or
\* is killed first.
NoStarvation ==
  \A p \in Pids :
    g_tasks[p].state = "ready" ~> (panicked \/ g_tasks[p].state # "ready")

\* Ends of children, alarms and signals leave no wake-up over for the wrong sleep: but
\* for the keyboard and the pipes, block() returns early only for a wake-up meant for
\* the wait that is going on, so that the next sleep() of a process whose wait() was
\* raced by a signal and a child is not cut short.  (They do leave one: a key between
\* kbd.cpp:106 and 109 does, and the reader's next sleep() is SleepCut.)
NoStaleWake ==
  \A p \in Pids \ Woken :
    g_tasks[p].state \notin Dead \cup {"free"} /\ g_tasks[p].wake_pending
      => g_tasks[p].waiting /\ g_tasks[p].pc \in {"wait", "park"}

\* An alarm that is set rings: whatever else happens to it meanwhile, a sleeper is
\* back on the run queue (or killed) some ticks later.
SleeperWakes ==
  \A p \in Pids :
    (g_tasks[p].state = "blocked" /\ g_tasks[p].sleep_until # 0)
      ~> (panicked \/ g_tasks[p].state # "blocked")

\* task.h calls kKilled "took a signal, unwinding": a killed process is swept up in
\* the end, its parent told and its descriptors closed (signal_task, then reap).
KilledUnwinds ==
  \A p \in Pids :
    g_tasks[p].state = "killed" ~> (panicked \/ g_tasks[p].state # "killed")
=============================================================================
