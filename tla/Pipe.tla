-------------------------------- MODULE Pipe --------------------------------
(***************************************************************************)
(* Pipes and the descriptors that hold their ends: the pipe and descriptor *)
(* parts of kernel/vfs.cpp, with fork_user, exit, reap and block_on of     *)
(* kernel/task.cpp as far as they touch them.                              *)
(*                                                                         *)
(* A process inside the kernel is not preempted, so a call runs in one     *)
(* action until it returns or parks in block_on, and again from there when *)
(* the process is given the CPU (Resume).  Only the number of bytes in a   *)
(* pipe is kept: what they are, and the ring they sit in, is PipeRing.     *)
(* A wake-up that finds its process awake is remembered (wake_pending) and *)
(* makes the next block() return at once; pipe_rd and pipe_wr then look    *)
(* again, find nothing changed and block for good, so it is left out.      *)
(* A process killed by another is swept up at the next switch; Ctrl-C on   *)
(* the running process is in module Task only.                             *)
(***************************************************************************)
EXTENDS Integers, FiniteSets, FiniteSetsExt, PipeSizes

CONSTANTS
  kMaxTask,    \* slots of the process table (8 in the code)
  kMaxFd,      \* descriptors of a process (16 in the code)
  kMaxPipe,    \* slots of g_pipes
  Crowd        \* how many processes may be inside a read, or inside a write,
               \* of one pipe at a time

ASSUME PipeAssumption ==
  /\ kMaxTask \in Nat \ {0} /\ kMaxFd \in Nat \ {0} /\ kMaxPipe \in Nat \ {0}
  /\ kPipeBytes \in Nat \ {0} /\ MaxLen \in Nat \ {0} /\ Crowd \in Nat \ {0}

Pids == 1 .. kMaxTask
kPid1 == 1
Fds == 1 .. kMaxFd
Pipes == 1 .. kMaxPipe

VARIABLES
  g_tasks,    \* the process table: state, descriptors and where each process is
  g_current,  \* pid of the process on the CPU
  g_pipes     \* the pipe table

vars == <<g_tasks, g_current, g_pipes>>

-----------------------------------------------------------------------------
(* The tables                                                              *)

Ends == [pipe : Pipes, write : BOOLEAN]
Closed == [pipe |-> 0, write |-> FALSE]
States == {"free", "ready", "running", "zombie", "killed", "blocked"}
Dead == {"zombie", "killed"}

\* `pc' is where a process is parked or about to go on: in user mode, or in
\* pipe_rd or pipe_wr of pipe `on', in pipe_wr with `len' bytes still to write.
Tasks == [state : States, fd : [Fds -> Ends \cup {Closed}],
          pc : {"user", "rd", "wr"}, on : 0 .. kMaxPipe, len : 0 .. MaxLen]

PipeBufs == [open : BOOLEAN, n : 0 .. kPipeBytes, readers : Nat, writers : Nat,
             rd_wait : 0 .. kMaxTask, wr_wait : 0 .. kMaxTask]

Free == [state |-> "free", fd |-> [f \in Fds |-> Closed], pc |-> "user", on |-> 0, len |-> 0]
Shut == [open |-> FALSE, n |-> 0, readers |-> 0, writers |-> 0, rd_wait |-> 0, wr_wait |-> 0]

Init ==
  /\ g_tasks = [p \in Pids |-> IF p = kPid1 THEN [Free EXCEPT !.state = "running"] ELSE Free]
  /\ g_current = kPid1
  /\ g_pipes = [i \in Pipes |-> Shut]

-----------------------------------------------------------------------------
(* Descriptors                                                             *)

\* The descriptors of L, and of all processes, that are this end of pipe i.
Among(L, T, i, w) == {x \in L : T[x[1]].fd[x[2]] = [pipe |-> i, write |-> w]}
Holders(T, i, w) == Among(Pids \X Fds, T, i, w)

\* unblock() every process of S, as far as they are blocked.
Wake(T, S) ==
  [p \in Pids |-> IF p \in S /\ T[p].state = "blocked"
                  THEN [T[p] EXCEPT !.state = "ready"] ELSE T[p]]

\* fd_unshare() of a set L of descriptors, one after the other: the counts go
\* down, never below 0, and the last one on an end wakes who waits on the other.
Left(count, gone) == IF Cardinality(gone) < count THEN count - Cardinality(gone) ELSE 0
LastOut(L, T, P, i, w) ==
  /\ Among(L, T, i, w) # {}
  /\ Left(IF w THEN P[i].writers ELSE P[i].readers, Among(L, T, i, w)) = 0

fd_unshare(T, P, L) ==
  [i \in Pipes |->
     LET r == Left(P[i].readers, Among(L, T, i, FALSE))
         w == Left(P[i].writers, Among(L, T, i, TRUE))
     IN [P[i] EXCEPT !.readers = r, !.writers = w,
                     !.rd_wait = IF LastOut(L, T, P, i, TRUE) THEN 0 ELSE @,
                     !.wr_wait = IF LastOut(L, T, P, i, FALSE) THEN 0 ELSE @,
                     !.open = @ /\ (r > 0 \/ w > 0)]]

\* Mutant: the counts move and nobody is told.
UnshareQuietly(T, P, L) == {}

UnshareWakes(T, P, L) ==
  {P[i].rd_wait : i \in {j \in Pipes : LastOut(L, T, P, j, TRUE)}}
    \cup {P[i].wr_wait : i \in {j \in Pipes : LastOut(L, T, P, j, FALSE)}}

\* close_in() of every descriptor in L: the table without them.
close_in(T, P, L) ==
  Wake([p \in Pids |-> [T[p] EXCEPT !.fd = [f \in Fds |-> IF <<p, f>> \in L THEN Closed ELSE @[f]]]],
       UnshareWakes(T, P, L))

\* fd_share() of the descriptors in L, already in T.
fd_share(T, P, L) ==
  [i \in Pipes |->
     [P[i] EXCEPT !.readers = @ + Cardinality(Among(L, T, i, FALSE)),
                  !.writers = @ + Cardinality(Among(L, T, i, TRUE))]]

-----------------------------------------------------------------------------
(* The scheduler, as far as pipes notice it                                *)

\* reap() closes what a killed process held (exit did so for a zombie) and gives
\* the slots of the dead back, but for the current one.
Held(S) == S \X Fds
reap(T, P) ==
  LET killed == {p \in Pids \ {kPid1} : T[p].state = "killed"}
      shut == close_in(T, P, Held(killed))
  IN [p \in Pids |-> IF T[p].state \in Dead /\ p \notin {kPid1, g_current} THEN Free ELSE shut[p]]
ReapPipes(T, P) ==
  fd_unshare(T, P, Held({p \in Pids \ {kPid1} : T[p].state = "killed"}))

\* pick(): the first ready process after the current one, in slot order.
Turn(p) == (p - g_current - 1) % kMaxTask
Picks(T, to) ==
  /\ T[to].state = "ready"
  /\ \A q \in Pids : T[q].state = "ready" => Turn(to) <= Turn(q)

\* task_switch_now(): sweep, and hand the CPU to the next that wants it, if any.
Switch(T, P) ==
  LET R == reap(T, P)
  IN /\ g_pipes' = ReapPipes(T, P)
     /\ \/ \E to \in Pids :
             /\ Picks(R, to)
             /\ g_current' = to
             /\ g_tasks' = [R EXCEPT ![g_current].state = IF @ = "running" THEN "ready" ELSE @,
                                     ![to].state = "running"]
        \/ /\ \A q \in Pids : R[q].state # "ready"
           /\ g_tasks' = R
           /\ UNCHANGED g_current

Return(T, P) ==
  /\ g_tasks' = [T EXCEPT ![g_current].pc = "user", ![g_current].on = 0, ![g_current].len = 0]
  /\ g_pipes' = P
  /\ UNCHANGED g_current

\* block_on() up to the switch: the claim is in the slot already.
Park(T, P, where, i, len) ==
  Switch([T EXCEPT ![g_current].state = "blocked", ![g_current].pc = where,
                   ![g_current].on = i, ![g_current].len = len], P)

Me == g_tasks[g_current]
InUser == Me.state = "running" /\ Me.pc = "user"

\* The timer: the quantum is over, or nobody else wants the CPU.
Preempt == InUser /\ Switch(g_tasks, g_pipes)

-----------------------------------------------------------------------------
(* Reading and writing.  Neither function asks which end it was called on. *)

\* Mutant: nobody asks for the writers.
RdWaits(T, P, i) ==
  \/ P[i].n = 0 /\ Park(T, [P EXCEPT ![i].rd_wait = g_current], "rd", i, 0)
  \/ \E got \in 1 .. P[i].n :
       Return(Wake(T, {P[i].wr_wait}), [P EXCEPT ![i].n = @ - got, ![i].wr_wait = 0])

\* pipe_rd(), from the test of its loop on; `got' is what was asked for, or all there is.
pipe_rd(T, P, i) ==
  \/ /\ P[i].n = 0 /\ P[i].writers > 0
     /\ Park(T, [P EXCEPT ![i].rd_wait = g_current], "rd", i, 0)
  \/ /\ P[i].n = 0 /\ P[i].writers = 0
     /\ Return(T, P)
  \/ \E got \in 1 .. P[i].n :
       Return(Wake(T, {P[i].wr_wait}), [P EXCEPT ![i].n = @ - got, ![i].wr_wait = 0])

\* Mutant: a byte is put where there is no room.
WrOverruns(T, P, i, len) == Return(T, [P EXCEPT ![i].n = @ + len])

\* pipe_wr(), from the test of its loop on: what fits goes in and wakes a reader;
\* with bytes left it waits for room, and gives up if there is no reader.
pipe_wr(T, P, i, len) ==
  LET put == Min({len, kPipeBytes - P[i].n})
      P1 == IF put = 0 THEN P ELSE [P EXCEPT ![i].n = @ + put, ![i].rd_wait = 0]
      T1 == IF put = 0 THEN T ELSE Wake(T, {P[i].rd_wait})
  IN \/ put = len /\ Return(T1, P1)
     \/ /\ put < len /\ P[i].readers > 0
        /\ Park(T1, [P1 EXCEPT ![i].wr_wait = g_current], "wr", i, len - put)
     \/ put < len /\ P[i].readers = 0 /\ Return(T1, P1)

Inside(where, i) ==
  {p \in Pids : g_tasks[p].pc = where /\ g_tasks[p].on = i /\ g_tasks[p].state \notin Dead}

Read ==
  /\ InUser
  /\ \E f \in Fds :
       /\ Me.fd[f] # Closed
       /\ Cardinality(Inside("rd", Me.fd[f].pipe)) < Crowd
       /\ pipe_rd(g_tasks, g_pipes, Me.fd[f].pipe)

Write ==
  /\ InUser
  /\ \E f \in Fds, len \in 1 .. MaxLen :
       /\ Me.fd[f] # Closed
       /\ Cardinality(Inside("wr", Me.fd[f].pipe)) < Crowd
       /\ pipe_wr(g_tasks, g_pipes, Me.fd[f].pipe, len)

\* Back in block_on() with the CPU: the slot is emptied, whoever is in it.
Resume ==
  /\ Me.state = "running"
  /\ \/ /\ Me.pc = "rd"
        /\ pipe_rd(g_tasks, [g_pipes EXCEPT ![Me.on].rd_wait = 0], Me.on)
     \/ /\ Me.pc = "wr"
        /\ pipe_wr(g_tasks, [g_pipes EXCEPT ![Me.on].wr_wait = 0], Me.on, Me.len)

-----------------------------------------------------------------------------
(* Opening, copying and closing                                            *)

\* pipe(): with fewer than two descriptors free it fails, the pipe taken.
MakePipe ==
  /\ InUser
  /\ \E i \in Pipes :
       /\ ~g_pipes[i].open
       /\ \A j \in Pipes : ~g_pipes[j].open => i <= j
       /\ LET P == [g_pipes EXCEPT ![i] = [Shut EXCEPT !.open = TRUE, !.readers = 1, !.writers = 1]]
              free == {f \in Fds : Me.fd[f] = Closed}
          IN \/ Cardinality(free) < 2 /\ Return(g_tasks, P)
             \/ /\ Cardinality(free) >= 2
                /\ LET r == Min(free)
                       w == Min(free \ {r})
                   IN Return([g_tasks EXCEPT ![g_current].fd[r] = [pipe |-> i, write |-> FALSE],
                                             ![g_current].fd[w] = [pipe |-> i, write |-> TRUE]], P)

Close ==
  /\ InUser
  /\ \E f \in Fds :
       LET L == {<<g_current, f>>}
       IN Return(close_in(g_tasks, g_pipes, L), fd_unshare(g_tasks, g_pipes, L))

\* dup2(): the target is vacated first; a closed descriptor is copied like any other.
Dup2 ==
  /\ InUser
  /\ \E old, nw \in Fds :
       LET L == {<<g_current, nw>>}
           T == [close_in(g_tasks, g_pipes, L) EXCEPT ![g_current].fd[nw] = Me.fd[old]]
       IN /\ old # nw
          /\ Return(T, fd_share(T, fd_unshare(g_tasks, g_pipes, L), L))

\* Mutant: the child's copies are not counted.
ForkUncounted ==
  /\ InUser
  /\ \E s \in Pids \ {kPid1} :
       /\ g_tasks[s].state = "free"
       /\ Return([g_tasks EXCEPT ![s] = [Free EXCEPT !.state = "ready", !.fd = Me.fd]], g_pipes)

\* fork_user(): the child holds every end its parent does.
Fork ==
  /\ InUser
  /\ \E s \in Pids \ {kPid1} :
       /\ g_tasks[s].state = "free"
       /\ \A r \in Pids \ {kPid1} : g_tasks[r].state = "free" => s <= r
       /\ LET T == [g_tasks EXCEPT ![s] = [Free EXCEPT !.state = "ready", !.fd = Me.fd]]
          IN Return(T, fd_share(T, g_pipes, Held({s})))

\* exit(): the first process stays, or the kernel panics (module Task).
Exit ==
  /\ InUser
  /\ g_current # kPid1
  /\ LET L == Held({g_current})
     IN Switch([close_in(g_tasks, g_pipes, L) EXCEPT ![g_current].state = "zombie"],
               fd_unshare(g_tasks, g_pipes, L))

\* kill() of another process, which leaves its claims where they are.
Kill ==
  /\ InUser
  /\ \E p \in Pids \ {kPid1, g_current} :
       /\ g_tasks[p].state \notin Dead \cup {"free"}
       /\ Return([g_tasks EXCEPT ![p].state = "killed"], g_pipes)

\* A caught signal puts a parked process back on the run queue.
Signal ==
  /\ InUser
  /\ \E p \in Pids \ {g_current} :
       /\ g_tasks[p].state = "blocked"
       /\ Return(Wake(g_tasks, {p}), g_pipes)

Next ==
  \/ Preempt \/ Read \/ Write \/ Resume
  \/ MakePipe \/ Close \/ Dup2 \/ Fork \/ Exit \/ Kill \/ Signal

Spec == Init /\ [][Next]_vars
\* The timer ends every quantum (Task), and the kernel goes on with what it began.
FairSpec == Spec /\ WF_vars(Preempt) /\ WF_vars(Resume)

-----------------------------------------------------------------------------
(* Properties                                                              *)

\* Type invariant of the two tables.
TypeOK ==
  /\ g_tasks \in [Pids -> Tasks]
  /\ g_current \in Pids
  /\ g_pipes \in [Pipes -> PipeBufs]

\* The counts of a pipe are the descriptors that hold its ends, over every fork,
\* dup2, close, exit and kill: so the last close is seen as the last, and a slot
\* that somebody still holds is never handed out by pipe() again.
EndsCounted ==
  \A i \in Pipes :
    LET r == Holders(g_tasks, i, FALSE)
        w == Holders(g_tasks, i, TRUE)
    IN r \cup w # {} => /\ g_pipes[i].open
                        /\ g_pipes[i].readers = Cardinality(r)
                        /\ g_pipes[i].writers = Cardinality(w)

\* vfs.cpp: "a party waiting on the far side is waiting for a count to move, so
\* whoever just moved it has to say so".  Nobody is left parked in a read that
\* could return or in a write that could go on.
NoLostWakeup ==
  \A p \in Pids :
    LET t == g_tasks[p]
        b == g_pipes[t.on]
    IN t.state = "blocked" =>
         /\ t.pc = "rd" => b.n = 0 /\ b.writers > 0
         /\ t.pc = "wr" => b.n = kPipeBytes /\ b.readers > 0

\* End of file arrives: a process in a read gets out of it once nobody holds the
\* write end, whoever closed it, exited or was killed with it.
EofSeen ==
  \A p \in Pids :
    (g_tasks[p].pc = "rd" /\ g_tasks[p].state \notin Dead
       /\ Holders(g_tasks, g_tasks[p].on, TRUE) = {})
      ~> (g_tasks[p].pc # "rd" \/ g_tasks[p].state \in Dead)
=============================================================================
