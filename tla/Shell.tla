------------------------------- MODULE Shell --------------------------------
(***************************************************************************)
(* How the shell runs a line (apps/sh.cpp): run_pipeline, run_one,         *)
(* run_stage, substitute, wait_pid and the processes Ctrl-C is for, with   *)
(* the calls of the kernel they rest on.                                   *)
(*                                                                         *)
(* What a line says is chosen as the shell gets to it: how many stages,    *)
(* whether a file can be opened, whether there is such a command.  A       *)
(* program writes some bytes, reads its input to the end or stops before,  *)
(* and exits; that is all that is known of it.  Its descriptors are what   *)
(* the shell had at the fork, with 0 and 1 replaced: exec closes nothing.  *)
(* The table of jobs is only printed, and left out; of the builtins only   *)
(* kill is about processes.                                                *)
(***************************************************************************)
EXTENDS Integers, FiniteSets, FiniteSetsExt, Sequences, SequencesExt

CONSTANTS
  kMaxTask,    \* slots of the process table, the shell's included
  kMaxPipe,    \* pipes there are
  kPipeBytes,  \* bytes a pipe holds
  kMaxFd,      \* descriptors of a process
  kMaxStage,   \* stages of a pipeline
  kMaxFg,      \* processes Ctrl-C can be for
  MaxOut,      \* bound: bytes a program writes
  Backgrounds, \* bound: whether a pipeline may have an & behind it
  Faults       \* bound: what may go wrong: "in" and "out" (a redirection),
               \* "which" (no such command), "int" (Ctrl-C)

ASSUME ShellAssumption ==
  /\ kMaxTask \in Nat \ {0} /\ kMaxPipe \in Nat /\ kPipeBytes \in Nat \ {0}
  /\ kMaxFd \in Nat /\ kMaxFd >= 4 /\ kMaxStage \in Nat \ {0} /\ kMaxFg \in Nat /\ MaxOut \in Nat
  /\ Backgrounds \subseteq BOOLEAN /\ Faults \subseteq {"in", "out", "which", "int"}

kShell == 1
Kids == 2 .. kMaxTask
Pipes == 1 .. kMaxPipe
Fds == 0 .. kMaxFd - 1

VARIABLES
  sh,     \* the shell: where it is in run_pipeline, and its variables there
  fd,     \* its descriptors
  g_fg,   \* the processes an interrupt is passed on to, 0 for one that ended
  kids,   \* its children: descriptors, and the note about one that ended
  held,   \* bytes in each pipe
  ended   \* auxiliary: what the last stage of the line ended with

vars == <<sh, fd, g_fg, kids, held, ended>>

-----------------------------------------------------------------------------
(* The kernel, as far as the shell sees it                                 *)

Nothing == [is |-> "none", pipe |-> 0]
Tty == [is |-> "tty", pipe |-> 0]
File == [is |-> "file", pipe |-> 0]
Rd(i) == [is |-> "rd", pipe |-> i]
Wr(i) == [is |-> "wr", pipe |-> i]

FreeFds(F) == {f \in Fds : F[f] = Nothing}
Open(F, x) == [F EXCEPT ![Min(FreeFds(F))] = x]
Close(F, S) == [f \in Fds |-> IF f \in S THEN Nothing ELSE F[f]]

\* A child: `stage' is its place in the line the shell is at, 0 for others;
\* `left' is what it will still write.
NoKid == [live |-> FALSE, note |-> "none", in |-> Nothing, out |-> Nothing, also |-> {},
          left |-> 0, stage |-> 0]
Note(st) == [NoKid EXCEPT !.note = st]

Holds(p, x) == kids[p].live /\ x \in {kids[p].in, kids[p].out} \cup kids[p].also
HeldBy(x) == {p \in Kids : Holds(p, x)} \cup (IF x \in Range(fd) THEN {kShell} ELSE {})
FreePipes == {i \in Pipes : HeldBy(Rd(i)) = {} /\ HeldBy(Wr(i)) = {}}

\* A process ends, and the shell is left a note; Status is what exit codes and
\* signals come to.
Status == {"ok", "failed", "killed"}
End(S, st) ==
  /\ kids' = [p \in Kids |-> IF p \in S THEN Note(st) ELSE kids[p]]
  /\ ended' = IF \E p \in S : kids[p].stage # 0 /\ kids[p].stage = sh.n THEN st ELSE ended

\* fork() takes the first slot that is free, and drops what is noted about the one
\* who had it before.  The child's 0 and 1 are set before anything else happens; of
\* its descriptors only the ends of pipes are kept.
PipeEnd(x) == IF x.pipe = 0 THEN Nothing ELSE x
FreeKids == {p \in Kids : ~kids[p].live}
Forked(in, out, also, stage) ==
  \E left \in 0 .. MaxOut :
    kids' = [kids EXCEPT ![Min(FreeKids)] =
               [live |-> TRUE, note |-> "none", in |-> PipeEnd(in), out |-> PipeEnd(out),
                also |-> {PipeEnd(x) : x \in also} \ {Nothing},
                left |-> left, stage |-> stage]]

-----------------------------------------------------------------------------
(* Programs                                                                *)

Writes(p) ==
  LET i == kids[p].out.pipe
  IN /\ kids[p].live /\ kids[p].out.is = "wr" /\ kids[p].left > 0
     /\ HeldBy(Rd(i)) # {} /\ held[i] < kPipeBytes
     /\ held' = [held EXCEPT ![i] = @ + 1]
     /\ kids' = [kids EXCEPT ![p].left = @ - 1]
     /\ UNCHANGED <<sh, fd, g_fg, ended>>

Reads(p) ==
  LET i == kids[p].in.pipe
  IN /\ kids[p].live /\ kids[p].in.is = "rd" /\ held[i] > 0
     /\ held' = [held EXCEPT ![i] = @ - 1]
     /\ UNCHANGED <<sh, fd, g_fg, kids, ended>>

\* It is done: all is written, or nobody is left to read it, and the input has
\* come to its end.
AtEof(p) ==
  kids[p].in.is = "rd" => held[kids[p].in.pipe] = 0 /\ HeldBy(Wr(kids[p].in.pipe)) = {}
Written(p) ==
  kids[p].out.is = "wr" /\ kids[p].left > 0 => HeldBy(Rd(kids[p].out.pipe)) = {}
Exits(p) ==
  /\ kids[p].live /\ AtEof(p) /\ Written(p)
  /\ \E st \in {"ok", "failed"} : End({p}, st)
  /\ UNCHANGED <<sh, fd, g_fg, held>>

\* Or it stops before the end, as head(1) would.
ExitsEarly(p) ==
  /\ kids[p].live /\ ~AtEof(p)
  /\ End({p}, "ok")
  /\ UNCHANGED <<sh, fd, g_fg, held>>

-----------------------------------------------------------------------------
(* Who Ctrl-C is for                                                       *)

\* Mutant: only the first stage.
FgAddFirst(fg, p) == IF fg # <<>> THEN fg ELSE Append(fg, p)

\* A pid that is there already is not added twice, and a full list stays as it is.
fg_add(fg, p) == IF p \in Range(fg) \/ Len(fg) = kMaxFg THEN fg ELSE Append(fg, p)
fg_drop(fg, p) == [k \in DOMAIN fg |-> IF fg[k] = p THEN 0 ELSE fg[k]]

\* Emptied when the line is done, and when all in it have ended; a line that was given
\* up leaves its places behind.
forget_jobs(fg) == IF Range(fg) \subseteq {0} THEN <<>> ELSE fg

-----------------------------------------------------------------------------
(* run_pipeline()                                                          *)

None == -1
AtPrompt == [pc |-> "prompt", n |-> 0, i |-> 0, background |-> FALSE, in |-> None, out |-> None,
             next_in |-> None, carried |-> None, pids |-> <<>>, status |-> "ok", failed |-> FALSE]

\* run_job(): what the words of a job come to.
run_job == [n : 1 .. kMaxStage, background : Backgrounds]

\* run_line(): whether a job is run goes by what joins it to the one before.
Go(op) == CASE op = ";" -> TRUE [] op = "&&" -> sh.status = "ok" [] op = "||" -> sh.status # "ok"

\* A job of several stages, or run_one(), which makes no pipe and knows no & but is
\* otherwise the same.  Before the prompt waitpid(-1) is asked for background stages
\* that ended; the kernel knows no such process, and none is collected.
RunJob(op, job) ==
  /\ sh.pc = "prompt" /\ Go(op)
  /\ sh' = [AtPrompt EXCEPT !.pc = IF job.n = 1 THEN "in" ELSE "pipe", !.n = job.n, !.i = 1,
                           !.background = job.background /\ job.n > 1]
  /\ ended' = "ok"
  /\ UNCHANGED <<fd, g_fg, kids, held>>

\* A job that is passed over counts as one that went well.
SkipJob(op) ==
  /\ sh.pc = "prompt" /\ ~Go(op)
  /\ sh' = AtPrompt
  /\ UNCHANGED <<fd, g_fg, kids, held, ended>>

\* The one builtin that is about processes.
builtin_kill(p) ==
  /\ sh.pc = "prompt" /\ kids[p].live
  /\ End({p}, "killed")
  /\ sh' = AtPrompt
  /\ UNCHANGED <<fd, g_fg, held>>

\* Every way out on an error: these descriptors are closed, and the stages that
\* have been started are waited for.
Abort(F, S) ==
  /\ fd' = Close(F, S)
  /\ sh' = [sh EXCEPT !.pc = "wait", !.i = 1, !.failed = TRUE, !.status = "failed",
                      !.in = None, !.out = None, !.next_in = None, !.carried = None]

\* (A pipe is also lost when there are no two descriptors for it: module Pipe.)
MakePipe ==
  LET i == Min(FreePipes)
      r == Min(FreeFds(fd))
      w == Min(FreeFds(fd) \ {r})
      F == [fd EXCEPT ![r] = Rd(i), ![w] = Wr(i)]
  IN /\ sh.pc = "pipe"
     /\ \/ /\ sh.i = sh.n
           /\ sh' = [sh EXCEPT !.pc = "in", !.out = None, !.next_in = None]
           /\ UNCHANGED <<fd, held>>
        \/ /\ sh.i < sh.n /\ FreePipes # {} /\ Cardinality(FreeFds(fd)) >= 2
           /\ fd' = F /\ held' = [held EXCEPT ![i] = 0]
           /\ sh' = [sh EXCEPT !.pc = "in", !.out = w, !.next_in = r]
        \/ /\ sh.i < sh.n /\ (FreePipes = {} \/ Cardinality(FreeFds(fd)) < 2)
           /\ Abort(fd, {sh.carried}) /\ UNCHANGED held
     /\ UNCHANGED <<g_fg, kids, ended>>

\* open_redir(): no such file, or no descriptor for it.
CanOpen == FreeFds(fd) # {}
open_redir == IF CanOpen THEN {None, Min(FreeFds(fd))} ELSE {None}

\* A redirection counts only where there is no pipe.
RedirectIn ==
  /\ sh.pc = "in"
  /\ \/ /\ sh' = [sh EXCEPT !.pc = "out", !.in = sh.carried, !.carried = None]
        /\ UNCHANGED fd
     \/ /\ sh.carried = None /\ "in" \in Faults
        /\ \E in \in open_redir :
             IF in = None THEN Abort(fd, {sh.out, sh.next_in})
             ELSE fd' = Open(fd, File) /\ sh' = [sh EXCEPT !.pc = "out", !.in = in]
  /\ UNCHANGED <<g_fg, kids, held, ended>>

RedirectOut ==
  /\ sh.pc = "out"
  /\ \/ /\ sh' = [sh EXCEPT !.pc = "which"]
        /\ UNCHANGED fd
     \/ /\ sh.out = None /\ "out" \in Faults
        /\ \E out \in open_redir :
             IF out = None THEN Abort(fd, {sh.in, sh.next_in})
             ELSE fd' = Open(fd, File) /\ sh' = [sh EXCEPT !.pc = "which", !.out = out]
  /\ UNCHANGED <<g_fg, kids, held, ended>>

\* which() opens what it finds: without a descriptor for that there is no command.
which == (IF CanOpen THEN {TRUE} ELSE {}) \cup (IF CanOpen /\ "which" \notin Faults THEN {} ELSE {FALSE})

\* Mutant: the read end for the next stage is forgotten.
WhichForgets ==
  /\ sh.pc = "which"
  /\ \E found \in which : IF found THEN sh' = [sh EXCEPT !.pc = "fork"] /\ UNCHANGED fd
                            ELSE Abort(fd, {sh.in, sh.out})
  /\ UNCHANGED <<g_fg, kids, held, ended>>

Which ==
  /\ sh.pc = "which"
  /\ \E found \in which : IF found THEN sh' = [sh EXCEPT !.pc = "fork"] /\ UNCHANGED fd
                            ELSE Abort(fd, {sh.in, sh.out, sh.next_in})
  /\ UNCHANGED <<g_fg, kids, held, ended>>

\* run_stage(): dup() of 0 and 1 where nothing else is given, and fork().  The
\* child makes in and out its 0 and 1 and keeps all other descriptors.
\* A fork that fails returns 0: the shell takes itself for the child.
dup(F, f) == IF FreeFds(F) = {} THEN F ELSE Open(F, F[f])
DupOf(F) == IF FreeFds(F) = {} THEN None ELSE Min(FreeFds(F))
RunStage ==
  LET F1 == IF sh.in = None THEN dup(fd, 0) ELSE fd
      in == IF sh.in = None THEN DupOf(fd) ELSE sh.in
      F2 == IF sh.out = None THEN dup(F1, 1) ELSE F1
      out == IF sh.out = None THEN DupOf(F1) ELSE sh.out
      also == {F2[f] : f \in Fds \ {0, 1, in, out}}
  IN /\ sh.pc = "fork"
     /\ fd' = F2
     /\ IF FreeKids = {}
        THEN sh' = [sh EXCEPT !.pc = "lost"] /\ UNCHANGED kids
        ELSE /\ Forked(F2[IF in = None THEN 0 ELSE in], F2[IF out = None THEN 1 ELSE out], also,
                       IF sh.background THEN 0 ELSE sh.i)
             /\ sh' = [sh EXCEPT !.pc = "parent", !.in = in, !.out = out,
                                 !.pids = Append(@, Min(FreeKids))]
     /\ UNCHANGED <<g_fg, held, ended>>

\* Mutant: the parent keeps the end of the pipe that the stage writes to.
CloseIn == {sh.in}

\* What run_stage() took over from its caller.
Owned == {sh.in, sh.out}

\* The parent's side: close() of both, note_job(), fg_add(), and the next stage.
Parent ==
  /\ sh.pc = "parent"
  /\ fd' = Close(fd, Owned)
  /\ g_fg' = IF sh.background THEN g_fg ELSE fg_add(g_fg, Last(sh.pids))
  /\ sh' = [sh EXCEPT !.carried = sh.next_in, !.in = None, !.out = None, !.next_in = None,
                      !.pc = IF sh.i < sh.n THEN "pipe" ELSE "started",
                      !.i = IF sh.i < sh.n THEN @ + 1 ELSE 1]
  /\ UNCHANGED <<kids, held, ended>>

\* A background line returns to the prompt without waiting.
Started ==
  /\ sh.pc = "started"
  /\ fd' = Close(fd, {sh.carried})
  /\ sh' = IF sh.background THEN AtPrompt ELSE [sh EXCEPT !.pc = "wait", !.carried = None]
  /\ UNCHANGED <<g_fg, kids, held, ended>>

\* wait_pid(): a note, or nobody there any more.  While the process runs the call
\* waits; an interrupt ends it and it is made again.
Collect(p) ==
  /\ ~kids[p].live
  /\ kids' = [kids EXCEPT ![p] = NoKid]

\* Mutant: the status of the first stage.
StatusOfFirst(st) == IF sh.i > 1 THEN sh.status ELSE st

\* Of the stages of a foreground line the last one counts.
StatusOf(st) == IF sh.i < Len(sh.pids) THEN sh.status ELSE st

WaitStage ==
  LET p == sh.pids[sh.i]
  IN /\ sh.pc = "wait" /\ sh.i <= Len(sh.pids)
     /\ Collect(p)
     /\ g_fg' = fg_drop(g_fg, p)
     /\ sh' = [sh EXCEPT !.i = @ + 1,
                         !.status = IF sh.failed THEN @
                                    ELSE StatusOf(IF kids[p].note = "none" THEN "ok" ELSE kids[p].note)]
     /\ UNCHANGED <<fd, held, ended>>

\* All are in.  A line that was given up does not get as far as forget_jobs().
Waited ==
  /\ sh.pc = "wait" /\ sh.i > Len(sh.pids)
  /\ sh' = [AtPrompt EXCEPT !.status = sh.status, !.failed = sh.failed, !.pids = sh.pids]
  /\ g_fg' = IF sh.failed THEN g_fg ELSE forget_jobs(g_fg)
  /\ UNCHANGED <<fd, kids, held, ended>>

-----------------------------------------------------------------------------
(* substitute(): $(...)                                                    *)

\* The child closes the read end and has the other one as its 1.
Substitute ==
  LET i == Min(FreePipes)
      r == Min(FreeFds(fd))
      w == Min(FreeFds(fd) \ {r})
      F == [fd EXCEPT ![r] = Rd(i), ![w] = Wr(i)]
  IN /\ sh.pc = "prompt" /\ FreePipes # {} /\ Cardinality(FreeFds(fd)) >= 2
     /\ fd' = F /\ held' = [held EXCEPT ![i] = 0]
     /\ IF FreeKids = {} THEN sh' = [sh EXCEPT !.pc = "lost"] /\ UNCHANGED kids
        ELSE /\ Forked(F[0], Wr(i), {F[f] : f \in Fds \ {0, 1, r, w}}, 0)
             /\ sh' = [AtPrompt EXCEPT !.pc = "subst", !.in = r, !.out = w,
                                       !.pids = <<Min(FreeKids)>>, !.status = sh.status]
     /\ UNCHANGED <<g_fg, ended>>

SubstClose ==
  /\ sh.pc = "subst"
  /\ fd' = Close(fd, {sh.out})
  /\ sh' = [sh EXCEPT !.pc = "output", !.out = None]
  /\ UNCHANGED <<g_fg, kids, held, ended>>

SubstRead ==
  LET i == fd[sh.in].pipe
  IN /\ sh.pc = "output"
     /\ \/ held[i] > 0 /\ held' = [held EXCEPT ![i] = @ - 1] /\ UNCHANGED <<sh, fd>>
        \/ /\ held[i] = 0 /\ HeldBy(Wr(i)) = {}
           /\ fd' = Close(fd, {sh.in})
           /\ sh' = [sh EXCEPT !.pc = "reap", !.in = None]
           /\ UNCHANGED held
     /\ UNCHANGED <<g_fg, kids, ended>>

\* waitpid() this time is not made again after an interrupt; but the child, the only
\* one to hold the write end, has ended by now.  Its status is not asked for: && and
\* || go by the last job's.
SubstWait ==
  /\ sh.pc = "reap"
  /\ Collect(sh.pids[1])
  /\ sh' = [AtPrompt EXCEPT !.status = sh.status]
  /\ UNCHANGED <<fd, g_fg, held, ended>>

-----------------------------------------------------------------------------

\* on_interrupt(): the foreground gets it too; it has no handler.
Interrupt ==
  /\ "int" \in Faults /\ sh.pc # "lost"
  /\ \E p \in Kids : p \in Range(g_fg) /\ kids[p].live
  /\ End({p \in Kids : p \in Range(g_fg) /\ kids[p].live}, "killed")
  /\ UNCHANGED <<sh, fd, g_fg, held>>

\* 0, 1 and 2, which the kernel set up, and g_tty, which main() opens.
AtStart == {0, 1, 2, 3}

Init ==
  /\ sh = AtPrompt
  /\ fd = [f \in Fds |-> IF f \in AtStart THEN Tty ELSE Nothing]
  /\ g_fg = <<>>
  /\ kids = [p \in Kids |-> NoKid]
  /\ held = [i \in Pipes |-> 0]
  /\ ended = "ok"

ShellStep ==
  \/ MakePipe \/ RedirectIn \/ RedirectOut \/ Which \/ RunStage \/ Parent \/ Started
  \/ WaitStage \/ Waited \/ SubstClose \/ SubstRead \/ SubstWait

Program(p) == Writes(p) \/ Reads(p) \/ Exits(p)

Next ==
  \/ \E op \in {";", "&&", "||"} : SkipJob(op) \/ \E job \in run_job : RunJob(op, job)
  \/ \E p \in Kids : builtin_kill(p)
  \/ ShellStep \/ Substitute \/ Interrupt
  \/ \E p \in Kids : Program(p) \/ ExitsEarly(p)

Spec == Init /\ [][Next]_vars

\* The scheduler gives every process its turn (NoStarvation of module Task), and a
\* program that can go on does.
FairSpec == Spec /\ WF_vars(ShellStep) /\ \A p \in Kids : WF_vars(Program(p))

-----------------------------------------------------------------------------
(* Properties                                                              *)

\* Types.  A descriptor that run_pipeline() has in a variable is open: nothing is closed
\* twice, or while it is needed.
TypeOK ==
  /\ sh.pc \in {"prompt", "pipe", "in", "out", "which", "fork", "parent", "started", "wait",
                "subst", "output", "reap", "lost"}
  /\ Len(sh.pids) <= kMaxStage /\ Range(sh.pids) \subseteq Kids
  /\ \A f \in {sh.in, sh.out, sh.next_in, sh.carried} \ {None} : fd[f] # Nothing
  /\ Len(g_fg) <= kMaxFg /\ Range(g_fg) \subseteq Kids \cup {0}
  /\ \A i \in Pipes : held[i] \in 0 .. kPipeBytes

\* Whatever went wrong with the line, at the prompt the shell has the descriptors
\* it began with and nothing else, no stage of a foreground line is running, and
\* Ctrl-C is for nobody (the early returns of run_one and run_pipeline).
CleanPrompt ==
  /\ TypeOK
  /\ sh.pc = "prompt" =>
       /\ \A f \in Fds : fd[f] = IF f \in AtStart THEN Tty ELSE Nothing
       /\ \A p \in Kids : kids[p].live => kids[p].stage = 0
       /\ Range(g_fg) \subseteq {0}

\* Ctrl-C is for every stage of the line that runs, also when stages end and their
\* pids come back while the line is being started, unless the list is full (fg_add).
\* The stage just forked is not in it yet.
CtrlCReaches ==
  \A p \in Kids :
    /\ kids[p].live /\ kids[p].stage # 0
    /\ ~(sh.pc = "parent" /\ p = Last(sh.pids))
    => p \in Range(g_fg) \/ Len(g_fg) = kMaxFg

\* && and || go by what the last stage ended with, unless a slot was used twice
\* in the line: a stage that ends before a later one is forked gives it its pid,
\* the second wait finds nobody, and the status is 0.
StatusKept ==
  sh.pc = "prompt" /\ sh.pids # <<>> /\ ~sh.failed /\ IsInjective(sh.pids) => sh.status = ended

\* A stage that writes to a full pipe of which nobody but itself has the read end:
\* it got next_in at the fork, and never closed it.
WaitsForItself(p) ==
  /\ kids[p].live /\ kids[p].out.is = "wr" /\ kids[p].left > 0
  /\ HeldBy(Rd(kids[p].out.pipe)) = {p}

\* The prompt comes back: every reader gets its end of file, because nobody else
\* keeps a write end, and every wait ends.  Two things are in the way: a stage that
\* waits for itself, and a shell that took itself for the child.
PromptReturns ==
  sh.pc # "prompt" ~> (sh.pc \in {"prompt", "lost"} \/ \E p \in Kids : WaitsForItself(p))
=============================================================================
