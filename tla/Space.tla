------------------------------- MODULE Space --------------------------------
(***************************************************************************)
(* Address spaces: kernel/arch/paging.cpp, kernel/exec.cpp, the page fault *)
(* of kernel/arch/isr.cpp, and fork_user, give_frames, destroy and reap of *)
(* kernel/task.cpp as far as they touch memory.                            *)
(*                                                                         *)
(* Everything is cut from one pool of frames, the lowest free one first.   *)
(* Three shapes are made smaller: a space and its four page directories    *)
(* are one frame, pt_code and pt_heap (always handed on together) are one  *)
(* table, and code, stack and arena of a process are one frame each (a     *)
(* Region).  Calls run to their end without being preempted; which process *)
(* runs next is left open.                                                 *)
(*                                                                         *)
(* Accesses go through the TLB: the CPU may use an entry it has kept       *)
(* instead of the one in the table.                                        *)
(***************************************************************************)
EXTENDS Naturals, FiniteSets, FiniteSetsExt

CONSTANTS
  kMaxTask,   \* slots of the process table
  kFrames,    \* frames of the pool
  kRegions,   \* the regions of an image, one frame each (code, stack and arena)
  Val,        \* what a frame can hold
  Loaded,     \* what a frame holds once a program was loaded
  MaxForks,   \* bound: calls of fork
  Execs,      \* bound: the processes whose exec may succeed, or find no room
  Nobody,     \* a process that is not there, in the abstract view
  FailedBy,   \* whose exec may fail in load_into(): an "owner" of its image,
              \* a "sharer"
  FailedAt,   \* and where: before ("open") or after ("load") the switch into the
              \* new space
  CopyShared, \* the kernel copies results into pages that are still shared
  Orderly     \* a process waits for those it shares its image with before it
              \* exits or execs

ASSUME SpaceAssumption ==
  /\ kMaxTask \in Nat \ {0} /\ kFrames \in Nat /\ kRegions \in Nat \ {0} /\ MaxForks \in Nat
  /\ Execs \subseteq 1 .. kMaxTask
  /\ kFrames >= 2 + kRegions /\ Loaded \in Val /\ Nobody \notin [1 .. kRegions -> Val]
  /\ FailedBy \subseteq {"owner", "sharer"} /\ FailedAt \subseteq {"open", "load"}
  /\ CopyShared \in BOOLEAN
  /\ Orderly \in BOOLEAN

Pids == 1 .. kMaxTask
kPid1 == 1
Frames == 1 .. kFrames
Region == 1 .. kRegions

VARIABLES
  mem,       \* the frames: what each is used for, and what is in it
  task,      \* of each process: state, space, frames it was given, who owns them
  current,   \* task::g_current
  cr3,       \* paging::g_current, the space the CPU is in
  tlb,       \* what the CPU has kept of the tables: at most the last entry it used
  forks      \* calls of fork so far, bounded by MaxForks

vars == <<mem, task, current, cr3, tlb, forks>>

-----------------------------------------------------------------------------
(* Frames                                                                  *)

Entries == [frame : Frames, w : BOOLEAN]
NoEntry == [frame |-> 0, w |-> FALSE]

Free == [use |-> "free"]
Data(v) == [use |-> "data", val |-> v]
Table(e) == [use |-> "table", ent |-> e]
Group(pt, n) == [use |-> "group", pt |-> pt, refs |-> n]
SpaceAt(pt, g) == [use |-> "space", pt |-> pt, cow |-> g]
Kstack == [use |-> "kstack"]

Unused(m) == {f \in Frames : m[f].use = "free"}
Room(m, n) == Cardinality(Unused(m)) >= n
kframe_alloc(m) == Min(Unused(m))
kfree(m, S) == [f \in Frames |-> IF f \in S THEN Free ELSE m[f]]

EmptyTable == Table([r \in Region |-> NoEntry])
NoSpace == [use |-> "space", pt |-> 0, cow |-> 0]

-----------------------------------------------------------------------------
(* paging.cpp.  Operators take the frames and return the new ones.         *)

\* space_create(): the space, then its tables.  What it has when it runs out is
\* not given back.
space_create(m) ==
  LET s == kframe_alloc(m)
      m1 == [m EXCEPT ![s] = NoSpace]
      pt == kframe_alloc(m1)
  IN IF ~Room(m, 1) THEN [ok |-> FALSE, m |-> m, s |-> 0]
     ELSE IF ~Room(m, 2) THEN [ok |-> FALSE, m |-> m1, s |-> 0]
     ELSE [ok |-> TRUE, m |-> [m1 EXCEPT ![s].pt = pt, ![pt] = EmptyTable], s |-> s]

\* One space fewer in group g; the last one takes the group's tables with it.
LeaveGroup(m, g) ==
  IF m[g].refs = 1 THEN kfree(m, {g, m[g].pt}) ELSE [m EXCEPT ![g].refs = @ - 1]

OutOfGroup(m, s) == m[s].cow # 0 /\ m[s].pt # m[m[s].cow].pt

space_destroy(m, s) ==
  LET own == IF m[s].cow = 0 \/ OutOfGroup(m, s) THEN kfree(m, {m[s].pt}) ELSE m
      left == IF m[s].cow = 0 THEN own ELSE LeaveGroup(own, m[s].cow)
  IN kfree(left, {s})

\* Mutant: the child joins and is not counted.
JoinUncounted(m, child, g) ==
  [kfree(m, {m[child].pt}) EXCEPT ![child] = SpaceAt(m[g].pt, g)]

\* The child drops its own tables for those of group g.
JoinGroup(m, child, g) ==
  [kfree(m, {m[child].pt}) EXCEPT ![child] = SpaceAt(m[g].pt, g), ![g].refs = @ + 1]

ReadOnly(e) == [r \in Region |-> [e[r] EXCEPT !.w = FALSE]]

\* The parent's tables become the group's, without write access; the child's own
\* are dropped for them.  A parent that has left an older group lets go of it
\* first, also when there is then no room for a new one.
space_share_user(m, child, parent) ==
  LET m1 == IF OutOfGroup(m, parent)
            THEN [LeaveGroup(m, m[parent].cow) EXCEPT ![parent].cow = 0] ELSE m
      new == m1[parent].cow = 0
      g == IF new THEN kframe_alloc(m1) ELSE m1[parent].cow
      m2 == IF new THEN [m1 EXCEPT ![g] = Group(m1[parent].pt, 1), ![parent].cow = g]
            ELSE m1
  IN IF new /\ ~Room(m1, 1) THEN [ok |-> FALSE, m |-> m1]
     ELSE [ok |-> TRUE, m |-> JoinGroup([m2 EXCEPT ![m2[g].pt].ent = ReadOnly(@)], child, g)]

\* Mutant: the space goes on in the tables of its group.
UnshareLater(m, s) == [ok |-> TRUE, m |-> m]

\* unshare(): a copy of the group's tables.  Both fit or neither is kept.
unshare(m, s) ==
  LET pt == kframe_alloc(m)
  IN IF m[s].cow = 0 \/ OutOfGroup(m, s) THEN [ok |-> TRUE, m |-> m]
     ELSE IF ~Room(m, 1) THEN [ok |-> FALSE, m |-> m]
     ELSE [ok |-> TRUE, m |-> [m EXCEPT ![pt] = m[m[s].pt], ![s].pt = pt]]

map_page(m, s, r, f) ==
  IF m[m[s].pt].ent[r].frame = f THEN m
  ELSE [m EXCEPT ![m[s].pt].ent[r] = [frame |-> f, w |-> TRUE]]

\* A write to a page without write access: a new frame with the same content,
\* in tables of the space's own.
space_cow_fault(m, s, r) ==
  LET e == m[m[s].pt].ent[r]
      nf == kframe_alloc(m)
      u == unshare([m EXCEPT ![nf] = m[e.frame]], s)
  IN IF m[s].cow = 0 \/ e.frame = 0 \/ e.w \/ ~Room(m, 1) \/ ~u.ok
     THEN [ok |-> FALSE, m |-> m]
     ELSE [ok |-> TRUE, m |-> map_page(u.m, s, r, nf)]

NoTlb == [r \in Region |-> NoEntry]

\* space_switch(): cr3 and all that was kept of the old space.
space_switch(s) == cr3' = s /\ tlb' = NoTlb

\* Mutant: new tables are linked and cr3 is left alone.
LinkTablesLazily(s) == tlb

\* link_tables() of a space loads cr3 again when the CPU is in it: what is left
\* in the TLB.
link_tables(s) == IF cr3 = s THEN NoTlb ELSE tlb

-----------------------------------------------------------------------------
(* The table of processes                                                  *)

States == {"free", "live", "dead"}
NoFrames == [r \in Region |-> 0]
Tasks == [state : States, sp : 0 .. kFrames, base : [Region -> 0 .. kFrames],
          owns : BOOLEAN, kstack : 0 .. kFrames, ppid : 0 .. kMaxTask]
FreeSlot == [state |-> "free", sp |-> 0, base |-> NoFrames, owns |-> FALSE,
             kstack |-> 0, ppid |-> 0]

Live == {p \in Pids : task[p].state = "live"}

\* give_frames(): one region after the other.  It is all or nothing, so whoever
\* calls it asks for Room first.
give_frames(m) ==
  [r \in Region |-> CHOOSE f \in Unused(m) : Cardinality({e \in Unused(m) : e < f}) = r - 1]

\* map_image(), and what load_into() has written where it was mapped.
map_image(m, s, b) ==
  LET own == {b[r] : r \in Region}
      ent == [r \in Region |-> [frame |-> b[r], w |-> TRUE]]
  IN [f \in Frames |-> IF f \in own THEN Data(Loaded)
                       ELSE IF f = m[s].pt THEN Table(ent) ELSE m[f]]

\* Mutant: the frames go back whoever owns them.
DestroyAll(m, t) ==
  kfree(space_destroy(m, t.sp), {t.kstack} \cup {t.base[r] : r \in Region})

\* destroy(): space and kernel stack, and the image of a process that owns it.
Owned(t) == IF t.owns THEN {t.base[r] : r \in Region} ELSE {}
destroy(m, t) == kfree(space_destroy(m, t.sp), {t.kstack} \cup Owned(t))

\* reap(): every dead process but the current one, in the order of the table.
reap(m) ==
  LET upto[n \in 0 .. kMaxTask] ==
        IF n = 0 THEN m
        ELSE IF n # current /\ task[n].state = "dead" THEN destroy(upto[n - 1], task[n])
        ELSE upto[n - 1]
  IN upto[kMaxTask]
Reaped == [p \in Pids |-> IF p # current /\ task[p].state = "dead" THEN FreeSlot
                          ELSE task[p]]

-----------------------------------------------------------------------------
(* Start: init_first() has given process 1 a space and an image            *)

Init ==
  /\ current = kPid1 /\ tlb = NoTlb /\ forks = 0
  /\ LET start == [f \in Frames |-> Free]
         c == space_create(start)
         b == give_frames(c.m)
     IN /\ mem = map_image(c.m, c.s, b)
        /\ cr3 = c.s
        /\ task = [p \in Pids |-> IF p # kPid1 THEN FreeSlot
                                  ELSE [FreeSlot EXCEPT !.state = "live", !.sp = c.s,
                                                        !.base = b, !.owns = TRUE]]

-----------------------------------------------------------------------------
(* Memory accesses of the current process                                  *)

Running == task[current].state = "live"

Walk(r) == mem[mem[cr3].pt].ent[r]

\* What the CPU goes by: the table, or what it has kept of it.
Seen(r) == {Walk(r)} \cup {e \in {tlb[r]} : e # NoEntry}

Load(r) ==
  /\ Running
  /\ \E e \in Seen(r) : e # NoEntry /\ tlb' = [NoTlb EXCEPT ![r] = e]
  /\ UNCHANGED <<mem, task, current, cr3, forks>>

\* A store by the process, or by the kernel into memory the process gave it for
\* a result (read, wait, fstat).  CR0.WP is never set, so the kernel's own stores
\* do not fault, whatever the entry says.
Store(r, v) ==
  /\ Running
  /\ \E e \in Seen(r) :
       /\ e.w \/ (CopyShared /\ e # NoEntry)
       /\ mem' = [mem EXCEPT ![e.frame] = Data(v)]
       /\ tlb' = [NoTlb EXCEPT ![r] = e]
  /\ UNCHANGED <<task, current, cr3, forks>>

\* Nobody that was forked from p still runs in p's image.
Done(p) == \A c \in Pids : task[c].state # "free" /\ task[c].ppid = p => task[c].owns

\* Process 1 does not end (reap() panics), and an orderly one not before those it
\* shares with.
MayEnd(p) == p # kPid1 /\ (Orderly => Done(p))

\* A store that faults: isr_common() retries it once space_cow_fault() has found
\* a frame, and otherwise the process dies.  The code kills it without asking; here
\* MayEnd is asked, as of every end: what Orderly rules out (the owner of an image
\* that dies before those it shares it with) is ruled out of this death too, and so
\* is the panic that follows when process 1 dies.
Fault(r) ==
  LET s == task[current].sp
      c == space_cow_fault(mem, s, r)
      moved == c.m[s].pt # mem[s].pt
  IN /\ Running
     /\ \E e \in Seen(r) : ~e.w
     /\ mem' = c.m
     /\ tlb' = [(IF moved THEN link_tables(s) ELSE tlb) EXCEPT ![r] = NoEntry]
     /\ IF c.ok THEN UNCHANGED task
        ELSE MayEnd(current) /\ task' = [task EXCEPT ![current].state = "dead"]
     /\ UNCHANGED <<current, cr3, forks>>

-----------------------------------------------------------------------------
(* Calls of the current process                                            *)

free_slot == {p \in Pids : task[p].state = "free" /\ \A q \in 1 .. p - 1 : task[q].state # "free"}

\* fork_user(): a space, the parent's pages shared into it, a kernel stack.
\* Without room for the stack the slot is cleared, and the space is lost.
Fork ==
  /\ Running
  /\ \E c \in free_slot :
       LET made == space_create(mem)
           own == task[current].sp
           shared == space_share_user(made.m, made.s, own)
           ks == kframe_alloc(shared.m)
       IN IF ~made.ok
          THEN mem' = made.m /\ UNCHANGED <<task, tlb>>
          ELSE IF ~shared.ok
          THEN mem' = space_destroy(shared.m, made.s) /\ UNCHANGED <<task, tlb>>
          ELSE IF ~Room(shared.m, 1)
          THEN mem' = shared.m /\ tlb' = link_tables(own) /\ UNCHANGED task
          ELSE /\ mem' = [shared.m EXCEPT ![ks] = Kstack]
               /\ tlb' = link_tables(own)
               /\ task' = [task EXCEPT ![c] =
                             [state |-> "live", sp |-> made.s, base |-> task[current].base,
                              owns |-> FALSE, kstack |-> ks, ppid |-> current]]
  /\ forks < MaxForks /\ forks' = forks + 1
  /\ UNCHANGED <<current, cr3>>

Party == IF task[current].owns THEN "owner" ELSE "sharer"

\* replace() as far as give_frames(): no room.  A new space is given back, the
\* part of one that space_create() left behind is not.
ExecNoRoom ==
  LET made == space_create(mem)
  IN /\ Running /\ current \in Execs
     /\ ~made.ok \/ ~Room(made.m, kRegions)
     /\ mem' = IF made.ok THEN space_destroy(made.m, made.s) ELSE made.m
     /\ UNCHANGED <<task, current, cr3, tlb, forks>>

\* load_into() fails.  replace() gives the new frames and the new space back and
\* puts the old ones in their place; owns_frames stays set.  From the first
\* space_switch() on, `here' is the new space, and the CPU is left in it.
ExecFails(at) ==
  LET made == space_create(mem)
  IN /\ Running
     /\ Party \in FailedBy /\ at \in FailedAt
     /\ made.ok /\ Room(made.m, kRegions)
     /\ mem' = space_destroy(made.m, made.s)
     /\ task' = [task EXCEPT ![current].owns = TRUE]
     /\ IF at = "load" THEN space_switch(made.s) ELSE UNCHANGED <<cr3, tlb>>
     /\ UNCHANGED <<current, forks>>

\* replace() all the way: into the new space, then the old one and the frames
\* that were the process's own go back.
Exec ==
  LET made == space_create(mem)
      b == give_frames(made.m)
      t == task[current]
  IN /\ Running /\ current \in Execs
     /\ made.ok /\ Room(made.m, kRegions)
     /\ Orderly => Done(current)
     /\ mem' = kfree(space_destroy(map_image(made.m, made.s, b), t.sp), Owned(t))
     /\ task' = [task EXCEPT ![current].sp = made.s, ![current].base = b,
                             ![current].owns = TRUE]
     /\ space_switch(made.s)
     /\ UNCHANGED <<current, forks>>

\* exit(): the slot is swept up at a later switch.  A process that another one
\* kills goes the same way, from reap() on, and is not modelled apart.
Exit ==
  /\ Running /\ MayEnd(current)
  /\ task' = [task EXCEPT ![current].state = "dead"]
  /\ UNCHANGED <<mem, current, cr3, tlb, forks>>

\* reap() without a switch: wait_for() before it looks for a note, and a preempt() that
\* finds nobody else to run.  Without a dead process it does nothing.
Sweep ==
  /\ \E p \in Pids \ {current} : task[p].state = "dead"
  /\ mem' = reap(mem)
  /\ task' = Reaped
  /\ UNCHANGED <<current, cr3, tlb, forks>>

\* preempt() and task_switch_now(): reap(), then switch_to() somebody else.
Switch(p) ==
  /\ p \in Live \ {current}
  /\ mem' = reap(mem)
  /\ task' = Reaped
  /\ current' = p
  /\ space_switch(task[p].sp)
  /\ UNCHANGED forks

Next ==
  \/ \E r \in Region : Load(r) \/ Fault(r)
  \/ \E r \in Region, v \in Val : Store(r, v)
  \/ Fork
  \/ ExecNoRoom
  \/ \E at \in {"open", "load"} : ExecFails(at)
  \/ Exec
  \/ Exit
  \/ Sweep
  \/ \E p \in Pids : Switch(p)

Spec == Init /\ [][Next]_vars

-----------------------------------------------------------------------------
(* Properties                                                              *)

\* Frames, tables, groups and processes have their types.  A group that is there has
\* somebody in it (space_destroy and space_share_user free it with the last one).
TypeOK ==
  /\ task \in [Pids -> Tasks] /\ current \in Pids /\ cr3 \in Frames /\ forks \in 0 .. MaxForks
  /\ tlb \in [Region -> Entries \cup {NoEntry}]
  /\ \A f \in Frames :
       /\ mem[f].use \in {"free", "data", "table", "group", "space", "kstack"}
       /\ mem[f].use = "group" => mem[f].pt \in Frames /\ mem[f].refs \in 1 .. kFrames
       /\ mem[f].use = "space" => mem[f].pt \in 0 .. kFrames /\ mem[f].cow \in 0 .. kFrames
       /\ mem[f].use = "table" => mem[f].ent \in [Region -> Entries \cup {NoEntry}]

Present == {p \in Pids : task[p].state # "free"}
EntryOf(p, r) == mem[mem[task[p].sp].pt].ent[r]

\* The frames of a process are there and nobody else can change them: what a page
\* table maps was not given back (by another process that owns the image, in
\* destroy() or replace()), and a page mapped for writing is mapped once.
Isolated ==
  \A p \in Present :
    /\ mem[task[p].sp].use = "space" /\ mem[mem[task[p].sp].pt].use = "table"
    /\ \A r \in Region :
         LET e == EntryOf(p, r)
         IN /\ e \in Entries /\ mem[e.frame].use = "data"
            /\ e.w => \A q \in Present : \A s \in Region :
                        EntryOf(q, s).frame = e.frame => q = p /\ s = r

\* A group of sharing spaces counts them, also the ones it lost in a fork that
\* found no room: its tables live as long as somebody may map them, no longer, and
\* what they hold are entries.
GroupCounted ==
  /\ TypeOK
  /\ \A g \in Frames : mem[g].use = "group" =>
       /\ mem[mem[g].pt].use = "table"
       /\ mem[g].refs = Cardinality({s \in Frames : mem[s].use = "space" /\ mem[s].cow = g})

\* The CPU is in the space of the current process, and what it has kept of its
\* tables is what they say: taking write access away (space_share_user) or moving
\* to other tables (unshare) reaches the TLB before the process goes on.
CpuFollows ==
  /\ cr3 = task[current].sp
  /\ Running => \A r \in Region : tlb[r] = NoEntry \/ tlb[r] = Walk(r)

\* What each process would read.
View ==
  [p \in Pids |-> IF task[p].state # "live" THEN Nobody
                  ELSE [r \in Region |-> mem[EntryOf(p, r).frame].val]]
M == INSTANCE Memory WITH Proc <- Pids, view <- View

\* Every process has memory of its own, as fork and exec promise: a step changes what
\* one process reads, and a child starts with what its parent had.
IsMemory == M!Spec
=============================================================================
