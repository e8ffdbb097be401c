-------------------------------- MODULE Tty ---------------------------------
(***************************************************************************)
(* The terminal: the keyboard's ring and who waits for it                  *)
(* (kernel/drivers/kbd.cpp), and the discipline and the devices that read  *)
(* from it (kernel/vfs.cpp), with on_tick, block, unblock and signal_task  *)
(* of kernel/task.cpp as far as they touch them.                           *)
(*                                                                         *)
(* A call enters the kernel with interrupts off, and goes on with          *)
(* interrupts on once it has slept.  A key may then come, and a tick may   *)
(* run the discipline, between any two of its steps; poll() is two steps   *)
(* then, for a tick between its reading a scancode and its moving g_tail   *)
(* polls the same ring.  These are one step all the same: the moving of    *)
(* g_tail with the decoding behind it, the serial line's test and read,    *)
(* tty_input() with its tty_put(), and a round of tty_take().  A tick      *)
(* inside one of them may lose a byte or give one twice, too; nothing is   *)
(* said here of such ticks.                                                *)
(*                                                                         *)
(* The rings are queues here (module PipeRing is about rings); of the      *)
(* keyboard's the slots behind it are kept too, as g_tail may come to pass *)
(* g_head.  What is echoed is not kept.  Every process catches the         *)
(* interrupt; one that does not is killed, which is in module Task.        *)
(***************************************************************************)
EXTENDS Integers, FiniteSets, FiniteSetsExt, Sequences, SequencesExt

CONSTANTS
  kProcs,    \* processes
  kBuf,      \* slots of the keyboard's ring, one of which stays empty
  kTtyBuf,   \* slots of g_tty.buf, the same
  kWaitMax,  \* slots of g_wait
  Scans,     \* bound: kinds of scancodes the keyboard sends
  Chars,     \* bound: kinds of bytes the serial line sends
  Lens,      \* bound: how much a read asks for
  Modes,     \* bound: the modes ioctl() sets, as sets of the three below
  Owners,    \* bound: who ioctl() makes the terminal's owner
  MaxTyped   \* bound: scancodes and serial bytes

ASSUME TtyAssumption ==
  /\ kProcs \in Nat \ {0} /\ kBuf \in Nat \ {0} /\ kTtyBuf \in Nat \ {0} /\ kWaitMax \in Nat
  /\ Lens \subseteq Nat \ {0} /\ MaxTyped \in Nat
  /\ Owners \subseteq 1 .. kProcs
  /\ Modes \subseteq SUBSET {"canon", "sig", "nonblock"}
  /\ Scans \subseteq {"e0", "release", "ctrl", "noctrl", "up", "bs", "enter", "a", "c"}
  /\ Chars \subseteq {"a", "nl", "cr", "del", "eot", "intr"}

Procs == 1 .. kProcs
Slots == 1 .. kWaitMax

VARIABLES
  kbd,        \* the ring of scancodes, the keys held, and what is left of a sequence
  line,       \* bytes in the UART
  g_tty,      \* the discipline: buffer, end of file, modes and owner
  g_wait,     \* processes waiting for a key
  g_tasks,    \* where each process is
  g_current,
  typed,      \* how much was typed: the name of the next scancode or byte
  seen,       \* auxiliary: names of the bytes processes have been given
  g_buf,      \* what the slots of the keyboard's ring hold, the oldest first
  half,       \* a poll() that is half done: its scancode, and where it is called
  torn        \* auxiliary: some poll() moved past a scancode it had not read

ring == <<g_buf, half, torn>>
vars == <<kbd, line, g_tty, g_wait, g_tasks, g_current, typed, seen, ring>>

Byte(k, id) == [k |-> k, id |-> id]
NoByte == Byte("none", 0)
Nul == Byte("nul", 0)

-----------------------------------------------------------------------------
(* From scancodes to bytes                                                 *)

\* poll(): what scancode s does with Ctrl and an 0xE0 in front of it, and the key
\* it makes.  Shift only chooses between two tables and is left out.
KeyOf(s, ctrl, ext) ==
  IF s \in {"e0", "release", "ctrl", "noctrl"} \/ (ext /\ s # "up") THEN "none"
  ELSE CASE ctrl /\ s = "bs" -> "del"
         [] ctrl /\ s = "c" -> "intr"
         [] s = "enter" -> "nl"
         [] OTHER -> s

poll(m, s) ==
  [ctrl |-> IF m.ext THEN m.ctrl ELSE (m.ctrl /\ s # "noctrl") \/ s = "ctrl",
   ext |-> s = "e0",
   key |-> KeyOf(s, m.ctrl, m.ext)]

\* poll_char(): the first byte there is.  A cursor key gives a sequence of three,
\* all of them 0: g_seq is never filled.
poll_char(k) ==
  LET m[n \in 0 .. Len(k.ring)] ==
        IF n = 0 THEN [ctrl |-> k.ctrl, ext |-> k.ext, key |-> "none"]
        ELSE poll(m[n - 1], k.ring[n].k)
      keys == {n \in DOMAIN k.ring : m[n].key # "none"}
      n == IF keys = {} THEN Len(k.ring) ELSE Min(keys)
      rest == [ring |-> SubSeq(k.ring, n + 1, Len(k.ring)), ctrl |-> m[n].ctrl,
               ext |-> m[n].ext, seq |-> 0]
  IN IF k.seq > 0 THEN [c |-> Nul, kbd |-> [k EXCEPT !.seq = @ - 1]]
     ELSE IF keys = {} THEN [c |-> NoByte, kbd |-> rest]
     ELSE IF m[n].key = "up" THEN [c |-> Nul, kbd |-> [rest EXCEPT !.seq = 2]]
     ELSE [c |-> Byte(m[n].key, k.ring[n].id), kbd |-> rest]

\* Mutant: the byte is read and stays in the UART.
TtyKeyPeeks(k, l) ==
  LET p == poll_char(k)
  IN [c |-> IF p.c # NoByte \/ l = <<>> THEN p.c ELSE Head(l), kbd |-> p.kbd, line |-> l]

\* tty_key(false): the keyboard first, then the serial line.
tty_key(k, l) ==
  LET p == poll_char(k)
  IN IF p.c # NoByte \/ l = <<>> THEN [c |-> p.c, kbd |-> p.kbd, line |-> l]
     ELSE [c |-> Head(l), kbd |-> p.kbd, line |-> Tail(l)]

-----------------------------------------------------------------------------
(* The discipline                                                          *)

Canon(t) == "canon" \in t.flags

\* Mutant: the slot that tells full from empty is used too.
TtyPutFull(t, c) == IF Len(t.buf) >= kTtyBuf THEN t ELSE [t EXCEPT !.buf = Append(@, c)]

tty_put(t, c) == IF Len(t.buf) + 1 >= kTtyBuf THEN t ELSE [t EXCEPT !.buf = Append(@, c)]
tty_drop(t) == [t EXCEPT !.buf = <<>>]

Interrupts(t, c) == c.k = "intr" /\ "sig" \in t.flags

tty_input(t, c) ==
  CASE Interrupts(t, c) -> tty_drop(t)
    [] c.k = "eot" /\ Canon(t) /\ t.buf = <<>> -> [t EXCEPT !.eof = TRUE]
    [] c.k = "del" /\ Canon(t) -> IF t.buf = <<>> THEN t ELSE [t EXCEPT !.buf = Front(@)]
    [] c.k = "cr" /\ Canon(t) -> tty_put(t, [c EXCEPT !.k = "nl"])
    [] OTHER -> tty_put(t, c)

\* Who a Ctrl-C is for.
IntrTo(t) == IF t.owner # 0 THEN t.owner ELSE g_current

\* unblock() of the processes in S: one that is not blocked keeps a note.
unblock(T, S) ==
  [p \in Procs |-> IF p \notin S THEN T[p]
                   ELSE IF T[p].state = "blocked" THEN [T[p] EXCEPT !.state = "ready"]
                   ELSE [T[p] EXCEPT !.wake_pending = TRUE]]

\* signal_task() with a handler: only a blocked process is woken.
signal_task(T, p) ==
  LET S == {q \in {p} : T[q].state = "blocked"}
  IN [unblock(T, S) EXCEPT ![p].sig_pending = TRUE]

\* Mutant: only the first slot is looked at.
WakeFirst(T) == unblock(T, {g_wait[1]} \ {0})

\* kbd::wake(): everybody in g_wait, and nobody is in it then.
wake(T) == unblock(T, Range(g_wait) \ {0})
Nobody == [i \in Slots |-> 0]

\* tty_drain() in one go, as a tick runs it: how far it is after n bytes.
Drained(k, l, t, T) ==
  LET most == 3 * Len(k.ring) + k.seq + Len(l)
      d[n \in 0 .. most] ==
        IF n = 0 THEN [kbd |-> k, line |-> l, tty |-> t, tasks |-> T, got |-> FALSE]
        ELSE LET x == d[n - 1]
                 r == tty_key(x.kbd, x.line)
             IN IF r.c = NoByte THEN [x EXCEPT !.kbd = r.kbd]
                ELSE [kbd |-> r.kbd, line |-> r.line, tty |-> tty_input(x.tty, r.c), got |-> TRUE,
                      tasks |-> IF Interrupts(x.tty, r.c) THEN signal_task(x.tasks, IntrTo(x.tty))
                                ELSE x.tasks]
  IN d[most]

-----------------------------------------------------------------------------
(* Interrupts                                                              *)

Me == g_tasks[g_current]
Idle == Me.state # "running"
Open == Idle \/ Me.pc = "user" \/ Me.on

\* irq_handler(): a scancode that finds the ring full is lost; the rest is woken.
Key(s) ==
  /\ Open /\ typed < MaxTyped
  /\ typed' = typed + 1
  /\ IF Len(kbd.ring) + 1 >= kBuf THEN UNCHANGED <<kbd, g_buf>>
     ELSE /\ kbd' = [kbd EXCEPT !.ring = Append(@, Byte(s, typed + 1))]
          /\ g_buf' = Append(Tail(g_buf), Byte(s, typed + 1))
  /\ g_tasks' = wake(g_tasks) /\ g_wait' = Nobody
  /\ UNCHANGED <<line, g_tty, g_current, seen, half, torn>>

\* The serial line raises no interrupt.
Receive(k) ==
  /\ typed < MaxTyped
  /\ typed' = typed + 1
  /\ line' = Append(line, Byte(k, typed + 1))
  /\ UNCHANGED <<kbd, g_tty, g_wait, g_tasks, g_current, seen, ring>>

\* on_tick(): who has a signal is woken, the discipline takes what there is, and a
\* byte that has come over the line since (`late') wakes the readers as well.
\* preempt() may then give the CPU to another process, if this one is in user mode.
Tick ==
  LET told == unblock(g_tasks, {p \in Procs : g_tasks[p].state = "blocked" /\ g_tasks[p].sig_pending})
  IN /\ Open
     /\ \E d \in {Drained(kbd, line, g_tty, told)},
           late \in {<<>>} \cup {<<Byte(k, typed + 1)>> : k \in Chars} :
          LET woken == d.got \/ late # <<>>
              T == IF woken THEN wake(d.tasks) ELSE d.tasks
          IN /\ typed + Len(late) <= MaxTyped /\ typed' = typed + Len(late)
             /\ kbd' = d.kbd /\ line' = d.line \o late /\ g_tty' = d.tty
             /\ g_wait' = IF woken THEN Nobody ELSE g_wait
             /\ \/ g_tasks' = T /\ UNCHANGED g_current
                \/ \E p \in Procs :
                     /\ ~Idle /\ Me.pc = "user" /\ T[p].state = "ready"
                     /\ g_tasks' = [T EXCEPT ![g_current].state = "ready", ![p].state = "running"]
                     /\ g_current' = p
     /\ UNCHANGED <<seen, ring>>

\* The idle loop finds somebody to run.
Dispatch(p) ==
  /\ Idle /\ g_tasks[p].state = "ready"
  /\ g_tasks' = [g_tasks EXCEPT ![p].state = "running"]
  /\ g_current' = p
  /\ UNCHANGED <<kbd, line, g_tty, g_wait, typed, seen, ring>>

-----------------------------------------------------------------------------
(* Calls                                                                   *)

\* `on': interrupts are on; `again': this is not the first sleep of the call.
User == [state |-> "ready", pc |-> "user", dev |-> "none", len |-> 0, got |-> <<>>,
         canon |-> FALSE, on |-> FALSE, again |-> FALSE, drained |-> FALSE, hand |-> NoByte,
         wake_pending |-> FALSE, sig_pending |-> FALSE]

At(pc) == ~Idle /\ Me.pc = pc
Goto(t) == g_tasks' = [g_tasks EXCEPT ![g_current] = t]

\* Back to user mode with some bytes; a signal is delivered on the way.
Return(bytes) ==
  /\ Goto([User EXCEPT !.state = "running", !.wake_pending = Me.wake_pending])
  /\ seen' = seen \cup {b.id : b \in Range(bytes)}

Read(dev, len) ==
  /\ At("user")
  /\ Goto([Me EXCEPT !.pc = IF dev = "tty" THEN "take" ELSE "poll", !.dev = dev, !.len = len,
                     !.canon = Canon(g_tty)])
  /\ UNCHANGED <<kbd, line, g_tty, g_wait, g_current, typed, seen, ring>>

\* What tty_take() takes: nothing while an end of file is waiting to be seen.
Taken(t, len) ==
  IF t.eof THEN <<>> ELSE SubSeq(t.buf, 1, IF Len(t.buf) < len THEN Len(t.buf) ELSE len)

\* One round of dev_tty_rd().  In canonical mode the read ends with the first
\* newline, and what was taken from behind it is gone.
Take ==
  LET b == Taken(g_tty, Me.len - Len(Me.got))
      got == Me.got \o b
      ends == {n \in DOMAIN got : got[n].k = "nl"}
      rest == [g_tty EXCEPT !.buf = SubSeq(@, Len(b) + 1, Len(@))]
  IN /\ At("take")
     /\ \/ /\ got # <<>> /\ ~Me.canon
           /\ Return(got) /\ g_tty' = rest
        \/ /\ ends # {} /\ Me.canon
           /\ Return(SubSeq(got, 1, Min(ends))) /\ g_tty' = rest
        \/ /\ ends = {} /\ Me.canon /\ Len(got) >= Me.len
           /\ Return(got) /\ g_tty' = rest
        \/ /\ got = <<>> \/ (Me.canon /\ ends = {} /\ Len(got) < Me.len)
           /\ \/ /\ g_tty.eof
                 /\ Return(got) /\ g_tty' = [rest EXCEPT !.eof = FALSE]
              \/ /\ ~g_tty.eof /\ "nonblock" \in g_tty.flags
                 /\ Return(got) /\ g_tty' = rest
              \/ /\ ~g_tty.eof /\ "nonblock" \notin g_tty.flags
                 /\ Goto([Me EXCEPT !.pc = "drain", !.got = got])
                 /\ g_tty' = rest /\ UNCHANGED seen
     /\ UNCHANGED <<kbd, line, g_wait, g_current, typed, ring>>

\* Mutant: an end of file is not looked for.
SomethingBuffered(t) == t.buf # <<>>

Something(t) == t.buf # <<>> \/ t.eof

\* poll() finds a scancode, and a tick may come before it has moved g_tail.
Interruptible == Me.on /\ kbd.ring # <<>> /\ (kbd.seq = 0 \/ Me.pc = "poll")

\* tty_drain() of the reader: a byte is in its hand between tty_key and tty_input.
\* When there are no more, dev_tty_rd() looks whether there is something to take.
DrainKey ==
  LET r == tty_key(kbd, line)
  IN /\ At("drain") /\ ~Interruptible
     /\ kbd' = r.kbd /\ line' = r.line
     /\ IF r.c # NoByte
        THEN Goto([Me EXCEPT !.pc = "input", !.hand = r.c]) /\ UNCHANGED g_wait
        ELSE /\ g_tasks' = [IF Me.drained THEN wake(g_tasks) ELSE g_tasks
                              EXCEPT ![g_current].pc = IF Something(g_tty) THEN "take" ELSE "key",
                                     ![g_current].drained = FALSE]
             /\ g_wait' = IF Me.drained THEN Nobody ELSE g_wait
     /\ UNCHANGED <<g_tty, g_current, typed, seen, ring>>

DrainInput ==
  LET T == IF Interrupts(g_tty, Me.hand) THEN signal_task(g_tasks, IntrTo(g_tty)) ELSE g_tasks
  IN /\ At("input")
     /\ g_tty' = tty_input(g_tty, Me.hand)
     /\ g_tasks' = [T EXCEPT ![g_current].pc = "drain", ![g_current].hand = NoByte,
                             ![g_current].drained = TRUE]
     /\ UNCHANGED <<kbd, line, g_wait, g_current, typed, seen, ring>>

\* tty_key(true): a byte that is there by now is thrown away.
KeyOrWait ==
  LET r == tty_key(kbd, line)
  IN /\ At("key") /\ ~Interruptible
     /\ kbd' = r.kbd /\ line' = r.line
     /\ Goto([Me EXCEPT !.pc = IF r.c # NoByte THEN "take" ELSE "wait"])
     /\ UNCHANGED <<g_tty, g_wait, g_current, typed, seen, ring>>

\* dev_kbd_rd(): a key, or wait for one.
PollKey ==
  LET m == poll([ctrl |-> kbd.ctrl, ext |-> kbd.ext], Head(kbd.ring).k)
  IN /\ At("poll") /\ ~Interruptible
     /\ \/ /\ kbd.ring = <<>>
           /\ Goto([Me EXCEPT !.pc = "wait"]) /\ UNCHANGED <<kbd, seen>>
        \/ /\ kbd.ring # <<>>
           /\ kbd' = [kbd EXCEPT !.ring = Tail(@), !.ctrl = m.ctrl, !.ext = m.ext]
           /\ IF m.key # "none" THEN Return(<<Byte(m.key, Head(kbd.ring).id)>>)
              ELSE Goto([Me EXCEPT !.pc = "wait"]) /\ UNCHANGED seen
     /\ UNCHANGED <<line, g_tty, g_wait, g_current, typed, ring>>

NoPoll == [sc |-> NoByte, at |-> "poll"]

\* poll() of a reader with interrupts on: first a scancode is read...
PollRead ==
  /\ ~Idle /\ Me.pc \in {"drain", "key", "poll"} /\ Interruptible
  /\ half' = [sc |-> Head(kbd.ring), at |-> Me.pc]
  /\ Goto([Me EXCEPT !.pc = "move"])
  /\ UNCHANGED <<kbd, line, g_tty, g_wait, g_current, typed, seen, g_buf, torn>>

\* ...and then g_tail is moved, wherever it is by now: if a tick has emptied the ring
\* it passes g_head, and all the other slots are full again.  What poll() made of
\* the scancode goes where its caller takes it, as in the three steps above.
PollMove ==
  LET m == poll([ctrl |-> kbd.ctrl, ext |-> kbd.ext], half.sc.k)
      c == IF m.key = "up" /\ half.at # "poll" THEN Nul ELSE Byte(m.key, half.sc.id)
  IN /\ At("move")
     /\ torn' = (torn \/ kbd.ring = <<>> \/ Head(kbd.ring) # half.sc)
     /\ kbd' = [ring |-> IF kbd.ring = <<>> THEN Tail(g_buf) ELSE Tail(kbd.ring),
                ctrl |-> m.ctrl, ext |-> m.ext, seq |-> IF c = Nul THEN 2 ELSE kbd.seq]
     /\ \/ /\ half.at = "poll" /\ m.key # "none"
           /\ Return(<<c>>)
        \/ /\ half.at # "poll" \/ m.key = "none"
           /\ Goto([Me EXCEPT !.pc = IF half.at # "poll" /\ m.key = "none" THEN half.at
                                     ELSE CASE half.at = "poll" -> "wait"
                                            [] half.at = "drain" -> "input"
                                            [] half.at = "key" -> "take",
                              !.hand = IF half.at = "drain" /\ m.key # "none" THEN c ELSE @])
           /\ UNCHANGED seen
     /\ half' = NoPoll
     /\ UNCHANGED <<line, g_tty, g_wait, g_current, typed, g_buf>>

\* kbd::wait(): a place in g_wait, if there is one, and only then a look at the ring.
FreeSlots == {i \in Slots : g_wait[i] = 0}
WaitClaim ==
  /\ At("wait")
  /\ g_wait' = IF FreeSlots = {} THEN g_wait ELSE [g_wait EXCEPT ![Min(FreeSlots)] = g_current]
  /\ Goto([Me EXCEPT !.pc = "look"])
  /\ UNCHANGED <<kbd, line, g_tty, g_current, typed, seen, ring>>

\* Mutant: everybody's place is given up.
UnclaimAll(pending) ==
  /\ g_wait' = Nobody
  /\ Goto([Me EXCEPT !.pc = IF Me.dev = "tty" THEN "take" ELSE "poll", !.wake_pending = pending])

\* Its end: out of g_wait, and back to the loop of the device.
Unclaim(pending) ==
  /\ g_wait' = [i \in Slots |-> IF g_wait[i] = g_current THEN 0 ELSE g_wait[i]]
  /\ Goto([Me EXCEPT !.pc = IF Me.dev = "tty" THEN "take" ELSE "poll", !.wake_pending = pending])

WaitLook ==
  /\ At("look")
  /\ IF kbd.ring = <<>> THEN Goto([Me EXCEPT !.pc = "block"]) /\ UNCHANGED g_wait
     ELSE Unclaim(Me.wake_pending)
  /\ UNCHANGED <<kbd, line, g_tty, g_current, typed, seen, ring>>

\* Mutant: a wake-up that came first is not looked for.
BlockAnyway ==
  /\ At("block")
  /\ Goto([Me EXCEPT !.state = "blocked", !.pc = "asleep", !.on = TRUE, !.again = Me.on])
  /\ UNCHANGED <<kbd, line, g_tty, g_wait, g_current, typed, seen, ring>>

\* block(): a wake-up that came first is used up; otherwise the process sleeps,
\* and finds interrupts on when it is back.
Block ==
  /\ At("block")
  /\ IF Me.wake_pending THEN Unclaim(FALSE)
     ELSE /\ Goto([Me EXCEPT !.state = "blocked", !.pc = "asleep", !.on = TRUE, !.again = Me.on])
          /\ UNCHANGED g_wait
  /\ UNCHANGED <<kbd, line, g_tty, g_current, typed, seen, ring>>

Awake ==
  /\ At("asleep")
  /\ Unclaim(FALSE)
  /\ UNCHANGED <<kbd, line, g_tty, g_current, typed, seen, ring>>

\* dev_console_rd() and dev_serial_rd() take what is there and never wait.
ReadConsole(len) ==
  LET b == Taken(g_tty, len)
  IN /\ At("user") /\ b # <<>>
     /\ g_tty' = [g_tty EXCEPT !.buf = SubSeq(@, Len(b) + 1, Len(@))]
     /\ Return(b)
     /\ UNCHANGED <<kbd, line, g_wait, g_current, typed, ring>>

ReadSerial ==
  /\ At("user") /\ line # <<>>
  /\ line' = Tail(line)
  /\ Return(<<Head(line)>>)
  /\ UNCHANGED <<kbd, g_tty, g_wait, g_current, typed, ring>>

\* ioctl(): new modes empty the buffer, but an end of file stays.
SetFlags(f) ==
  /\ At("user")
  /\ g_tty' = [tty_drop(g_tty) EXCEPT !.flags = f]
  /\ UNCHANGED <<kbd, line, g_wait, g_tasks, g_current, typed, seen, ring>>

SetOwner(p) ==
  /\ At("user")
  /\ g_tty' = [g_tty EXCEPT !.owner = p]
  /\ UNCHANGED <<kbd, line, g_wait, g_tasks, g_current, typed, seen, ring>>

-----------------------------------------------------------------------------

Init ==
  /\ kbd = [ring |-> <<>>, ctrl |-> FALSE, ext |-> FALSE, seq |-> 0]
  /\ line = <<>>
  /\ g_tty \in {[buf |-> <<>>, eof |-> FALSE, flags |-> f, owner |-> 0] : f \in Modes}
  /\ g_wait = Nobody
  /\ g_tasks = [p \in Procs |-> [User EXCEPT !.state = IF p = 1 THEN "running" ELSE "ready"]]
  /\ g_current = 1
  /\ typed = 0
  /\ seen = {}
  /\ g_buf = [n \in 1 .. kBuf |-> Byte("release", 0)]
  /\ half = NoPoll
  /\ torn = FALSE

Step ==
  \/ Take \/ DrainKey \/ DrainInput \/ KeyOrWait \/ PollKey
  \/ PollRead \/ PollMove
  \/ WaitClaim \/ WaitLook \/ Block \/ Awake

Next ==
  \/ Step \/ Tick
  \/ \E s \in Scans : Key(s)
  \/ \E k \in Chars : Receive(k)
  \/ \E p \in Procs : Dispatch(p)
  \/ \E p \in Owners : SetOwner(p)
  \/ \E len \in Lens : Read("tty", len) \/ ReadConsole(len)
  \/ Read("kbd", 1) \/ ReadSerial
  \/ \E f \in Modes : SetFlags(f)

Spec == Init /\ [][Next]_vars

\* The kernel goes on with a call, the idle loop with its search, and a timer
\* interrupt that finds interrupts off stays pending until they are on: strong
\* fairness of Tick, with what makes it change something written out.
Waiting == kbd.ring # <<>> \/ line # <<>>
FairSpec ==
  /\ Spec /\ WF_vars(Step)
  /\ \A p \in Procs : WF_vars(Dispatch(p))
  /\ []<>(Open /\ Waiting) => []<><<Tick>>_vars

-----------------------------------------------------------------------------
(* Properties                                                              *)

Pcs == {"user", "take", "drain", "input", "key", "poll", "move",
        "wait", "look", "block", "asleep"}

\* Processes, slots and modes have their types.  One slot of each ring stays free
\* (irq_handler, tty_put), one process runs, and no read returns more than was asked.
TypeOK ==
  /\ Len(kbd.ring) < kBuf /\ kbd.seq \in 0 .. 2
  /\ Len(g_tty.buf) < kTtyBuf /\ g_tty.flags \in Modes /\ g_tty.owner \in 0 .. kProcs
  /\ g_wait \in [Slots -> 0 .. kProcs] /\ g_current \in Procs
  /\ \A p \in Procs :
       /\ g_tasks[p].pc \in Pcs /\ g_tasks[p].state \in {"ready", "running", "blocked"}
       /\ g_tasks[p].state = "running" => p = g_current
       /\ g_tasks[p].pc # "user" => Len(g_tasks[p].got) <= g_tasks[p].len

\* Where bytes are on their way: rings, hands and half-done reads.
Places ==
  <<kbd.ring, line, g_tty.buf>> \o [p \in Procs |-> g_tasks[p].got]
    \o [p \in Procs |-> <<g_tasks[p].hand>>]

\* Until a poll() moves past a scancode it has not read, what is typed is read once
\* at most, whoever reads it and whatever a tick drains between two steps of a
\* reader: no byte is in two places, or in one after a process was given it
\* (tty_key, tty_input, tty_take and dev_tty_rd move bytes, and never copy one).
\* With a tick between kbd.cpp:119 and 120 the code does read a scancode twice, and
\* `torn' is true from there on.  Name 0 is that of no byte and of what a cursor key
\* gives.
ReadOnce ==
  ~torn =>
    \A i, j \in DOMAIN Places : \A m \in DOMAIN Places[i], n \in DOMAIN Places[j] :
      Places[i][m].id # 0 =>
        /\ Places[i][m].id \notin seen
        /\ Places[i][m].id = Places[j][n].id => i = j /\ m = n

\* Nobody sleeps over a key: between the look at the ring and the switch a key may
\* come, and irq_handler() then finds the process in g_wait (kbd::wait).
NoSleepOverKey ==
  \A p \in Procs : g_tasks[p].state = "blocked" => kbd.ring = <<>>

\* While there are slots for all, a process asleep is in g_wait, also after others
\* were woken by a signal and took themselves out of it.
NobodyForgotten ==
  kWaitMax >= kProcs =>
    \A p \in Procs : g_tasks[p].state = "blocked" => p \in Range(g_wait)

\* A reader that sleeps for the first time in a call does not sleep over bytes or
\* an end of file the discipline has ready, unless somebody is just draining and
\* will call wake().  (After the first sleep interrupts are on, and a tick between
\* tty_drain() and kbd::wait() breaks this.)
NoSleepOnInput ==
  \A p \in Procs :
    /\ g_tasks[p].state = "blocked" /\ g_tasks[p].dev = "tty" /\ ~g_tasks[p].again
    /\ \A q \in Procs : g_tasks[q].pc \notin {"drain", "input"}
    => g_tty.buf = <<>> /\ ~g_tty.eof

\* The serial line has no interrupt: when everybody sleeps, a byte on it still gets
\* every one of them up, by a tick that drains it and wakes (on_tick, tty_drain).
SerialWakes ==
  \A p \in Procs :
    (line # <<>> /\ \A q \in Procs : g_tasks[q].state = "blocked")
      ~> g_tasks[p].state # "blocked"
=============================================================================
