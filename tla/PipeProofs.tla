----------------------------- MODULE PipeProofs -----------------------------
(***************************************************************************)
(* Theorems about Pipe, for any number of processes, descriptors and pipes *)
(* of any size; and about PipeRing, for every size of the ring and every   *)
(* length of a read or write: its counters agree, and it is a queue.       *)
(***************************************************************************)
EXTENDS Pipe, PipeRing, FiniteSetTheorems, SequenceTheorems, TLAPS

Tables == [Pids -> Tasks]
Bufs == [Pipes -> PipeBufs]

-----------------------------------------------------------------------------
(* What the operators of the model do to each process and each pipe        *)

\* The least of some natural numbers is one of them.
LEMMA MinIn ==
  ASSUME NEW S, S \subseteq Nat, S # {}
  PROVE  Min(S) \in S /\ \A y \in S : Min(S) <= y
<1>1. IsWellFoundedOn(OpToRel(<, Nat), Nat)
  BY NatLessThanWellFounded
<1>2. PICK m \in S : \A y \in S : ~(<<y, m>> \in OpToRel(<, Nat))
  BY <1>1, WFMin
<1>3. \A y \in S : m <= y
  <2> SUFFICES ASSUME NEW y \in S, ~(m <= y) PROVE FALSE
    OBVIOUS
  <2>1. <<y, m>> \in OpToRel(<, Nat)
    BY DEF OpToRel
  <2> QED
    BY <1>2, <2>1
<1> QED
  BY <1>3 DEF Min

\* A slot given back and a pipe not in use are well typed.
LEMMA FreeType == Free \in Tasks /\ Shut \in PipeBufs
<1>1. 0 \in 0 .. kMaxPipe /\ 0 \in 0 .. MaxLen /\ 0 \in 0 .. kPipeBytes /\ 0 \in 0 .. kMaxTask
  BY PipeAssumption
<1> QED
  BY <1>1 DEF Free, Shut, Tasks, PipeBufs, States

\* u is t but for its state; who is woken was blocked.
Woken(t, u) ==
  /\ u.pc = t.pc /\ u.on = t.on /\ u.len = t.len
  /\ \/ u.state = t.state
     \/ t.state = "blocked" /\ u.state = "ready"

\* unblock() of a set of processes.
LEMMA WakeEach ==
  ASSUME NEW T \in Tables, NEW S
  PROVE  /\ Wake(T, S) \in Tables
         /\ \A p \in Pids : LET u == Wake(T, S)[p]
                            IN  /\ Woken(T[p], u) /\ u.fd = T[p].fd
                                /\ p \in S => u.state # "blocked"
<1>1. ASSUME NEW p \in Pids
      PROVE  LET u == Wake(T, S)[p]
             IN  /\ Woken(T[p], u) /\ u.fd = T[p].fd /\ u \in Tasks
                 /\ p \in S => u.state # "blocked"
  <2>1. T[p] \in Tasks
    BY DEF Tables
  <2> DEFINE r == [T[p] EXCEPT !.state = "ready"]
  <2>2. /\ r \in Tasks /\ r.pc = T[p].pc /\ r.on = T[p].on /\ r.len = T[p].len
        /\ r.fd = T[p].fd /\ r.state = "ready"
    BY <2>1 DEF Tasks, States
  <2>3. Wake(T, S)[p] = IF p \in S /\ T[p].state = "blocked" THEN r ELSE T[p]
    BY DEF Wake
  <2> HIDE DEF r
  <2> QED
    BY <2>1, <2>2, <2>3 DEF Woken
<1>2. Wake(T, S) \in Tables
  BY <1>1 DEF Wake, Tables
<1> QED
  BY <1>1, <1>2

\* close_in() of a set of descriptors.
LEMMA CloseEach ==
  ASSUME NEW T \in Tables, NEW P \in Bufs, NEW L
  PROVE  /\ close_in(T, P, L) \in Tables
         /\ \A p \in Pids :
              LET u == close_in(T, P, L)[p]
              IN  /\ Woken(T[p], u)
                  /\ p \in UnshareWakes(T, P, L) => u.state # "blocked"
                  /\ \A f \in Fds : u.fd[f] = IF <<p, f>> \in L THEN Closed ELSE T[p].fd[f]
<1> DEFINE bare(p) == [T[p] EXCEPT !.fd = [f \in Fds |-> IF <<p, f>> \in L THEN Closed ELSE @[f]]]
           B == [p \in Pids |-> bare(p)]
<1>1. ASSUME NEW p \in Pids
      PROVE  /\ bare(p) \in Tasks
             /\ bare(p).pc = T[p].pc /\ bare(p).on = T[p].on /\ bare(p).len = T[p].len
             /\ bare(p).state = T[p].state
             /\ \A f \in Fds : bare(p).fd[f] = IF <<p, f>> \in L THEN Closed ELSE T[p].fd[f]
  <2>1. T[p] \in Tasks
    BY DEF Tables
  <2> DEFINE g == [f \in Fds |-> IF <<p, f>> \in L THEN Closed ELSE T[p].fd[f]]
  <2>2. g \in [Fds -> Ends \cup {Closed}]
    BY <2>1 DEF Tasks
  <2>3. bare(p) = [T[p] EXCEPT !.fd = g]
    OBVIOUS
  <2>4. \A f \in Fds : g[f] = IF <<p, f>> \in L THEN Closed ELSE T[p].fd[f]
    OBVIOUS
  <2> HIDE DEF g, bare
  <2> QED
    BY <2>1, <2>2, <2>3, <2>4 DEF Tasks
<1> HIDE DEF bare
<1>2. B \in Tables /\ \A p \in Pids : B[p] = bare(p)
  BY <1>1 DEF Tables
<1>3. close_in(T, P, L) = Wake(B, UnshareWakes(T, P, L))
  BY DEF close_in, bare
<1> HIDE DEF B
<1>4. ASSUME NEW p \in Pids
      PROVE  LET u == close_in(T, P, L)[p]
             IN  /\ Woken(T[p], u)
                 /\ p \in UnshareWakes(T, P, L) => u.state # "blocked"
                 /\ \A f \in Fds : u.fd[f] = IF <<p, f>> \in L THEN Closed ELSE T[p].fd[f]
  BY <1>1, <1>2, <1>3, WakeEach DEF Woken
<1> QED
  BY <1>2, <1>3, <1>4, WakeEach

\* How many are left is a number, and no more than there were.
LEMMA LeftType ==
  ASSUME NEW count \in Nat, NEW gone, IsFiniteSet(gone)
  PROVE  Left(count, gone) \in Nat /\ Left(count, gone) <= count
<1>1. Cardinality(gone) \in Nat
  BY FS_CardinalityType
<1> QED
  BY <1>1 DEF Left

\* Sets of descriptors are finite.
LEMMA DescriptorsFinite == IsFiniteSet(Pids \X Fds)
<1>1. IsFiniteSet(Pids) /\ IsFiniteSet(Fds)
  BY FS_Interval, PipeAssumption DEF Pids, Fds
<1> QED
  BY <1>1, FS_Product

\* So are those of them that are one end of a pipe.
LEMMA AmongFinite ==
  ASSUME NEW T, NEW i, NEW w, NEW L, L \subseteq Pids \X Fds
  PROVE  IsFiniteSet(Among(L, T, i, w)) /\ Cardinality(Among(L, T, i, w)) \in Nat
<1>1. Among(L, T, i, w) \in SUBSET (Pids \X Fds)
  BY DEF Among
<1> QED
  BY <1>1, DescriptorsFinite, FS_Subset, FS_CardinalityType

\* fd_unshare() of a set of descriptors.
LEMMA UnshareEach ==
  ASSUME NEW T \in Tables, NEW P \in Bufs, NEW L, L \subseteq Pids \X Fds
  PROVE  /\ fd_unshare(T, P, L) \in Bufs
         /\ \A i \in Pipes :
              LET b == fd_unshare(T, P, L)[i]
              IN  /\ b.n = P[i].n
                  /\ b.readers = Left(P[i].readers, Among(L, T, i, FALSE))
                  /\ b.writers = Left(P[i].writers, Among(L, T, i, TRUE))
                  /\ b.rd_wait = IF LastOut(L, T, P, i, TRUE) THEN 0 ELSE P[i].rd_wait
                  /\ b.wr_wait = IF LastOut(L, T, P, i, FALSE) THEN 0 ELSE P[i].wr_wait
                  /\ b.open = (P[i].open /\ (b.readers > 0 \/ b.writers > 0))
<1>1. ASSUME NEW i \in Pipes
      PROVE  LET b == fd_unshare(T, P, L)[i]
             IN  /\ b \in PipeBufs /\ b.n = P[i].n
                 /\ b.readers = Left(P[i].readers, Among(L, T, i, FALSE))
                 /\ b.writers = Left(P[i].writers, Among(L, T, i, TRUE))
                 /\ b.rd_wait = IF LastOut(L, T, P, i, TRUE) THEN 0 ELSE P[i].rd_wait
                 /\ b.wr_wait = IF LastOut(L, T, P, i, FALSE) THEN 0 ELSE P[i].wr_wait
                 /\ b.open = (P[i].open /\ (b.readers > 0 \/ b.writers > 0))
  <2> DEFINE r == Left(P[i].readers, Among(L, T, i, FALSE))
             w == Left(P[i].writers, Among(L, T, i, TRUE))
             rw == IF LastOut(L, T, P, i, TRUE) THEN 0 ELSE P[i].rd_wait
             ww == IF LastOut(L, T, P, i, FALSE) THEN 0 ELSE P[i].wr_wait
             b == [P[i] EXCEPT !.readers = r, !.writers = w, !.rd_wait = rw, !.wr_wait = ww,
                               !.open = @ /\ (r > 0 \/ w > 0)]
  <2>1. P[i] \in PipeBufs
    BY DEF Bufs
  <2>2. r \in Nat /\ w \in Nat
    <3>1. IsFiniteSet(Among(L, T, i, FALSE)) /\ IsFiniteSet(Among(L, T, i, TRUE))
      BY AmongFinite
    <3>2. P[i].readers \in Nat /\ P[i].writers \in Nat
      BY <2>1 DEF PipeBufs
    <3> QED
      BY <3>1, <3>2, LeftType
  <2>3. rw \in 0 .. kMaxTask /\ ww \in 0 .. kMaxTask
    <3>1. 0 \in 0 .. kMaxTask
      BY PipeAssumption
    <3>2. P[i].rd_wait \in 0 .. kMaxTask /\ P[i].wr_wait \in 0 .. kMaxTask
      BY <2>1 DEF PipeBufs
    <3> QED
      BY <3>1, <3>2, Zenon
  <2>4. fd_unshare(T, P, L)[i] = b
    BY DEF fd_unshare
  <2> HIDE DEF r, w, rw, ww
  <2>5. /\ b \in PipeBufs /\ b.n = P[i].n /\ b.readers = r /\ b.writers = w
        /\ b.rd_wait = rw /\ b.wr_wait = ww /\ b.open = (P[i].open /\ (r > 0 \/ w > 0))
    BY <2>1, <2>2, <2>3 DEF PipeBufs
  <2> HIDE DEF b
  <2> QED
    BY <2>4, <2>5 DEF r, w, rw, ww
<1>2. fd_unshare(T, P, L) \in Bufs
  BY <1>1 DEF fd_unshare, Bufs
<1> QED
  BY <1>1, <1>2

\* fd_share() of a set of descriptors.
LEMMA ShareEach ==
  ASSUME NEW T \in Tables, NEW P \in Bufs, NEW L, L \subseteq Pids \X Fds
  PROVE  /\ fd_share(T, P, L) \in Bufs
         /\ \A i \in Pipes :
              LET b == fd_share(T, P, L)[i]
              IN  /\ b.n = P[i].n /\ b.open = P[i].open
                  /\ b.rd_wait = P[i].rd_wait /\ b.wr_wait = P[i].wr_wait
                  /\ b.readers = P[i].readers + Cardinality(Among(L, T, i, FALSE))
                  /\ b.writers = P[i].writers + Cardinality(Among(L, T, i, TRUE))
<1>1. ASSUME NEW i \in Pipes
      PROVE  LET b == fd_share(T, P, L)[i]
             IN  /\ b \in PipeBufs /\ b.n = P[i].n /\ b.open = P[i].open
                 /\ b.rd_wait = P[i].rd_wait /\ b.wr_wait = P[i].wr_wait
                 /\ b.readers = P[i].readers + Cardinality(Among(L, T, i, FALSE))
                 /\ b.writers = P[i].writers + Cardinality(Among(L, T, i, TRUE))
  <2>1. P[i] \in PipeBufs
    BY DEF Bufs
  <2> DEFINE rs == Cardinality(Among(L, T, i, FALSE))
             ws == Cardinality(Among(L, T, i, TRUE))
             r == P[i].readers + rs
             w == P[i].writers + ws
             b == [P[i] EXCEPT !.readers = r, !.writers = w]
  <2>2. r \in Nat /\ w \in Nat
    <3>1. P[i].readers \in Nat /\ P[i].writers \in Nat
      BY <2>1 DEF PipeBufs
    <3>2. rs \in Nat /\ ws \in Nat
      BY AmongFinite
    <3> HIDE DEF rs, ws
    <3> QED
      BY <3>1, <3>2
  <2>3. fd_share(T, P, L)[i] = b
    BY DEF fd_share
  <2> HIDE DEF r, w
  <2>4. /\ b \in PipeBufs /\ b.n = P[i].n /\ b.open = P[i].open
        /\ b.rd_wait = P[i].rd_wait /\ b.wr_wait = P[i].wr_wait
        /\ b.readers = r /\ b.writers = w
    BY <2>1, <2>2 DEF PipeBufs
  <2> HIDE DEF b
  <2> QED
    BY <2>3, <2>4 DEF r, w
<1>2. fd_share(T, P, L) \in Bufs
  BY <1>1 DEF fd_share, Bufs
<1> QED
  BY <1>1, <1>2

\* Whom reap() closes the descriptors of.
Killed(T) == {p \in Pids \ {kPid1} : T[p].state = "killed"}

\* Zombies, and slots that are free, hold nothing.
Clean(T) ==
  \A p \in Pids : T[p].state \in {"free", "zombie"} => \A f \in Fds : T[p].fd[f] = Closed

\* reap(), with exit() having closed what zombies held.
LEMMA ReapEach ==
  ASSUME NEW T \in Tables, NEW P \in Bufs, Clean(T)
  PROVE  /\ reap(T, P) \in Tables
         /\ ReapPipes(T, P) = fd_unshare(T, P, Held(Killed(T)))
         /\ Held(Killed(T)) \subseteq Pids \X Fds
         /\ \A p \in Pids :
              LET u == reap(T, P)[p]
              IN  /\ \/ u = Free /\ T[p].state \in Dead
                     \/ /\ Woken(T[p], u)
                        /\ p \in UnshareWakes(T, P, Held(Killed(T))) => u.state # "blocked"
                  /\ \A f \in Fds :
                       u.fd[f] = IF <<p, f>> \in Held(Killed(T)) THEN Closed ELSE T[p].fd[f]
<1> DEFINE L == Held(Killed(T))
           C == close_in(T, P, L)
           swept(p) == T[p].state \in Dead /\ p \notin {kPid1, g_current}
<1>1. /\ reap(T, P) = [p \in Pids |-> IF swept(p) THEN Free ELSE C[p]]
      /\ ReapPipes(T, P) = fd_unshare(T, P, L)
  BY DEF reap, ReapPipes, Killed
<1>2. L \subseteq Pids \X Fds
  BY DEF Held, Killed
<1>3. /\ C \in Tables
      /\ \A p \in Pids :
           /\ Woken(T[p], C[p]) /\ C[p] \in Tasks
           /\ p \in UnshareWakes(T, P, L) => C[p].state # "blocked"
           /\ \A f \in Fds : C[p].fd[f] = IF <<p, f>> \in L THEN Closed ELSE T[p].fd[f]
  BY CloseEach DEF Tables
<1>4. \A p \in Pids : swept(p) /\ T[p].state # "zombie" =>
                         \A f \in Fds : <<p, f>> \in L
  BY DEF Held, Killed, Dead
<1>5. \A f \in Fds : Free.fd[f] = Closed
  BY DEF Free
<1>6. reap(T, P) \in Tables
  BY <1>1, <1>3, FreeType DEF Tables
<1> HIDE DEF C, L
<1>7. ASSUME NEW p \in Pids, swept(p)
      PROVE  /\ reap(T, P)[p] = Free
             /\ \A f \in Fds : Free.fd[f] = IF <<p, f>> \in L THEN Closed ELSE T[p].fd[f]
  BY <1>1, <1>4, <1>5, <1>7 DEF Clean
<1>8. ASSUME NEW p \in Pids, ~swept(p)
      PROVE  reap(T, P)[p] = C[p]
  BY <1>1, <1>8
<1>9. \A p \in Pids : swept(p) => T[p].state \in Dead
  OBVIOUS
<1> HIDE DEF swept
<1> QED
  BY <1>1, <1>2, <1>3, <1>6, <1>7, <1>8, <1>9 DEF L

\* task_switch_now().
LEMMA SwitchEach ==
  ASSUME NEW T \in Tables, NEW P \in Bufs, g_current \in Pids, Clean(T), Switch(T, P)
  PROVE  /\ g_tasks' \in Tables /\ g_current' \in Pids /\ g_pipes' = ReapPipes(T, P)
         /\ \A p \in Pids :
              LET u == g_tasks'[p]
                  r == reap(T, P)[p]
              IN  /\ u.fd = r.fd /\ u.pc = r.pc /\ u.on = r.on /\ u.len = r.len
                  /\ \/ u.state = r.state
                     \/ u.state \in {"ready", "running"} /\ r.state \in {"ready", "running"}
<1> DEFINE R == reap(T, P)
<1>1. R \in Tables /\ \A p \in Pids : R[p] \in Tasks
  BY ReapEach DEF Tables
<1>2. \/ g_tasks' = R /\ g_current' = g_current
      \/ \E to \in Pids :
           /\ R[to].state = "ready" /\ g_current' = to
           /\ g_tasks' = [R EXCEPT ![g_current].state = IF @ = "running" THEN "ready" ELSE @,
                                   ![to].state = "running"]
  BY DEF Switch, Picks
<1>3. g_pipes' = ReapPipes(T, P)
  BY DEF Switch
<1> HIDE DEF R
<1>4. CASE g_tasks' = R /\ g_current' = g_current
  BY <1>1, <1>3, <1>4 DEF R
<1>5. ASSUME NEW to \in Pids, R[to].state = "ready", g_current' = to,
             g_tasks' = [R EXCEPT ![g_current].state = IF @ = "running" THEN "ready" ELSE @,
                                  ![to].state = "running"]
      PROVE  /\ g_tasks' \in Tables
             /\ \A p \in Pids :
                  LET u == g_tasks'[p]
                      r == R[p]
                  IN  /\ u.fd = r.fd /\ u.pc = r.pc /\ u.on = r.on /\ u.len = r.len
                      /\ \/ u.state = r.state
                         \/ u.state \in {"ready", "running"} /\ r.state \in {"ready", "running"}
  <2> DEFINE s == IF R[g_current].state = "running" THEN "ready" ELSE R[g_current].state
             V == [R EXCEPT ![g_current].state = s]
  <2>1. /\ V \in Tables /\ \A p \in Pids : V[p] \in Tasks
        /\ \A p \in Pids :
             /\ V[p].fd = R[p].fd /\ V[p].pc = R[p].pc /\ V[p].on = R[p].on /\ V[p].len = R[p].len
             /\ \/ V[p].state = R[p].state
                \/ V[p].state \in {"ready", "running"} /\ R[p].state \in {"ready", "running"}
    <3>1. s \in States
      BY <1>1 DEF Tasks, States
    <3> HIDE DEF s
    <3>2. [R[g_current] EXCEPT !.state = s] \in Tasks
      BY <1>1, <3>1 DEF Tasks
    <3>3. V = [R EXCEPT ![g_current] = [R[g_current] EXCEPT !.state = s]]
      BY <1>1 DEF Tables
    <3>4. \/ s = R[g_current].state
          \/ s \in {"ready", "running"} /\ R[g_current].state \in {"ready", "running"}
      BY DEF s
    <3> QED
      BY <1>1, <3>2, <3>3, <3>4 DEF Tables, Tasks
  <2>2. g_tasks' = [V EXCEPT ![to].state = "running"]
    BY <1>5
  <2> HIDE DEF V, s
  <2> DEFINE v == [V[to] EXCEPT !.state = "running"]
  <2>3. /\ v \in Tasks /\ v.fd = V[to].fd /\ v.pc = V[to].pc /\ v.on = V[to].on
        /\ v.len = V[to].len /\ v.state = "running"
    BY <2>1 DEF Tasks, States
  <2>4. g_tasks' = [V EXCEPT ![to] = v]
    BY <2>1, <2>2 DEF Tables
  <2> HIDE DEF v
  <2>5. /\ g_tasks' \in Tables /\ g_tasks'[to] = v
        /\ \A p \in Pids : p # to => g_tasks'[p] = V[p]
    BY <2>1, <2>3, <2>4 DEF Tables
  <2>6. ASSUME NEW p \in Pids
        PROVE  LET u == g_tasks'[p]
               IN  /\ u.fd = V[p].fd /\ u.pc = V[p].pc /\ u.on = V[p].on /\ u.len = V[p].len
                   /\ u.state = V[p].state \/ (p = to /\ u.state = "running")
    BY <2>3, <2>5
  <2>7. V[to].state \in {"ready", "running"}
    BY <1>5, <2>1
  <2>8. ASSUME NEW p \in Pids
        PROVE  /\ g_tasks'[p].fd = R[p].fd /\ g_tasks'[p].pc = R[p].pc
               /\ g_tasks'[p].on = R[p].on /\ g_tasks'[p].len = R[p].len
    BY <2>1, <2>6
  <2>9. ASSUME NEW p \in Pids
        PROVE  \/ g_tasks'[p].state = R[p].state
               \/ /\ g_tasks'[p].state \in {"ready", "running"}
                  /\ R[p].state \in {"ready", "running"}
    <3>1. CASE p = to
      BY <1>5, <2>6, <2>7, <3>1
    <3>2. CASE p # to
      BY <2>1, <2>6, <3>2
    <3> QED
      BY <3>1, <3>2
  <2> QED
    BY <2>5, <2>8, <2>9
<1> QED
  BY <1>2, <1>3, <1>4, <1>5 DEF R

\* The way back to user mode.
LEMMA ReturnEach ==
  ASSUME NEW T \in Tables, NEW P, g_current \in Pids, Return(T, P)
  PROVE  /\ g_tasks' \in Tables /\ g_current' = g_current /\ g_pipes' = P
         /\ \A p \in Pids : p # g_current => g_tasks'[p] = T[p]
         /\ g_tasks'[g_current].fd = T[g_current].fd
         /\ g_tasks'[g_current].state = T[g_current].state
         /\ g_tasks'[g_current].pc = "user"
<1> DEFINE t == [T[g_current] EXCEPT !.pc = "user", !.on = 0, !.len = 0]
<1>1. T[g_current] \in Tasks /\ 0 \in 0 .. kMaxPipe /\ 0 \in 0 .. MaxLen
  BY PipeAssumption DEF Tables
<1>2. t \in Tasks /\ t.fd = T[g_current].fd /\ t.state = T[g_current].state /\ t.pc = "user"
  BY <1>1 DEF Tasks
<1>3. g_tasks' = [T EXCEPT ![g_current] = t] /\ g_current' = g_current /\ g_pipes' = P
  BY DEF Return, Tables
<1> HIDE DEF t
<1> QED
  BY <1>2, <1>3 DEF Tables

-----------------------------------------------------------------------------
(* The tables are well formed and the ends of every pipe are counted.      *)
(* EndsCounted is not inductive: reap() gives a zombie's slot back without *)
(* closing anything, and a fork overwrites a free one, so the invariant    *)
(* adds that neither holds an end (Clean).                                 *)

\* Who is in a read or a write is in one of a pipe.
Lodged(T) == \A p \in Pids : T[p].pc # "user" => T[p].on \in Pipes

\* EndsCounted, of any two tables.
Counted(T, P) ==
  \A i \in Pipes :
    Holders(T, i, FALSE) \cup Holders(T, i, TRUE) # {} =>
      /\ P[i].open
      /\ P[i].readers = Cardinality(Holders(T, i, FALSE))
      /\ P[i].writers = Cardinality(Holders(T, i, TRUE))

Well(T, P) == T \in Tables /\ P \in Bufs /\ Lodged(T) /\ Clean(T) /\ Counted(T, P)

SameFds(T, U) == \A p \in Pids : \A f \in Fds : U[p].fd[f] = T[p].fd[f]
SameCounts(P, Q) ==
  \A i \in Pipes : /\ Q[i].open = P[i].open
                   /\ Q[i].readers = P[i].readers /\ Q[i].writers = P[i].writers

\* With the same descriptors and the same counts the ends stay counted.
LEMMA CountedSame ==
  ASSUME NEW T, NEW U, NEW P, NEW Q, Counted(T, P), SameFds(T, U), SameCounts(P, Q)
  PROVE  Counted(U, Q)
<1>1. ASSUME NEW i, NEW w PROVE Holders(U, i, w) = Holders(T, i, w)
  BY DEF Holders, Among, SameFds
<1> QED
  BY <1>1 DEF Counted, SameCounts

\* No end of a pipe is the closed descriptor.
LEMMA EndNotClosed ==
  ASSUME NEW i \in Pipes, NEW w
  PROVE  [pipe |-> i, write |-> w] # Closed
<1>1. i # 0
  BY DEF Pipes
<1>2. [pipe |-> i, write |-> w].pipe = i /\ Closed.pipe = 0
  BY DEF Closed
<1> QED
  BY <1>1, <1>2

\* The counts go down with the descriptors.
LEMMA UnshareCounted ==
  ASSUME NEW T \in Tables, NEW P \in Bufs, NEW U, NEW L, L \subseteq Pids \X Fds,
         \A p \in Pids : \A f \in Fds :
           U[p].fd[f] = IF <<p, f>> \in L THEN Closed ELSE T[p].fd[f],
         Counted(T, P)
  PROVE  Counted(U, fd_unshare(T, P, L))
<1> DEFINE Q == fd_unshare(T, P, L)
<1>1. ASSUME NEW i \in Pipes, NEW w
      PROVE  /\ Holders(U, i, w) = Holders(T, i, w) \ L
             /\ Among(L, T, i, w) = Holders(T, i, w) \cap L
  <2>1. \A p \in Pids, f \in Fds :
          <<p, f>> \in Holders(U, i, w) <=> <<p, f>> \in Holders(T, i, w) /\ <<p, f>> \notin L
    BY EndNotClosed DEF Holders, Among
  <2>2. Holders(U, i, w) \subseteq Pids \X Fds /\ Holders(T, i, w) \subseteq Pids \X Fds
    BY DEF Holders, Among
  <2>3. Holders(U, i, w) = Holders(T, i, w) \ L
    BY <2>1, <2>2
  <2>4. Among(L, T, i, w) = Holders(T, i, w) \cap L
    BY DEF Holders, Among
  <2> QED
    BY <2>3, <2>4
<1>2. ASSUME NEW i \in Pipes, NEW w, NEW count \in Nat,
             count = Cardinality(Holders(T, i, w))
      PROVE  Left(count, Among(L, T, i, w)) = Cardinality(Holders(U, i, w))
  <2> DEFINE H == Holders(T, i, w)
  <2>1. IsFiniteSet(H)
    BY AmongFinite DEF Holders
  <2>2. /\ IsFiniteSet(H \ L) /\ Cardinality(H \ L) = Cardinality(H) - Cardinality(H \cap L)
    BY <2>1, FS_Difference
  <2>3. Cardinality(H \ L) \in Nat /\ Cardinality(H \cap L) \in Nat
    BY <2>1, <2>2, FS_CardinalityType, FS_Intersection
  <2> DEFINE g == Cardinality(H \cap L)
             l == Cardinality(H \ L)
  <2>4. l \in Nat /\ g \in Nat /\ l = count - g
    BY <1>2, <2>2, <2>3
  <2>5. Left(count, Among(L, T, i, w)) = IF g < count THEN count - g ELSE 0
    BY <1>1 DEF Left
  <2> HIDE DEF g, l, H
  <2>6. (IF g < count THEN count - g ELSE 0) = l
    BY <2>4
  <2> QED
    BY <1>1, <2>5, <2>6 DEF l, H
<1> SUFFICES ASSUME NEW i \in Pipes, Holders(U, i, FALSE) \cup Holders(U, i, TRUE) # {}
             PROVE  /\ Q[i].open
                    /\ Q[i].readers = Cardinality(Holders(U, i, FALSE))
                    /\ Q[i].writers = Cardinality(Holders(U, i, TRUE))
  BY DEF Counted
<1>3. Holders(T, i, FALSE) \cup Holders(T, i, TRUE) # {}
  BY <1>1
<1>4. /\ P[i].open /\ P[i].readers \in Nat /\ P[i].writers \in Nat
      /\ P[i].readers = Cardinality(Holders(T, i, FALSE))
      /\ P[i].writers = Cardinality(Holders(T, i, TRUE))
  BY <1>3 DEF Counted, Bufs, PipeBufs
<1>5. /\ Q[i].readers = Left(P[i].readers, Among(L, T, i, FALSE))
      /\ Q[i].writers = Left(P[i].writers, Among(L, T, i, TRUE))
      /\ P[i].open /\ (Q[i].readers > 0 \/ Q[i].writers > 0) => Q[i].open
  <2>1. /\ Q[i].readers = Left(P[i].readers, Among(L, T, i, FALSE))
        /\ Q[i].writers = Left(P[i].writers, Among(L, T, i, TRUE))
    BY UnshareEach
  <2>2. P[i].open /\ (Q[i].readers > 0 \/ Q[i].writers > 0) => Q[i].open
    BY UnshareEach
  <2> QED
    BY <2>1, <2>2
<1> HIDE DEF Q
<1>6. /\ Q[i].readers = Cardinality(Holders(U, i, FALSE))
      /\ Q[i].writers = Cardinality(Holders(U, i, TRUE))
  BY <1>2, <1>4, <1>5
<1>7. Q[i].readers > 0 \/ Q[i].writers > 0
  <2>1. ASSUME NEW w, Holders(U, i, w) # {}
        PROVE  Cardinality(Holders(U, i, w)) > 0
    <3>1. IsFiniteSet(Holders(U, i, w)) /\ Cardinality(Holders(U, i, w)) \in Nat
      BY AmongFinite DEF Holders
    <3>2. Cardinality(Holders(U, i, w)) # 0
      BY <2>1, <3>1, FS_EmptySet
    <3> QED
      BY <3>1, <3>2
  <2> QED
    BY <1>6, <2>1
<1> QED
  BY <1>4, <1>5, <1>6, <1>7

\* The counts go up with the descriptors: those of L were closed in T, and are in U
\* copies of others.
LEMMA ShareCounted ==
  ASSUME NEW T \in Tables, NEW P \in Bufs, NEW U \in Tables, NEW L, L \subseteq Pids \X Fds,
         \A p \in Pids : \A f \in Fds :
           IF <<p, f>> \in L
           THEN /\ T[p].fd[f] = Closed
                /\ \/ U[p].fd[f] = Closed
                   \/ \E q \in Pids : \E g \in Fds : T[q].fd[g] = U[p].fd[f]
           ELSE U[p].fd[f] = T[p].fd[f],
         Counted(T, P)
  PROVE  Counted(U, fd_share(U, P, L))
<1> DEFINE Q == fd_share(U, P, L)
<1>1. ASSUME NEW i \in Pipes, NEW w
      PROVE  /\ Holders(U, i, w) = Holders(T, i, w) \cup Among(L, U, i, w)
             /\ Holders(T, i, w) \cap Among(L, U, i, w) = {}
             /\ Among(L, U, i, w) # {} => Holders(T, i, w) # {}
  <2> DEFINE e == [pipe |-> i, write |-> w]
             HT == Holders(T, i, w)
             HU == Holders(U, i, w)
             A == Among(L, U, i, w)
  <2>1. e # Closed
    BY EndNotClosed
  <2>2. /\ HU \subseteq Pids \X Fds /\ HT \subseteq Pids \X Fds /\ A \subseteq Pids \X Fds
        /\ \A p \in Pids : \A f \in Fds :
             /\ <<p, f>> \in HU <=> U[p].fd[f] = e
             /\ <<p, f>> \in HT <=> T[p].fd[f] = e
             /\ <<p, f>> \in A <=> <<p, f>> \in L /\ U[p].fd[f] = e
    BY DEF Holders, Among
  <2> HIDE DEF e, HT, HU, A
  <2>3. ASSUME NEW p \in Pids, NEW f \in Fds
        PROVE  /\ <<p, f>> \in HU <=> <<p, f>> \in HT \/ <<p, f>> \in A
               /\ ~(<<p, f>> \in HT /\ <<p, f>> \in A)
               /\ <<p, f>> \in A => HT # {}
    <3>1. CASE <<p, f>> \in L
      <4>1. <<p, f>> \notin HT
        BY <2>1, <2>2, <3>1
      <4>2. <<p, f>> \in A => \E q \in Pids : \E g \in Fds : T[q].fd[g] = e
        BY <2>1, <2>2, <3>1
      <4> QED
        BY <2>2, <3>1, <4>1, <4>2
    <3>2. CASE <<p, f>> \notin L
      BY <2>2, <3>2
    <3> QED
      BY <3>1, <3>2
  <2> QED
    BY <2>2, <2>3 DEF HT, HU, A
<1>2. ASSUME NEW i \in Pipes, NEW w
      PROVE  /\ Cardinality(Holders(U, i, w))
                  = Cardinality(Holders(T, i, w)) + Cardinality(Among(L, U, i, w))
  <2> DEFINE H == Holders(T, i, w)
             A == Among(L, U, i, w)
  <2>1. IsFiniteSet(H) /\ IsFiniteSet(A) /\ Cardinality(H) \in Nat /\ Cardinality(A) \in Nat
    BY AmongFinite DEF Holders
  <2>2. H \cap A = {} /\ Holders(U, i, w) = H \cup A
    BY <1>1
  <2> HIDE DEF H, A
  <2>3. Cardinality(H \cup A) = Cardinality(H) + Cardinality(A) - Cardinality(H \cap A)
    BY <2>1, FS_Union
  <2>4. Cardinality(H \cap A) = 0
    BY <2>2, FS_EmptySet
  <2>5. Cardinality(H \cup A) = Cardinality(H) + Cardinality(A)
    BY <2>1, <2>3, <2>4
  <2> QED
    BY <2>2, <2>5 DEF H, A
<1> SUFFICES ASSUME NEW i \in Pipes, Holders(U, i, FALSE) \cup Holders(U, i, TRUE) # {}
             PROVE  /\ Q[i].open
                    /\ Q[i].readers = Cardinality(Holders(U, i, FALSE))
                    /\ Q[i].writers = Cardinality(Holders(U, i, TRUE))
  BY DEF Counted
<1>3. Holders(T, i, FALSE) \cup Holders(T, i, TRUE) # {}
  BY <1>1
<1>4. /\ P[i].open
      /\ P[i].readers = Cardinality(Holders(T, i, FALSE))
      /\ P[i].writers = Cardinality(Holders(T, i, TRUE))
  BY <1>3 DEF Counted
<1>5. /\ Q[i].readers = P[i].readers + Cardinality(Among(L, U, i, FALSE))
      /\ Q[i].writers = P[i].writers + Cardinality(Among(L, U, i, TRUE))
      /\ P[i].open => Q[i].open
  <2>1. Q[i].readers = P[i].readers + Cardinality(Among(L, U, i, FALSE))
    BY ShareEach
  <2>2. Q[i].writers = P[i].writers + Cardinality(Among(L, U, i, TRUE))
    BY ShareEach
  <2>3. P[i].open => Q[i].open
    BY ShareEach
  <2> HIDE DEF Q
  <2> QED
    BY <2>1, <2>2, <2>3
<1> HIDE DEF Q
<1> QED
  BY <1>2, <1>4, <1>5, Zenon

\* What a step has to leave.
Fine == Well(g_tasks', g_pipes') /\ g_current' \in Pids

\* One process may change, with its descriptors, unless it ends.
LEMMA OneWell ==
  ASSUME NEW T, NEW P, Well(T, P), NEW p \in Pids, NEW t \in Tasks,
         t.fd = T[p].fd, t.state \notin {"free", "zombie"}, t.pc # "user" => t.on \in Pipes
  PROVE  Well([T EXCEPT ![p] = t], P)
<1> DEFINE U == [T EXCEPT ![p] = t]
<1>1. U \in Tables /\ U[p] = t /\ \A q \in Pids : q # p => U[q] = T[q]
  BY DEF Well, Tables
<1> HIDE DEF U
<1>2. Lodged(U) /\ Clean(U)
  BY <1>1 DEF Well, Lodged, Clean
<1>3. SameFds(T, U) /\ SameCounts(P, P)
  BY <1>1 DEF SameFds, SameCounts
<1>4. Counted(U, P)
  BY <1>3, CountedSame DEF Well
<1> QED
  BY <1>1, <1>2, <1>4 DEF Well, U

\* Processes may be woken.
LEMMA WakeWell ==
  ASSUME NEW T, NEW P, Well(T, P), NEW S
  PROVE  Well(Wake(T, S), P)
<1> DEFINE U == Wake(T, S)
<1>1. U \in Tables /\ \A p \in Pids : Woken(T[p], U[p]) /\ U[p].fd = T[p].fd
  BY WakeEach DEF Well
<1> HIDE DEF U
<1>2. Lodged(U) /\ Clean(U)
  BY <1>1 DEF Well, Lodged, Clean, Woken
<1>3. SameFds(T, U) /\ SameCounts(P, P)
  BY <1>1 DEF SameFds, SameCounts
<1>4. Counted(U, P)
  BY <1>3, CountedSame DEF Well
<1> QED
  BY <1>1, <1>2, <1>4 DEF Well, U

\* Bytes may move and claims change.
LEMMA BufWell ==
  ASSUME NEW T, NEW P, Well(T, P), NEW i \in Pipes, NEW b \in PipeBufs,
         b.open = P[i].open, b.readers = P[i].readers, b.writers = P[i].writers
  PROVE  Well(T, [P EXCEPT ![i] = b])
<1> DEFINE Q == [P EXCEPT ![i] = b]
<1>1. Q \in Bufs /\ Q[i] = b /\ \A j \in Pipes : j # i => Q[j] = P[j]
  BY DEF Well, Bufs
<1> HIDE DEF Q
<1>2. SameFds(T, T) /\ SameCounts(P, Q)
  BY <1>1 DEF SameFds, SameCounts
<1>3. Counted(T, Q)
  BY <1>2, CountedSame DEF Well
<1> QED
  BY <1>1, <1>3 DEF Well, Q

\* The way back to user mode.
LEMMA ReturnWell ==
  ASSUME g_current \in Pids, NEW T, NEW P, Well(T, P), Return(T, P)
  PROVE  Fine
<1>1. T \in Tables
  BY DEF Well
<1>2. /\ g_tasks' \in Tables /\ g_current' = g_current /\ g_pipes' = P
      /\ \A p \in Pids : p # g_current => g_tasks'[p] = T[p]
      /\ g_tasks'[g_current].fd = T[g_current].fd
      /\ g_tasks'[g_current].state = T[g_current].state
      /\ g_tasks'[g_current].pc = "user"
  BY <1>1, ReturnEach
<1>3. Lodged(g_tasks')
  BY <1>2 DEF Well, Lodged
<1>4. Clean(g_tasks')
  BY <1>2 DEF Well, Clean
<1>5. SameFds(T, g_tasks') /\ SameCounts(P, P)
  BY <1>2 DEF SameFds, SameCounts
<1>6. Counted(g_tasks', P)
  BY <1>5, CountedSame DEF Well
<1> QED
  BY <1>2, <1>3, <1>4, <1>6 DEF Well, Fine

\* task_switch_now().
LEMMA SwitchWell ==
  ASSUME g_current \in Pids, NEW T, NEW P, Well(T, P), Switch(T, P)
  PROVE  Fine
<1> DEFINE L == Held(Killed(T))
           R == reap(T, P)
<1>1. T \in Tables /\ P \in Bufs /\ Clean(T)
  BY DEF Well
<1>2. /\ g_tasks' \in Tables /\ g_current' \in Pids /\ g_pipes' = fd_unshare(T, P, L)
      /\ L \subseteq Pids \X Fds
  BY <1>1, SwitchEach, ReapEach
<1>3. ASSUME NEW p \in Pids
      PROVE  /\ R[p] = Free \/ Woken(T[p], R[p])
             /\ \A f \in Fds : R[p].fd[f] = IF <<p, f>> \in L THEN Closed ELSE T[p].fd[f]
  BY <1>1, ReapEach
<1>4. ASSUME NEW p \in Pids
      PROVE  /\ g_tasks'[p].fd = R[p].fd /\ g_tasks'[p].pc = R[p].pc
             /\ g_tasks'[p].on = R[p].on
             /\ \/ g_tasks'[p].state = R[p].state
                \/ g_tasks'[p].state \in {"ready", "running"}
  BY <1>1, SwitchEach
<1> HIDE DEF L, R
<1>5. Free.pc = "user"
  BY DEF Free
<1>6. Lodged(g_tasks')
  BY <1>3, <1>4, <1>5 DEF Well, Lodged, Woken
<1>7. Clean(g_tasks')
  <2> SUFFICES ASSUME NEW p \in Pids, g_tasks'[p].state \in {"free", "zombie"}, NEW f \in Fds
               PROVE  g_tasks'[p].fd[f] = Closed
    BY DEF Clean
  <2>1. R[p].state \in {"free", "zombie"} /\ g_tasks'[p].fd = R[p].fd
    BY <1>4
  <2>2. CASE R[p] = Free
    BY <2>1, <2>2 DEF Free
  <2>3. CASE Woken(T[p], R[p])
    <3>1. T[p].fd[f] = Closed
      BY <1>1, <2>1, <2>3 DEF Clean, Woken
    <3> QED
      BY <1>3, <2>1, <3>1
  <2> QED
    BY <1>3, <2>2, <2>3
<1>8. Counted(g_tasks', g_pipes')
  <2>1. \A p \in Pids : \A f \in Fds :
          g_tasks'[p].fd[f] = IF <<p, f>> \in L THEN Closed ELSE T[p].fd[f]
    BY <1>3, <1>4
  <2> QED
    BY <1>1, <1>2, <2>1, UnshareCounted DEF Well
<1>9. g_pipes' \in Bufs
  BY <1>1, <1>2, UnshareEach
<1> QED
  BY <1>2, <1>6, <1>7, <1>8, <1>9 DEF Well, Fine

\* block_on().
LEMMA ParkWell ==
  ASSUME g_current \in Pids, NEW T, NEW P, Well(T, P), NEW where \in {"rd", "wr"},
         NEW i \in Pipes, NEW len \in 0 .. MaxLen, Park(T, P, where, i, len)
  PROVE  Fine
<1> DEFINE t == [T[g_current] EXCEPT !.state = "blocked", !.pc = where, !.on = i, !.len = len]
<1>1. T \in Tables /\ T[g_current] \in Tasks /\ i \in 0 .. kMaxPipe
  BY DEF Well, Tables, Pipes
<1>2. t \in Tasks /\ t.fd = T[g_current].fd /\ t.state = "blocked" /\ t.on = i
  BY <1>1 DEF Tasks, States
<1>3. Switch([T EXCEPT ![g_current] = t], P)
  BY <1>1 DEF Park, Tables
<1> HIDE DEF t
<1>4. Well([T EXCEPT ![g_current] = t], P)
  BY <1>2, OneWell
<1> QED
  BY <1>3, <1>4, SwitchWell

\* pipe_rd().
LEMMA RdWell ==
  ASSUME g_current \in Pids, NEW T, NEW P, Well(T, P), NEW i \in Pipes, pipe_rd(T, P, i)
  PROVE  Fine
<1>1. P \in Bufs /\ P[i] \in PipeBufs /\ g_current \in 0 .. kMaxTask /\ 0 \in 0 .. kMaxTask
      /\ 0 \in 0 .. MaxLen
  BY PipeAssumption DEF Well, Bufs, Pids
<1>2. ASSUME Park(T, [P EXCEPT ![i].rd_wait = g_current], "rd", i, 0) PROVE Fine
  <2> DEFINE b == [P[i] EXCEPT !.rd_wait = g_current]
  <2>1. b \in PipeBufs /\ b.open = P[i].open /\ b.readers = P[i].readers /\ b.writers = P[i].writers
    BY <1>1 DEF PipeBufs
  <2>2. [P EXCEPT ![i].rd_wait = g_current] = [P EXCEPT ![i] = b]
    BY <1>1 DEF Bufs
  <2> HIDE DEF b
  <2>3. Well(T, [P EXCEPT ![i] = b])
    BY <2>1, BufWell
  <2> QED
    BY <1>1, <1>2, <2>2, <2>3, ParkWell
<1>3. Return(T, P) => Fine
  BY ReturnWell
<1>4. ASSUME NEW got \in 1 .. P[i].n,
             Return(Wake(T, {P[i].wr_wait}), [P EXCEPT ![i].n = @ - got, ![i].wr_wait = 0])
      PROVE  Fine
  <2> DEFINE left == P[i].n - got
             b == [P[i] EXCEPT !.n = left, !.wr_wait = 0]
  <2>1. left \in 0 .. kPipeBytes
    BY <1>1, PipeAssumption DEF PipeBufs
  <2>2. [P EXCEPT ![i].n = @ - got, ![i].wr_wait = 0] = [P EXCEPT ![i] = b]
    BY <1>1 DEF Bufs
  <2> HIDE DEF left
  <2>3. b \in PipeBufs /\ b.open = P[i].open /\ b.readers = P[i].readers /\ b.writers = P[i].writers
    BY <1>1, <2>1 DEF PipeBufs
  <2> HIDE DEF b
  <2>4. Well(Wake(T, {P[i].wr_wait}), [P EXCEPT ![i] = b])
    BY <2>3, BufWell, WakeWell
  <2> QED
    BY <1>4, <2>2, <2>4, ReturnWell
<1> QED
  BY <1>2, <1>3, <1>4 DEF pipe_rd

\* pipe_wr().
LEMMA WrWell ==
  ASSUME g_current \in Pids, NEW T, NEW P, Well(T, P), NEW i \in Pipes, NEW len \in 0 .. MaxLen,
         pipe_wr(T, P, i, len)
  PROVE  Fine
<1> DEFINE room == kPipeBytes - P[i].n
           put == Min({len, room})
           b == [P[i] EXCEPT !.n = @ + put, !.rd_wait = 0]
           P1 == IF put = 0 THEN P ELSE [P EXCEPT ![i].n = @ + put, ![i].rd_wait = 0]
           T1 == IF put = 0 THEN T ELSE Wake(T, {P[i].rd_wait})
<1>1. P \in Bufs /\ P[i] \in PipeBufs /\ g_current \in 0 .. kMaxTask /\ 0 \in 0 .. kMaxTask
  BY PipeAssumption DEF Well, Bufs, Pids
<1>2. P[i].n \in 0 .. kPipeBytes /\ room \in Nat
  BY <1>1, PipeAssumption DEF PipeBufs
<1>3. put \in {len, room} /\ put <= len /\ put <= room
  <2> DEFINE S == {len, room}
  <2>1. S \subseteq Nat /\ S # {}
    BY <1>2
  <2> HIDE DEF S
  <2>2. Min(S) \in S /\ \A y \in S : Min(S) <= y
    BY <2>1, MinIn
  <2> QED
    BY <2>2 DEF S
<1> HIDE DEF put
<1>4. P[i].n + put \in 0 .. kPipeBytes /\ len - put \in 0 .. MaxLen
  BY <1>2, <1>3, PipeAssumption
<1>5. b \in PipeBufs /\ b.open = P[i].open /\ b.readers = P[i].readers /\ b.writers = P[i].writers
  BY <1>1, <1>4 DEF PipeBufs
<1>6. [P EXCEPT ![i].n = @ + put, ![i].rd_wait = 0] = [P EXCEPT ![i] = b]
  BY <1>1 DEF Bufs
<1> HIDE DEF b
<1>7. Well(T1, P1)
  BY <1>5, <1>6, BufWell, WakeWell
<1>8. P1 \in Bufs /\ P1[i] \in PipeBufs
  BY <1>7 DEF Well, Bufs
<1>9. \/ Return(T1, P1)
      \/ Park(T1, [P1 EXCEPT ![i].wr_wait = g_current], "wr", i, len - put)
  BY DEF pipe_wr, put
<1> HIDE DEF P1, T1
<1>10. ASSUME Park(T1, [P1 EXCEPT ![i].wr_wait = g_current], "wr", i, len - put) PROVE Fine
  <2> DEFINE c == [P1[i] EXCEPT !.wr_wait = g_current]
  <2>1. c \in PipeBufs /\ c.open = P1[i].open /\ c.readers = P1[i].readers
        /\ c.writers = P1[i].writers
    BY <1>1, <1>8 DEF PipeBufs
  <2>2. [P1 EXCEPT ![i].wr_wait = g_current] = [P1 EXCEPT ![i] = c]
    BY <1>8 DEF Bufs
  <2> HIDE DEF c
  <2>3. Well(T1, [P1 EXCEPT ![i] = c])
    BY <1>7, <2>1, BufWell
  <2> QED
    BY <1>4, <1>10, <2>2, <2>3, ParkWell
<1> QED
  BY <1>7, <1>9, <1>10, ReturnWell

\* close_in() with the fd_unshare() it makes.
LEMMA CloseWell ==
  ASSUME NEW T, NEW P, Well(T, P), NEW L, L \subseteq Pids \X Fds
  PROVE  Well(close_in(T, P, L), fd_unshare(T, P, L))
<1> DEFINE U == close_in(T, P, L)
<1>1. T \in Tables /\ P \in Bufs
  BY DEF Well
<1>2. /\ U \in Tables
      /\ \A p \in Pids :
           /\ Woken(T[p], U[p])
           /\ \A f \in Fds : U[p].fd[f] = IF <<p, f>> \in L THEN Closed ELSE T[p].fd[f]
  BY <1>1, CloseEach
<1> HIDE DEF U
<1>3. Lodged(U)
  BY <1>2 DEF Well, Lodged, Woken
<1>4. Clean(U)
  <2> SUFFICES ASSUME NEW p \in Pids, U[p].state \in {"free", "zombie"}, NEW f \in Fds
               PROVE  U[p].fd[f] = Closed
    BY DEF Clean
  <2>1. T[p].state \in {"free", "zombie"}
    BY <1>2 DEF Woken
  <2>2. T[p].fd[f] = Closed
    BY <2>1 DEF Well, Clean
  <2> QED
    BY <1>2, <2>2
<1>5. Counted(U, fd_unshare(T, P, L))
  BY <1>1, <1>2, UnshareCounted DEF Well
<1>6. fd_unshare(T, P, L) \in Bufs
  BY <1>1, UnshareEach
<1> QED
  BY <1>2, <1>3, <1>4, <1>5, <1>6 DEF Well, U

\* close().
LEMMA CloseAction ==
  ASSUME g_current \in Pids, Well(g_tasks, g_pipes), Close
  PROVE  Fine
<1>1. PICK f \in Fds :
        LET L == {<<g_current, f>>}
        IN  Return(close_in(g_tasks, g_pipes, L), fd_unshare(g_tasks, g_pipes, L))
  BY DEF Close
<1> DEFINE L == {<<g_current, f>>}
<1>2. L \subseteq Pids \X Fds
  OBVIOUS
<1>3. Return(close_in(g_tasks, g_pipes, L), fd_unshare(g_tasks, g_pipes, L))
  BY <1>1
<1> HIDE DEF L
<1> QED
  BY <1>2, <1>3, CloseWell, ReturnWell

\* dup2(): the new descriptor is counted like the one it is a copy of.
LEMMA Dup2Well ==
  ASSUME g_current \in Pids, Well(g_tasks, g_pipes), Dup2
  PROVE  Fine
<1>1. PICK old \in Fds, nw \in Fds :
        LET L == {<<g_current, nw>>}
            T == [close_in(g_tasks, g_pipes, L) EXCEPT ![g_current].fd[nw] = Me.fd[old]]
        IN /\ old # nw
           /\ Return(T, fd_share(T, fd_unshare(g_tasks, g_pipes, L), L))
  BY DEF Dup2
<1> DEFINE L == {<<g_current, nw>>}
           C == close_in(g_tasks, g_pipes, L)
           Q == fd_unshare(g_tasks, g_pipes, L)
           end == Me.fd[old]
           T == [C EXCEPT ![g_current].fd[nw] = end]
<1>2. L \subseteq Pids \X Fds /\ <<g_current, nw>> \in L
      /\ \A p \in Pids : \A f \in Fds : <<p, f>> \in L => p = g_current /\ f = nw
  OBVIOUS
<1>3. old # nw /\ Return(T, fd_share(T, Q, L)) /\ g_tasks \in Tables /\ g_pipes \in Bufs
  BY <1>1 DEF Well
<1> HIDE DEF L
<1>4. Well(C, Q)
  BY <1>2, CloseWell
<1>5. /\ C \in Tables /\ C[g_current] \in Tasks /\ Q \in Bufs
      /\ end \in Ends \cup {Closed}
      /\ C[g_current].fd[old] = end
      /\ C[g_current].fd[nw] = Closed
  <2>1. C \in Tables /\ C[g_current] \in Tasks /\ Q \in Bufs
    BY <1>4 DEF Well, Tables
  <2>2. end \in Ends \cup {Closed}
    BY <1>3 DEF Me, Tables, Tasks
  <2>3. \A f \in Fds : C[g_current].fd[f] = IF <<g_current, f>> \in L THEN Closed
                                            ELSE g_tasks[g_current].fd[f]
    BY <1>3, CloseEach
  <2> QED
    BY <1>2, <1>3, <2>1, <2>2, <2>3 DEF Me
<1> HIDE DEF C, Q, end
<1> DEFINE t == [C[g_current] EXCEPT !.fd[nw] = end]
<1>6. /\ t \in Tasks /\ t.state = C[g_current].state /\ t.pc = C[g_current].pc
      /\ t.on = C[g_current].on /\ t.fd[nw] = end
      /\ \A f \in Fds : f # nw => t.fd[f] = C[g_current].fd[f]
  <2> DEFINE g == [C[g_current].fd EXCEPT ![nw] = end]
  <2>1. C[g_current].fd \in [Fds -> Ends \cup {Closed}]
    BY <1>5 DEF Tasks
  <2>2. /\ g \in [Fds -> Ends \cup {Closed}] /\ g[nw] = end
        /\ \A f \in Fds : f # nw => g[f] = C[g_current].fd[f]
    BY <1>5, <2>1
  <2>3. t = [C[g_current] EXCEPT !.fd = g]
    OBVIOUS
  <2> HIDE DEF g, t
  <2> QED
    BY <1>5, <2>2, <2>3 DEF Tasks
<1>7. T = [C EXCEPT ![g_current] = t]
  BY <1>5 DEF Tables
<1> HIDE DEF t
<1>8. T \in Tables /\ T[g_current] = t /\ \A p \in Pids : p # g_current => T[p] = C[p]
  BY <1>5, <1>6, <1>7 DEF Tables
<1> HIDE DEF T
<1>9. C[g_current].state \notin {"free", "zombie"}
  <2>1. Me.state = "running"
    BY DEF Dup2, InUser
  <2>2. Woken(g_tasks[g_current], C[g_current])
    BY <1>3, CloseEach DEF C
  <2> QED
    BY <2>1, <2>2 DEF Woken, Me
<1>10. Lodged(T)
  BY <1>4, <1>6, <1>8 DEF Well, Lodged
<1>11. Clean(T)
  BY <1>4, <1>6, <1>8, <1>9 DEF Well, Clean
<1>12. \A p \in Pids : \A f \in Fds :
         IF <<p, f>> \in L
         THEN /\ C[p].fd[f] = Closed
              /\ \/ T[p].fd[f] = Closed
                 \/ \E q \in Pids : \E g \in Fds : C[q].fd[g] = T[p].fd[f]
         ELSE T[p].fd[f] = C[p].fd[f]
  <2> SUFFICES ASSUME NEW p \in Pids, NEW f \in Fds
               PROVE  IF <<p, f>> \in L
                      THEN /\ C[p].fd[f] = Closed
                           /\ \/ T[p].fd[f] = Closed
                              \/ \E q \in Pids : \E g \in Fds : C[q].fd[g] = T[p].fd[f]
                      ELSE T[p].fd[f] = C[p].fd[f]
    OBVIOUS
  <2>1. CASE <<p, f>> \in L
    <3>1. p = g_current /\ f = nw
      BY <1>2, <2>1
    <3>2. T[p].fd[f] = C[g_current].fd[old]
      BY <1>5, <1>6, <1>8, <3>1
    <3> QED
      BY <1>5, <2>1, <3>1, <3>2
  <2>2. CASE <<p, f>> \notin L
    BY <1>2, <1>6, <1>8, <2>2
  <2> QED
    BY <2>1, <2>2
<1>13. Counted(T, fd_share(T, Q, L))
  BY <1>2, <1>4, <1>5, <1>8, <1>12, ShareCounted DEF Well
<1>14. fd_share(T, Q, L) \in Bufs
  BY <1>2, <1>5, <1>8, ShareEach
<1> QED
  BY <1>3, <1>8, <1>10, <1>11, <1>13, <1>14, ReturnWell DEF Well, T, Q

\* fork_user(): the child's descriptors are counted like its parent's.
LEMMA ForkWell ==
  ASSUME g_current \in Pids, Well(g_tasks, g_pipes), Fork
  PROVE  Fine
<1>1. PICK s \in Pids \ {kPid1} :
        /\ g_tasks[s].state = "free"
        /\ LET T == [g_tasks EXCEPT ![s] = [Free EXCEPT !.state = "ready", !.fd = Me.fd]]
           IN Return(T, fd_share(T, g_pipes, Held({s})))
  BY DEF Fork
<1> DEFINE born == [Free EXCEPT !.state = "ready", !.fd = Me.fd]
           T == [g_tasks EXCEPT ![s] = born]
           L == Held({s})
<1>2. g_tasks \in Tables /\ g_pipes \in Bufs /\ Me \in Tasks /\ g_tasks[s] \in Tasks
  BY DEF Well, Tables, Me
<1>3. born \in Tasks /\ born.fd = Me.fd /\ born.state = "ready" /\ born.pc = "user"
  <2>1. Me.fd \in [Fds -> Ends \cup {Closed}]
    BY <1>2 DEF Tasks
  <2>2. Free \in Tasks /\ Free.pc = "user"
    BY FreeType DEF Free
  <2> QED
    BY <2>1, <2>2 DEF Tasks, States
<1>4. Return(T, fd_share(T, g_pipes, L))
  BY <1>1
<1>5. L \subseteq Pids \X Fds /\ \A p \in Pids : \A f \in Fds : <<p, f>> \in L <=> p = s
  BY DEF Held
<1> HIDE DEF born, L
<1>6. T \in Tables /\ T[s] = born /\ \A p \in Pids : p # s => T[p] = g_tasks[p]
  BY <1>2, <1>3 DEF Tables
<1> HIDE DEF T
<1>7. \A f \in Fds : g_tasks[s].fd[f] = Closed
  BY <1>1 DEF Well, Clean
<1>8. Lodged(T) /\ Clean(T)
  BY <1>3, <1>6 DEF Well, Lodged, Clean
<1>9. \A p \in Pids : \A f \in Fds :
        IF <<p, f>> \in L
        THEN /\ g_tasks[p].fd[f] = Closed
             /\ \/ T[p].fd[f] = Closed
                \/ \E q \in Pids : \E g \in Fds : g_tasks[q].fd[g] = T[p].fd[f]
        ELSE T[p].fd[f] = g_tasks[p].fd[f]
  <2> SUFFICES ASSUME NEW p \in Pids, NEW f \in Fds
               PROVE  IF <<p, f>> \in L
                      THEN /\ g_tasks[p].fd[f] = Closed
                           /\ \/ T[p].fd[f] = Closed
                              \/ \E q \in Pids : \E g \in Fds : g_tasks[q].fd[g] = T[p].fd[f]
                      ELSE T[p].fd[f] = g_tasks[p].fd[f]
    OBVIOUS
  <2>1. CASE <<p, f>> \in L
    <3>1. T[p].fd[f] = g_tasks[g_current].fd[f] /\ p = s
      BY <1>3, <1>5, <1>6, <2>1 DEF Me
    <3> QED
      BY <1>7, <2>1, <3>1
  <2>2. CASE <<p, f>> \notin L
    BY <1>5, <1>6, <2>2
  <2> QED
    BY <2>1, <2>2
<1>10. Counted(T, fd_share(T, g_pipes, L))
  BY <1>2, <1>5, <1>6, <1>9, ShareCounted DEF Well
<1>11. fd_share(T, g_pipes, L) \in Bufs
  BY <1>2, <1>5, <1>6, ShareEach
<1> QED
  BY <1>4, <1>6, <1>8, <1>10, <1>11, ReturnWell DEF Well

\* pipe(): the slot it takes is one nobody holds an end of.
LEMMA MakeWell ==
  ASSUME g_current \in Pids, Well(g_tasks, g_pipes), MakePipe
  PROVE  Fine
<1> DEFINE fresh == [Shut EXCEPT !.open = TRUE, !.readers = 1, !.writers = 1]
           free == {f \in Fds : Me.fd[f] = Closed}
<1>1. PICK i \in Pipes :
        /\ ~g_pipes[i].open
        /\ LET P == [g_pipes EXCEPT ![i] = fresh]
           IN \/ Return(g_tasks, P)
              \/ /\ Cardinality(free) >= 2
                 /\ LET r == Min(free)
                        w == Min(free \ {r})
                    IN Return([g_tasks EXCEPT ![g_current].fd[r] = [pipe |-> i, write |-> FALSE],
                                              ![g_current].fd[w] = [pipe |-> i, write |-> TRUE]], P)
  BY DEF MakePipe
<1> DEFINE P == [g_pipes EXCEPT ![i] = fresh]
           r == Min(free)
           w == Min(free \ {r})
           er == [pipe |-> i, write |-> FALSE]
           ew == [pipe |-> i, write |-> TRUE]
           T == [g_tasks EXCEPT ![g_current].fd[r] = er, ![g_current].fd[w] = ew]
<1>2. g_tasks \in Tables /\ g_pipes \in Bufs /\ Me \in Tasks /\ Me = g_tasks[g_current]
  BY DEF Well, Tables, Me
<1>3. fresh \in PipeBufs /\ fresh.open /\ fresh.readers = 1 /\ fresh.writers = 1
  BY FreeType DEF PipeBufs, Shut
<1> HIDE DEF fresh
<1>4. P \in Bufs /\ P[i] = fresh /\ \A j \in Pipes : j # i => P[j] = g_pipes[j]
  BY <1>2, <1>3 DEF Bufs
<1>5. \A e \in BOOLEAN : Holders(g_tasks, i, e) = {}
  BY <1>1 DEF Well, Counted
<1>6. ASSUME Return(g_tasks, P) PROVE Fine
  <2>1. Counted(g_tasks, P)
    BY <1>4, <1>5 DEF Well, Counted
  <2> QED
    BY <1>4, <1>6, <2>1, ReturnWell DEF Well
<1>7. ASSUME Cardinality(free) >= 2, Return(T, P) PROVE Fine
  <2>1. r \in free /\ w \in free /\ r # w
    <3>1. free \subseteq Nat /\ IsFiniteSet(free) /\ Cardinality(free) \in Nat
      <4>1. IsFiniteSet(Fds) /\ Fds \subseteq Nat /\ free \in SUBSET Fds
        BY FS_Interval, PipeAssumption DEF Fds
      <4> QED
        BY <4>1, FS_Subset, FS_CardinalityType
    <3> HIDE DEF free
    <3>2. free # {}
      <4>1. Cardinality(free) # 0
        BY <1>7, <3>1
      <4> QED
        BY <4>1, FS_EmptySet
    <3>3. r \in free
      BY <3>1, <3>2, MinIn
    <3> HIDE DEF r
    <3>4. Cardinality(free \ {r}) = Cardinality(free) - 1
      BY <3>1, <3>3, FS_RemoveElement
    <3>5. free \ {r} # {}
      <4>1. Cardinality(free \ {r}) # 0
        BY <1>7, <3>1, <3>4
      <4> QED
        BY <4>1, FS_EmptySet
    <3>6. w \in free \ {r}
      BY <3>1, <3>5, MinIn
    <3> QED
      BY <3>3, <3>6
  <2> HIDE DEF r, w
  <2>2. r \in Fds /\ w \in Fds /\ Me.fd[r] = Closed /\ Me.fd[w] = Closed
    BY <2>1
  <2> HIDE DEF free
  <2>3. er \in Ends \cup {Closed} /\ ew \in Ends \cup {Closed}
    BY DEF Ends
  <2>4. /\ er # ew
        /\ \A j \in Pipes, e \in BOOLEAN :
             LET end == [pipe |-> j, write |-> e]
             IN  /\ end # Closed
                 /\ end = er <=> j = i /\ e = FALSE
                 /\ end = ew <=> j = i /\ e = TRUE
    BY EndNotClosed
  <2> HIDE DEF er, ew
  <2> DEFINE g == [[Me.fd EXCEPT ![r] = er] EXCEPT ![w] = ew]
             t == [Me EXCEPT !.fd = g]
  <2>5. /\ g \in [Fds -> Ends \cup {Closed}] /\ g[r] = er /\ g[w] = ew
        /\ \A f \in Fds : f # r /\ f # w => g[f] = Me.fd[f]
    <3>1. Me.fd \in [Fds -> Ends \cup {Closed}]
      BY <1>2 DEF Tasks
    <3> QED
      BY <2>1, <2>2, <2>3, <3>1
  <2>6. T = [g_tasks EXCEPT ![g_current] = t]
    BY <1>2 DEF Tables, Tasks
  <2> HIDE DEF g
  <2>7. t \in Tasks /\ t.fd = g /\ t.state = Me.state /\ t.pc = Me.pc /\ t.on = Me.on
    BY <1>2, <2>5 DEF Tasks
  <2> HIDE DEF t
  <2>8. T \in Tables /\ T[g_current] = t /\ \A p \in Pids : p # g_current => T[p] = g_tasks[p]
    BY <1>2, <2>6, <2>7 DEF Tables
  <2>9. Return(T, P)
    BY <1>7
  <2> HIDE DEF T, P
  <2>10. Lodged(T) /\ Clean(T)
    <3>1. Me.state = "running"
      BY DEF MakePipe, InUser
    <3> QED
      BY <1>2, <2>7, <2>8, <3>1 DEF Well, Lodged, Clean
  <2>11. ASSUME NEW j \in Pipes, NEW e \in BOOLEAN
         PROVE  Holders(T, j, e) = IF j # i THEN Holders(g_tasks, j, e)
                                   ELSE IF e THEN {<<g_current, w>>} ELSE {<<g_current, r>>}
    <3> DEFINE end == [pipe |-> j, write |-> e]
    <3>1. /\ end # Closed
          /\ end = er <=> j = i /\ e = FALSE
          /\ end = ew <=> j = i /\ e = TRUE
      BY <2>4
    <3>2. \A p \in Pids : \A f \in Fds :
            /\ <<p, f>> \in Holders(T, j, e) <=> T[p].fd[f] = end
            /\ <<p, f>> \in Holders(g_tasks, j, e) <=> g_tasks[p].fd[f] = end
      BY DEF Holders, Among
    <3>3. Holders(T, j, e) \subseteq Pids \X Fds /\ Holders(g_tasks, j, e) \subseteq Pids \X Fds
      BY DEF Holders, Among
    <3> HIDE DEF end
    <3>4. ASSUME NEW p \in Pids, NEW f \in Fds
          PROVE  T[p].fd[f] = end <=>
                   \/ g_tasks[p].fd[f] = end
                   \/ p = g_current /\ f = r /\ j = i /\ e = FALSE
                   \/ p = g_current /\ f = w /\ j = i /\ e = TRUE
      <4>1. CASE p # g_current
        BY <2>8, <4>1
      <4>2. CASE p = g_current
        <5>1. T[p].fd[f] = g[f] /\ g_tasks[p].fd[f] = Me.fd[f]
          BY <1>2, <2>7, <2>8, <4>2
        <5>2. CASE f = r
          BY <2>1, <2>2, <2>5, <3>1, <4>2, <5>1, <5>2
        <5>3. CASE f = w
          BY <2>1, <2>2, <2>5, <3>1, <4>2, <5>1, <5>3
        <5>4. CASE f # r /\ f # w
          BY <2>5, <5>1, <5>4
        <5> QED
          BY <5>2, <5>3, <5>4
      <4> QED
        BY <4>1, <4>2
    <3>5. CASE j # i
      <4>1. \A p \in Pids : \A f \in Fds :
              <<p, f>> \in Holders(T, j, e) <=> <<p, f>> \in Holders(g_tasks, j, e)
        BY <3>2, <3>4, <3>5
      <4>2. Holders(T, j, e) = Holders(g_tasks, j, e)
        BY <3>3, <4>1
      <4> QED
        BY <3>5, <4>2
    <3>6. CASE j = i
      <4>1. Holders(g_tasks, j, e) = {}
        BY <1>5, <3>6
      <4>2. \A p \in Pids : \A f \in Fds :
              <<p, f>> \in Holders(T, j, e) <=>
                \/ p = g_current /\ f = r /\ e = FALSE
                \/ p = g_current /\ f = w /\ e = TRUE
        BY <3>2, <3>4, <3>6, <4>1
      <4> QED
        BY <2>2, <3>3, <3>6, <4>2
    <3> QED
      BY <3>5, <3>6
  <2>12. Counted(T, P)
    <3> SUFFICES ASSUME NEW j \in Pipes, Holders(T, j, FALSE) \cup Holders(T, j, TRUE) # {}
                 PROVE  /\ P[j].open
                        /\ P[j].readers = Cardinality(Holders(T, j, FALSE))
                        /\ P[j].writers = Cardinality(Holders(T, j, TRUE))
      BY DEF Counted
    <3>1. CASE j = i
      <4>1. Holders(T, j, FALSE) = {<<g_current, r>>} /\ Holders(T, j, TRUE) = {<<g_current, w>>}
        BY <2>11, <3>1
      <4>2. Cardinality(Holders(T, j, FALSE)) = 1 /\ Cardinality(Holders(T, j, TRUE)) = 1
        BY <4>1, FS_Singleton
      <4> QED
        BY <1>3, <1>4, <3>1, <4>2
    <3>2. CASE j # i
      <4>1. /\ Holders(T, j, FALSE) = Holders(g_tasks, j, FALSE)
            /\ Holders(T, j, TRUE) = Holders(g_tasks, j, TRUE)
        BY <2>11, <3>2
      <4> QED
        BY <1>4, <3>2, <4>1 DEF Well, Counted
    <3> QED
      BY <3>1, <3>2
  <2> QED
    BY <1>4, <2>8, <2>9, <2>10, <2>12, ReturnWell DEF Well
<1> QED
  BY <1>1, <1>6, <1>7

\* exit(): who becomes a zombie has closed everything.
LEMMA ExitWell ==
  ASSUME g_current \in Pids, Well(g_tasks, g_pipes), Exit
  PROVE  Fine
<1> DEFINE L == Held({g_current})
           U == close_in(g_tasks, g_pipes, L)
           Q == fd_unshare(g_tasks, g_pipes, L)
           t == [U[g_current] EXCEPT !.state = "zombie"]
           Z == [U EXCEPT ![g_current].state = "zombie"]
<1>1. Switch(Z, Q)
  BY DEF Exit
<1>2. L \subseteq Pids \X Fds /\ \A f \in Fds : <<g_current, f>> \in L
  BY DEF Held
<1>3. Well(U, Q)
  BY <1>2, CloseWell
<1>4. \A f \in Fds : U[g_current].fd[f] = Closed
  <2>1. g_tasks \in Tables /\ g_pipes \in Bufs
    BY DEF Well
  <2>2. \A f \in Fds :
          U[g_current].fd[f] = IF <<g_current, f>> \in L THEN Closed ELSE g_tasks[g_current].fd[f]
    BY <2>1, CloseEach
  <2> HIDE DEF U, L
  <2> QED
    BY <1>2, <2>2
<1>5. U \in Tables
  BY <1>3 DEF Well
<1> HIDE DEF U, Q, L
<1>6. /\ t \in Tasks /\ t.fd = U[g_current].fd /\ t.pc = U[g_current].pc /\ t.on = U[g_current].on
      /\ t.state = "zombie"
  BY <1>5 DEF Tables, Tasks, States
<1>7. Z = [U EXCEPT ![g_current] = t]
  BY <1>5 DEF Tables
<1> HIDE DEF t
<1>8. Z \in Tables /\ Z[g_current] = t /\ \A p \in Pids : p # g_current => Z[p] = U[p]
  BY <1>5, <1>6, <1>7 DEF Tables
<1> HIDE DEF Z
<1>9. Lodged(Z) /\ Clean(Z)
  <2>1. Lodged(Z)
    BY <1>3, <1>6, <1>8 DEF Well, Lodged
  <2>2. \A f \in Fds : Z[g_current].fd[f] = Closed
    BY <1>4, <1>6, <1>8
  <2>3. Clean(Z)
    BY <1>3, <1>8, <2>2 DEF Well, Clean
  <2> QED
    BY <2>1, <2>3
<1>10. Counted(Z, Q)
  <2>1. SameFds(U, Z) /\ SameCounts(Q, Q)
    BY <1>6, <1>8 DEF SameFds, SameCounts
  <2> QED
    BY <1>3, <2>1, CountedSame DEF Well
<1> QED
  BY <1>1, <1>3, <1>8, <1>9, <1>10, SwitchWell DEF Well

\* kill() of another process.
LEMMA KillWell ==
  ASSUME g_current \in Pids, Well(g_tasks, g_pipes), Kill
  PROVE  Fine
<1>1. PICK p \in Pids \ {kPid1, g_current} :
        Return([g_tasks EXCEPT ![p].state = "killed"], g_pipes)
  BY DEF Kill
<1> DEFINE t == [g_tasks[p] EXCEPT !.state = "killed"]
<1>2. g_tasks \in Tables /\ g_tasks[p] \in Tasks
  BY DEF Well, Tables
<1>3. /\ t \in Tasks /\ t.fd = g_tasks[p].fd /\ t.pc = g_tasks[p].pc /\ t.on = g_tasks[p].on
      /\ t.state = "killed"
  BY <1>2 DEF Tasks, States
<1>4. [g_tasks EXCEPT ![p].state = "killed"] = [g_tasks EXCEPT ![p] = t]
  BY <1>2 DEF Tables
<1> HIDE DEF t
<1>5. t.pc # "user" => t.on \in Pipes
  BY <1>3 DEF Well, Lodged
<1>6. t.state \notin {"free", "zombie"}
  BY <1>3
<1>7. Well([g_tasks EXCEPT ![p] = t], g_pipes)
  BY <1>3, <1>5, <1>6, OneWell
<1> QED
  BY <1>1, <1>4, <1>7, ReturnWell

\* Whoever holds an end holds one of a pipe.
LEMMA EndOfPipe ==
  ASSUME NEW T \in Tables, NEW p \in Pids, NEW f \in Fds, T[p].fd[f] # Closed
  PROVE  T[p].fd[f] \in Ends /\ T[p].fd[f].pipe \in Pipes
<1>1. T[p].fd[f] \in Ends \cup {Closed}
  BY DEF Tables, Tasks
<1> QED
  BY <1>1 DEF Ends

\* Back from block_on(): the claim on the pipe is dropped.
LEMMA ResumeWell ==
  ASSUME g_current \in Pids, Well(g_tasks, g_pipes), Resume
  PROVE  Fine
<1>1. Me = g_tasks[g_current] /\ Me \in Tasks /\ Me.len \in 0 .. MaxLen
  BY DEF Me, Well, Tables, Tasks
<1>2. Me.pc # "user" => Me.on \in Pipes
  BY <1>1 DEF Well, Lodged
<1>3. ASSUME Me.on \in Pipes
      PROVE  /\ Well(g_tasks, [g_pipes EXCEPT ![Me.on].rd_wait = 0])
             /\ Well(g_tasks, [g_pipes EXCEPT ![Me.on].wr_wait = 0])
  <2> DEFINE i == Me.on
             b == [g_pipes[i] EXCEPT !.rd_wait = 0]
             c == [g_pipes[i] EXCEPT !.wr_wait = 0]
  <2>1. g_pipes \in Bufs /\ g_pipes[i] \in PipeBufs /\ 0 \in 0 .. kMaxTask /\ i \in Pipes
    BY <1>3, PipeAssumption DEF Well, Bufs
  <2> HIDE DEF i
  <2>2. /\ b \in PipeBufs /\ b.open = g_pipes[i].open
        /\ b.readers = g_pipes[i].readers /\ b.writers = g_pipes[i].writers
        /\ c \in PipeBufs /\ c.open = g_pipes[i].open
        /\ c.readers = g_pipes[i].readers /\ c.writers = g_pipes[i].writers
    BY <2>1 DEF PipeBufs
  <2>3. /\ [g_pipes EXCEPT ![i].rd_wait = 0] = [g_pipes EXCEPT ![i] = b]
        /\ [g_pipes EXCEPT ![i].wr_wait = 0] = [g_pipes EXCEPT ![i] = c]
    BY <2>1 DEF Bufs
  <2> HIDE DEF b, c
  <2>4. Well(g_tasks, [g_pipes EXCEPT ![i] = b]) /\ Well(g_tasks, [g_pipes EXCEPT ![i] = c])
    BY <2>1, <2>2, BufWell
  <2> QED
    BY <2>3, <2>4 DEF i
<1>4. CASE /\ Me.pc = "rd"
           /\ pipe_rd(g_tasks, [g_pipes EXCEPT ![Me.on].rd_wait = 0], Me.on)
  BY <1>2, <1>3, <1>4, RdWell
<1>5. CASE /\ Me.pc = "wr"
           /\ pipe_wr(g_tasks, [g_pipes EXCEPT ![Me.on].wr_wait = 0], Me.on, Me.len)
  BY <1>1, <1>2, <1>3, <1>5, WrWell
<1> QED
  BY <1>4, <1>5 DEF Resume

\* read() and write().
LEMMA CallWell ==
  ASSUME g_current \in Pids, Well(g_tasks, g_pipes), Read \/ Write
  PROVE  Fine
<1>1. g_tasks \in Tables /\ Me = g_tasks[g_current]
  BY DEF Well, Me
<1>2. ASSUME NEW f \in Fds, Me.fd[f] # Closed PROVE Me.fd[f].pipe \in Pipes
  BY <1>1, <1>2, EndOfPipe
<1>3. CASE Read
  <2>1. PICK f \in Fds : Me.fd[f] # Closed /\ pipe_rd(g_tasks, g_pipes, Me.fd[f].pipe)
    BY <1>3 DEF Read
  <2> QED
    BY <1>2, <2>1, RdWell
<1>4. CASE Write
  <2>1. PICK f \in Fds, len \in 1 .. MaxLen :
          Me.fd[f] # Closed /\ pipe_wr(g_tasks, g_pipes, Me.fd[f].pipe, len)
    BY <1>4 DEF Write
  <2>2. len \in 0 .. MaxLen
    BY PipeAssumption
  <2> QED
    BY <1>2, <2>1, <2>2, WrWell
<1> QED
  BY <1>3, <1>4

\* A caught signal.
LEMMA SignalWell ==
  ASSUME g_current \in Pids, Well(g_tasks, g_pipes), Signal
  PROVE  Fine
<1>1. PICK p \in Pids : Return(Wake(g_tasks, {p}), g_pipes)
  BY DEF Signal
<1>2. Well(Wake(g_tasks, {p}), g_pipes)
  BY WakeWell
<1> QED
  BY <1>1, <1>2, ReturnWell

\* The inductive invariant.
WellInv == Well(g_tasks, g_pipes) /\ g_current \in Pids

\* Every call keeps it.
LEMMA NextWell ==
  ASSUME WellInv, [Next]_vars
  PROVE  WellInv'
<1> USE DEF WellInv
<1>1. CASE Next
  <2>1. Fine => WellInv'
    BY DEF Fine
  <2>2. Preempt => Switch(g_tasks, g_pipes)
    BY DEF Preempt
  <2> HIDE DEF WellInv
  <2>3. Well(g_tasks, g_pipes) /\ g_current \in Pids
    BY DEF WellInv
  <2>4. Fine
    BY <1>1, <2>2, <2>3, SwitchWell, CallWell, ResumeWell, MakeWell, CloseAction, Dup2Well,
       ForkWell, ExitWell, KillWell, SignalWell DEF Next
  <2> QED
    BY <2>1, <2>4
<1>2. CASE UNCHANGED vars
  <2>1. g_tasks' = g_tasks /\ g_pipes' = g_pipes /\ g_current' = g_current
    BY <1>2 DEF vars
  <2>2. Well(g_tasks', g_pipes')
    BY <2>1
  <2> QED
    BY <2>1, <2>2
<1> QED
  BY <1>1, <1>2

\* It holds when the kernel starts: nobody has a descriptor.
LEMMA InitWell == Init => WellInv
<1> SUFFICES ASSUME Init PROVE WellInv
  OBVIOUS
<1> DEFINE one == [Free EXCEPT !.state = "running"]
<1>1. /\ one \in Tasks /\ one.pc = "user" /\ Free.pc = "user" /\ one.state = "running"
      /\ \A f \in Fds : one.fd[f] = Closed /\ Free.fd[f] = Closed
  <2>1. Free \in Tasks
    BY FreeType
  <2>2. /\ one \in Tasks /\ one.pc = Free.pc /\ one.state = "running" /\ one.fd = Free.fd
    BY <2>1 DEF Tasks, States
  <2>3. Free.pc = "user" /\ Free.fd = [f \in Fds |-> Closed]
    BY DEF Free
  <2> QED
    BY <2>2, <2>3
<1>2. /\ g_tasks = [p \in Pids |-> IF p = kPid1 THEN one ELSE Free]
      /\ g_current = kPid1 /\ g_pipes = [i \in Pipes |-> Shut]
  BY DEF Init
<1> HIDE DEF one
<1>3. g_tasks \in Tables /\ g_pipes \in Bufs
  BY <1>1, <1>2, FreeType DEF Tables, Bufs
<1>4. \A p \in Pids : g_tasks[p].pc = "user" /\ \A f \in Fds : g_tasks[p].fd[f] = Closed
  BY <1>1, <1>2
<1>5. Lodged(g_tasks) /\ Clean(g_tasks)
  BY <1>4 DEF Lodged, Clean
<1>6. Counted(g_tasks, g_pipes)
  <2>1. ASSUME NEW i \in Pipes, NEW w PROVE Holders(g_tasks, i, w) = {}
    BY <1>4, EndNotClosed DEF Holders, Among
  <2> QED
    BY <2>1 DEF Counted
<1>7. g_current \in Pids
  BY <1>2, PipeAssumption DEF Pids, kPid1
<1> QED
  BY <1>3, <1>5, <1>6, <1>7 DEF WellInv, Well

\* The process table and the pipe table are well typed.
THEOREM TypeCorrect == Spec => []TypeOK
<1>1. WellInv => TypeOK
  BY DEF WellInv, Well, Tables, Bufs, TypeOK
<1> QED
  BY <1>1, InitWell, NextWell, PTL DEF Spec

\* However descriptors are copied, closed, inherited and lost with the process
\* that held them, the counts of a pipe are the descriptors that hold its ends.
THEOREM EndsCountedAlways == Spec => []EndsCounted
<1>1. WellInv => EndsCounted
  BY DEF WellInv, Well, Counted, EndsCounted
<1> QED
  BY <1>1, InitWell, NextWell, PTL DEF Spec

-----------------------------------------------------------------------------
(* Nobody sleeps through what it waits for, with one process at a time in  *)
(* a read and one in a write of a pipe.  NoLostWakeup says nothing of who  *)
(* is written down in the pipe, which is who gets woken, so the invariant  *)
(* adds that it is the sleeper (Claims), that there is no second one who   *)
(* could take the place (Alone), and that whoever is inside a call holds   *)
(* an end, so that the slot is not handed out under it (Holding).          *)

\* What is written in pipe b of process p that sleeps on it.
Claim(p, t, b) ==
  t.state = "blocked" =>
    /\ t.pc # "user"
    /\ t.pc = "rd" => b.rd_wait = p /\ b.n = 0 /\ b.writers > 0
    /\ t.pc = "wr" => b.wr_wait = p /\ b.n = kPipeBytes /\ b.readers > 0

Claims(T, P) == \A p \in Pids : Claim(p, T[p], P[T[p].on])

\* Process t is in a read, or in a write, of pipe i, and will go on.
In(t, where, i) == t.state \notin Dead /\ t.pc = where /\ t.on = i

Alone(T) ==
  \A p, q \in Pids : \A where \in {"rd", "wr"} : \A i \in Pipes :
    In(T[p], where, i) /\ In(T[q], where, i) => p = q

Holds(t, i) == \E f \in Fds : t.fd[f] # Closed /\ t.fd[f].pipe = i

Holding(T) ==
  \A p \in Pids : \A where \in {"rd", "wr"} : \A i \in Pipes :
    In(T[p], where, i) => Holds(T[p], i)

Tight(T, P) == Claims(T, P) /\ Alone(T) /\ Holding(T)

\* u, once t, is inside a call only if t was, with the same descriptors.
Follows(t, u) ==
  \/ u.pc = "user"
  \/ u.state \in Dead
  \/ /\ u.pc = t.pc /\ u.on = t.on /\ t.state \notin Dead
     /\ \A f \in Fds : u.fd[f] = t.fd[f]

\* Whoever leaves a call, ends or goes on where it was takes nobody's place.
LEMMA FollowTight ==
  ASSUME NEW T, NEW U, Alone(T), Holding(T), \A p \in Pids : Follows(T[p], U[p])
  PROVE  Alone(U) /\ Holding(U)
<1>1. ASSUME NEW p \in Pids, NEW where \in {"rd", "wr"}, NEW i \in Pipes, In(U[p], where, i)
      PROVE  In(T[p], where, i) /\ \A f \in Fds : U[p].fd[f] = T[p].fd[f]
  BY <1>1 DEF Follows, In
<1>2. Alone(U)
  BY <1>1 DEF Alone
<1>3. ASSUME NEW p \in Pids, NEW where \in {"rd", "wr"}, NEW i \in Pipes, In(U[p], where, i)
      PROVE  Holds(U[p], i)
  <2>1. Holds(T[p], i)
    BY <1>1, <1>3 DEF Holding
  <2> QED
    BY <1>1, <1>3, <2>1 DEF Holds
<1> QED
  BY <1>2, <1>3 DEF Holding

\* With fd_unshare() a claim is kept, or its process is told.
LEMMA UnshareClaims ==
  ASSUME NEW T \in Tables, NEW P \in Bufs, NEW L, L \subseteq Pids \X Fds,
         Claims(T, P), Lodged(T), NEW U,
         \A p \in Pids : U[p].state = "blocked" =>
           /\ T[p].state = "blocked" /\ U[p].pc = T[p].pc /\ U[p].on = T[p].on
           /\ p \notin UnshareWakes(T, P, L)
  PROVE  Claims(U, fd_unshare(T, P, L))
<1> SUFFICES ASSUME NEW p \in Pids, U[p].state = "blocked"
             PROVE  Claim(p, U[p], fd_unshare(T, P, L)[U[p].on])
  BY DEF Claims, Claim
<1> DEFINE i == T[p].on
           b == fd_unshare(T, P, L)[i]
<1>1. /\ T[p].state = "blocked" /\ U[p].pc = T[p].pc /\ U[p].on = i
      /\ p \notin UnshareWakes(T, P, L)
  OBVIOUS
<1>2. Claim(p, T[p], P[i])
  BY DEF Claims
<1>3. i \in Pipes
  BY <1>1, <1>2 DEF Claim, Lodged
<1> HIDE DEF i
<1>4. /\ b.n = P[i].n
      /\ b.readers = Left(P[i].readers, Among(L, T, i, FALSE))
      /\ b.writers = Left(P[i].writers, Among(L, T, i, TRUE))
      /\ b.rd_wait = IF LastOut(L, T, P, i, TRUE) THEN 0 ELSE P[i].rd_wait
      /\ b.wr_wait = IF LastOut(L, T, P, i, FALSE) THEN 0 ELSE P[i].wr_wait
  <2>1. b.n = P[i].n
    BY <1>3, UnshareEach
  <2>2. /\ b.readers = Left(P[i].readers, Among(L, T, i, FALSE))
        /\ b.writers = Left(P[i].writers, Among(L, T, i, TRUE))
    BY <1>3, UnshareEach
  <2>3. b.rd_wait = IF LastOut(L, T, P, i, TRUE) THEN 0 ELSE P[i].rd_wait
    BY <1>3, UnshareEach
  <2>4. b.wr_wait = IF LastOut(L, T, P, i, FALSE) THEN 0 ELSE P[i].wr_wait
    BY <1>3, UnshareEach
  <2> QED
    BY <2>1, <2>2, <2>3, <2>4
<1> HIDE DEF b
<1>5. P[i].readers \in Nat /\ P[i].writers \in Nat
  BY <1>3 DEF Bufs, PipeBufs
<1>6. ASSUME NEW count \in Nat, count > 0, NEW w,
             Among(L, T, i, w) = {} \/ Left(count, Among(L, T, i, w)) # 0
      PROVE  Left(count, Among(L, T, i, w)) > 0
  <2>1. IsFiniteSet(Among(L, T, i, w))
    BY AmongFinite
  <2>2. Left(count, Among(L, T, i, w)) \in Nat
    BY <2>1, LeftType
  <2>3. CASE Among(L, T, i, w) = {}
    <3>1. Cardinality(Among(L, T, i, w)) = 0
      BY <2>3, FS_EmptySet
    <3> QED
      BY <1>6, <3>1 DEF Left
  <2>4. CASE Left(count, Among(L, T, i, w)) # 0
    BY <2>2, <2>4
  <2> QED
    BY <1>6, <2>3, <2>4
<1>7. CASE T[p].pc = "rd"
  <2>1. P[i].rd_wait = p /\ P[i].n = 0 /\ P[i].writers > 0
    BY <1>1, <1>2, <1>7 DEF Claim
  <2>2. ~LastOut(L, T, P, i, TRUE)
    BY <1>1, <1>3, <2>1 DEF UnshareWakes
  <2>3. Among(L, T, i, TRUE) = {} \/ Left(P[i].writers, Among(L, T, i, TRUE)) # 0
    BY <2>2 DEF LastOut
  <2>4. b.writers > 0
    BY <1>4, <1>5, <1>6, <2>1, <2>3
  <2> QED
    BY <1>1, <1>4, <1>7, <2>1, <2>2, <2>4 DEF Claim, b
<1>8. CASE T[p].pc = "wr"
  <2>1. P[i].wr_wait = p /\ P[i].n = kPipeBytes /\ P[i].readers > 0
    BY <1>1, <1>2, <1>8 DEF Claim
  <2>2. ~LastOut(L, T, P, i, FALSE)
    BY <1>1, <1>3, <2>1 DEF UnshareWakes
  <2>3. Among(L, T, i, FALSE) = {} \/ Left(P[i].readers, Among(L, T, i, FALSE)) # 0
    BY <2>2 DEF LastOut
  <2>4. b.readers > 0
    BY <1>4, <1>5, <1>6, <2>1, <2>3
  <2> QED
    BY <1>1, <1>4, <1>8, <2>1, <2>2, <2>4 DEF Claim, b
<1>9. T[p].pc \in {"user", "rd", "wr"}
  BY DEF Tables, Tasks
<1> QED
  BY <1>1, <1>2, <1>7, <1>8, <1>9 DEF Claim

Kept == Tight(g_tasks', g_pipes')

\* task_switch_now(), with what the killed held closed on the way.
LEMMA SwitchTight ==
  ASSUME g_current \in Pids, NEW T, NEW P, Well(T, P), Tight(T, P), Switch(T, P)
  PROVE  Kept
<1> DEFINE L == Held(Killed(T))
           R == reap(T, P)
<1>1. T \in Tables /\ P \in Bufs /\ Clean(T) /\ Lodged(T)
  BY DEF Well
<1>2. g_pipes' = fd_unshare(T, P, L) /\ L \subseteq Pids \X Fds
  BY <1>1, SwitchEach, ReapEach
<1>3. \A p, f : <<p, f>> \in L => T[p].state \in Dead
  BY DEF Held, Killed, Dead
<1>4. ASSUME NEW p \in Pids
      PROVE  /\ \/ R[p] = Free /\ T[p].state \in Dead
                \/ /\ Woken(T[p], R[p])
                   /\ p \in UnshareWakes(T, P, L) => R[p].state # "blocked"
             /\ \A f \in Fds : R[p].fd[f] = IF <<p, f>> \in L THEN Closed ELSE T[p].fd[f]
  BY <1>1, ReapEach
<1>5. ASSUME NEW p \in Pids
      PROVE  LET u == g_tasks'[p]
             IN  /\ u.fd = R[p].fd /\ u.pc = R[p].pc /\ u.on = R[p].on
                 /\ \/ u.state = R[p].state
                    \/ u.state \in {"ready", "running"} /\ R[p].state \in {"ready", "running"}
  BY <1>1, SwitchEach
<1> HIDE DEF L, R
<1>6. Free.pc = "user" /\ Free.state = "free"
  BY DEF Free
<1>7. ASSUME NEW p \in Pids
      PROVE  Follows(T[p], g_tasks'[p])
  <2>1. CASE R[p] = Free
    BY <1>5, <1>6, <2>1 DEF Follows
  <2>2. CASE Woken(T[p], R[p]) /\ T[p].state \notin Dead
    <3>1. \A f \in Fds : g_tasks'[p].fd[f] = T[p].fd[f]
      BY <1>3, <1>4, <1>5, <2>2
    <3> QED
      BY <1>5, <2>2, <3>1 DEF Follows, Woken
  <2>3. CASE Woken(T[p], R[p]) /\ T[p].state \in Dead
    BY <1>5, <2>3 DEF Follows, Woken, Dead
  <2> QED
    BY <1>4, <2>1, <2>2, <2>3
<1>8. ASSUME NEW p \in Pids, g_tasks'[p].state = "blocked"
      PROVE  /\ T[p].state = "blocked" /\ g_tasks'[p].pc = T[p].pc /\ g_tasks'[p].on = T[p].on
             /\ p \notin UnshareWakes(T, P, L)
  <2>1. R[p].state = "blocked"
    BY <1>5, <1>8
  <2> QED
    BY <1>4, <1>5, <1>6, <2>1 DEF Woken
<1>9. Claims(g_tasks', g_pipes')
  BY <1>1, <1>2, <1>8, UnshareClaims DEF Tight
<1> QED
  BY <1>7, <1>9, FollowTight DEF Kept, Tight

\* The way back to user mode.
LEMMA ReturnTight ==
  ASSUME g_current \in Pids, NEW T, NEW P, T \in Tables, Claims(T, P), Alone(T), Holding(T),
         T[g_current].state # "blocked", Return(T, P)
  PROVE  Kept
<1>1. /\ g_pipes' = P
      /\ \A p \in Pids : p # g_current => g_tasks'[p] = T[p]
      /\ g_tasks'[g_current].state = T[g_current].state
      /\ g_tasks'[g_current].pc = "user"
  BY ReturnEach
<1>2. \A p \in Pids : Follows(T[p], g_tasks'[p])
  BY <1>1 DEF Follows
<1>3. Claims(g_tasks', g_pipes')
  BY <1>1 DEF Claims, Claim
<1> QED
  BY <1>2, <1>3, FollowTight DEF Kept, Tight

\* block_on(): the claim is written down, and there is nobody else to write one.
LEMMA ParkTight ==
  ASSUME g_current \in Pids, NEW T, NEW P, Well(T, P), Tight(T, P),
         NEW where \in {"rd", "wr"}, NEW i \in Pipes, NEW len \in 0 .. MaxLen,
         \A q \in Pids : In(T[q], where, i) => q = g_current,
         Holds(T[g_current], i),
         where = "rd" => P[i].rd_wait = g_current /\ P[i].n = 0 /\ P[i].writers > 0,
         where = "wr" => P[i].wr_wait = g_current /\ P[i].n = kPipeBytes /\ P[i].readers > 0,
         Park(T, P, where, i, len)
  PROVE  Kept
<1> DEFINE t == [T[g_current] EXCEPT !.state = "blocked", !.pc = where, !.on = i, !.len = len]
           U == [T EXCEPT ![g_current] = t]
<1>1. T \in Tables /\ T[g_current] \in Tasks /\ i \in 0 .. kMaxPipe
  BY DEF Well, Tables, Pipes
<1>2. t \in Tasks /\ t.fd = T[g_current].fd /\ t.state = "blocked" /\ t.on = i /\ t.pc = where
  BY <1>1 DEF Tasks, States
<1>3. Switch(U, P)
  BY <1>1 DEF Park, Tables
<1> HIDE DEF t
<1>4. Well(U, P)
  BY <1>2, OneWell
<1>5. U[g_current] = t /\ \A p \in Pids : p # g_current => U[p] = T[p]
  BY <1>1, <1>2 DEF Tables
<1> HIDE DEF U
<1>6. Claims(U, P)
  <2>1. \A p \in Pids : p # g_current => Claim(p, U[p], P[U[p].on])
    BY <1>5 DEF Tight, Claims
  <2>2. Claim(g_current, t, P[i])
    BY <1>2 DEF Claim
  <2> QED
    BY <1>2, <1>5, <2>1, <2>2 DEF Claims
<1>7. Alone(U)
  <2> SUFFICES ASSUME NEW p \in Pids, NEW q \in Pids, NEW wh \in {"rd", "wr"}, NEW j \in Pipes,
                      In(U[p], wh, j), In(U[q], wh, j)
               PROVE  p = q
    BY DEF Alone
  <2>1. In(t, wh, j) => wh = where /\ j = i
    BY <1>2 DEF In
  <2>2. CASE p # g_current /\ q # g_current
    BY <1>5, <2>2 DEF Tight, Alone
  <2>3. CASE p = g_current \/ q = g_current
    BY <1>5, <2>1, <2>3
  <2> QED
    BY <2>2, <2>3
<1>8. Holding(U)
  <2>1. ASSUME NEW wh, NEW j, In(t, wh, j) PROVE Holds(t, j)
    BY <1>2, <2>1 DEF In, Holds
  <2> QED
    BY <1>5, <2>1 DEF Tight, Holding
<1> QED
  BY <1>3, <1>4, <1>6, <1>7, <1>8, SwitchTight DEF Tight

\* Some processes are woken, and the others find their claims in Q.
LEMMA WakeTight ==
  ASSUME NEW T \in Tables, Alone(T), Holding(T), NEW Q, NEW S,
         \A p \in Pids : p \notin S => Claim(p, T[p], Q[T[p].on])
  PROVE  Tight(Wake(T, S), Q)
<1> DEFINE U == Wake(T, S)
<1>1. ASSUME NEW p \in Pids
      PROVE  Woken(T[p], U[p]) /\ U[p].fd = T[p].fd /\ (p \in S => U[p].state # "blocked")
  BY WakeEach
<1> HIDE DEF U
<1>2. ASSUME NEW p \in Pids PROVE Follows(T[p], U[p])
  BY <1>1 DEF Follows, Woken, Dead
<1>3. ASSUME NEW p \in Pids PROVE Claim(p, U[p], Q[U[p].on])
  BY <1>1 DEF Claim, Woken
<1> QED
  BY <1>2, <1>3, FollowTight DEF Tight, Claims, U

\* pipe_rd(), by the only process in a read of the pipe.
LEMMA RdTight ==
  ASSUME g_current \in Pids, NEW T, NEW P, Well(T, P), Tight(T, P), NEW i \in Pipes,
         \A q \in Pids : In(T[q], "rd", i) => q = g_current,
         T[g_current].state = "running", Holds(T[g_current], i), pipe_rd(T, P, i)
  PROVE  Kept
<1>1. /\ T \in Tables /\ P \in Bufs /\ P[i] \in PipeBufs
      /\ g_current \in 0 .. kMaxTask /\ 0 \in 0 .. kMaxTask /\ 0 \in 0 .. MaxLen
  BY PipeAssumption DEF Well, Bufs, Pids
<1>2. CASE Return(T, P)
  BY <1>1, <1>2, ReturnTight DEF Tight
<1>3. ASSUME P[i].n = 0, P[i].writers > 0,
             Park(T, [P EXCEPT ![i].rd_wait = g_current], "rd", i, 0)
      PROVE  Kept
  <2> DEFINE b == [P[i] EXCEPT !.rd_wait = g_current]
             Q == [P EXCEPT ![i] = b]
  <2>1. /\ b \in PipeBufs /\ b.open = P[i].open /\ b.readers = P[i].readers
        /\ b.writers = P[i].writers /\ b.n = P[i].n /\ b.wr_wait = P[i].wr_wait
        /\ b.rd_wait = g_current
    BY <1>1 DEF PipeBufs
  <2>2. Park(T, Q, "rd", i, 0)
    BY <1>1, <1>3 DEF Bufs
  <2> HIDE DEF b
  <2>3. Well(T, Q)
    BY <2>1, BufWell
  <2>4. Q[i] = b /\ \A j \in Pipes : j # i => Q[j] = P[j]
    BY <1>1 DEF Bufs
  <2> HIDE DEF Q
  <2>5. Claims(T, Q)
    <3> SUFFICES ASSUME NEW p \in Pids PROVE Claim(p, T[p], Q[T[p].on])
      BY DEF Claims
    <3>1. Claim(p, T[p], P[T[p].on])
      BY DEF Tight, Claims
    <3>2. CASE T[p].on = i
      <4>1. T[p].state = "blocked" /\ T[p].pc = "rd" => FALSE
        BY <3>2 DEF In, Dead
      <4> QED
        BY <2>1, <2>4, <3>1, <3>2, <4>1 DEF Claim
    <3>3. CASE T[p].on # i /\ T[p].state = "blocked"
      <4>1. T[p].on \in Pipes
        BY <3>1, <3>3 DEF Claim, Well, Lodged
      <4> QED
        BY <2>4, <3>1, <3>3, <4>1
    <3> QED
      BY <3>2, <3>3 DEF Claim
  <2>6. Q[i].rd_wait = g_current /\ Q[i].n = 0 /\ Q[i].writers > 0
    BY <1>3, <2>1, <2>4
  <2> QED
    BY <1>1, <2>2, <2>3, <2>5, <2>6, ParkTight DEF Tight
<1>4. ASSUME NEW got \in 1 .. P[i].n,
             Return(Wake(T, {P[i].wr_wait}), [P EXCEPT ![i].n = @ - got, ![i].wr_wait = 0])
      PROVE  Kept
  <2> DEFINE S == {P[i].wr_wait}
             b == [P[i] EXCEPT !.n = @ - got, !.wr_wait = 0]
             Q == [P EXCEPT ![i] = b]
  <2>1. P[i].n # 0
    BY <1>1, <1>4 DEF PipeBufs
  <2>2. Q = [P EXCEPT ![i].n = @ - got, ![i].wr_wait = 0]
    BY <1>1 DEF Bufs, PipeBufs
  <2> HIDE DEF b
  <2>3. \A j \in Pipes : j # i => Q[j] = P[j]
    BY <1>1 DEF Bufs
  <2>4. Return(Wake(T, S), Q)
    BY <1>4, <2>2
  <2> HIDE DEF Q
  <2>5. ASSUME NEW p \in Pids, p \notin S PROVE Claim(p, T[p], Q[T[p].on])
    <3>1. Claim(p, T[p], P[T[p].on])
      BY DEF Tight, Claims
    <3> SUFFICES ASSUME T[p].state = "blocked" PROVE Claim(p, T[p], Q[T[p].on])
      BY DEF Claim
    <3>2. T[p].on \in Pipes /\ T[p].pc \in {"rd", "wr"}
      BY <1>1, <3>1 DEF Claim, Well, Lodged, Tables, Tasks
    <3>3. T[p].on # i
      BY <2>1, <2>5, <3>1, <3>2 DEF Claim
    <3> QED
      BY <2>3, <3>1, <3>2, <3>3
  <2>6. Tight(Wake(T, S), Q)
    BY <1>1, <2>5, WakeTight DEF Tight
  <2>7. Wake(T, S) \in Tables /\ Wake(T, S)[g_current].state # "blocked"
    BY <1>1, WakeEach DEF Woken
  <2> QED
    BY <2>4, <2>6, <2>7, ReturnTight DEF Tight
<1> QED
  BY <1>2, <1>3, <1>4 DEF pipe_rd

\* pipe_wr(), by the only process in a write of the pipe.
LEMMA WrTight ==
  ASSUME g_current \in Pids, NEW T, NEW P, Well(T, P), Tight(T, P), NEW i \in Pipes,
         NEW len \in 0 .. MaxLen,
         \A q \in Pids : In(T[q], "wr", i) => q = g_current,
         T[g_current].state = "running", Holds(T[g_current], i), pipe_wr(T, P, i, len)
  PROVE  Kept
<1> DEFINE room == kPipeBytes - P[i].n
           put == Min({len, room})
           b == [P[i] EXCEPT !.n = @ + put, !.rd_wait = 0]
           P1 == IF put = 0 THEN P ELSE [P EXCEPT ![i].n = @ + put, ![i].rd_wait = 0]
           T1 == IF put = 0 THEN T ELSE Wake(T, {P[i].rd_wait})
<1>1. /\ P \in Bufs /\ P[i] \in PipeBufs /\ g_current \in 0 .. kMaxTask /\ 0 \in 0 .. kMaxTask
      /\ T \in Tables
  BY PipeAssumption DEF Well, Bufs, Pids
<1>2. P[i].n \in 0 .. kPipeBytes /\ room \in Nat
  BY <1>1, PipeAssumption DEF PipeBufs
<1>3. put \in {len, room} /\ put <= len /\ put <= room
  <2> DEFINE S == {len, room}
  <2>1. S \subseteq Nat /\ S # {}
    BY <1>2
  <2> HIDE DEF S
  <2>2. Min(S) \in S /\ \A y \in S : Min(S) <= y
    BY <2>1, MinIn
  <2> QED
    BY <2>2 DEF S
<1>4. \/ put = len /\ Return(T1, P1)
      \/ /\ put < len /\ P[i].readers > 0
         /\ Park(T1, [P1 EXCEPT ![i].wr_wait = g_current], "wr", i, len - put)
      \/ Return(T1, P1)
  BY DEF pipe_wr
<1> HIDE DEF put
<1>5. P[i].n + put \in 0 .. kPipeBytes /\ len - put \in 0 .. MaxLen
  BY <1>2, <1>3, PipeAssumption
<1>6. put < len => P[i].n + put = kPipeBytes
  BY <1>2, <1>3, PipeAssumption
<1>7. /\ b \in PipeBufs /\ b.open = P[i].open /\ b.readers = P[i].readers
      /\ b.writers = P[i].writers /\ b.n = P[i].n + put
  BY <1>1, <1>5 DEF PipeBufs
<1>8. [P EXCEPT ![i].n = @ + put, ![i].rd_wait = 0] = [P EXCEPT ![i] = b]
  BY <1>1 DEF Bufs
<1> HIDE DEF b
<1>9. Well(T1, P1)
  BY <1>7, <1>8, BufWell, WakeWell
<1>10. /\ P1[i].n = P[i].n + put /\ P1[i].readers = P[i].readers
  BY <1>1, <1>2, <1>3, <1>7, <1>8 DEF Bufs
<1>11. ASSUME NEW p \in Pids
       PROVE  Woken(T[p], T1[p]) /\ T1[p].fd = T[p].fd
  BY <1>1, WakeEach DEF Woken
<1>12. Tight(T1, P1)
  <2>1. CASE put = 0
    BY <2>1
  <2>2. CASE put # 0
    <3> DEFINE Q == [P EXCEPT ![i] = b]
               S == {P[i].rd_wait}
    <3>1. \A j \in Pipes : j # i => Q[j] = P[j]
      BY <1>1 DEF Bufs
    <3>2. P[i].n # kPipeBytes
      BY <1>2, <1>3, <2>2
    <3> HIDE DEF Q
    <3>3. ASSUME NEW p \in Pids, p \notin S PROVE Claim(p, T[p], Q[T[p].on])
      <4>1. Claim(p, T[p], P[T[p].on])
        BY DEF Tight, Claims
      <4> SUFFICES ASSUME T[p].state = "blocked" PROVE Claim(p, T[p], Q[T[p].on])
        BY DEF Claim
      <4>2. T[p].on \in Pipes /\ T[p].pc \in {"rd", "wr"}
        BY <1>1, <4>1 DEF Claim, Well, Lodged, Tables, Tasks
      <4>3. T[p].on # i
        BY <3>2, <3>3, <4>1, <4>2 DEF Claim
      <4> QED
        BY <3>1, <4>1, <4>2, <4>3
    <3>4. Tight(Wake(T, S), Q)
      BY <1>1, <3>3, WakeTight DEF Tight
    <3> QED
      BY <1>8, <2>2, <3>4 DEF Q
  <2> QED
    BY <2>1, <2>2
<1> HIDE DEF P1, T1
<1>13. P1 \in Bufs /\ P1[i] \in PipeBufs /\ T1 \in Tables
  BY <1>9 DEF Well, Bufs
<1>14. T1[g_current].state = "running" /\ Holds(T1[g_current], i)
  BY <1>11 DEF Woken, Holds
<1>15. CASE Return(T1, P1)
  BY <1>12, <1>13, <1>14, <1>15, ReturnTight DEF Tight
<1>16. ASSUME put < len, P[i].readers > 0,
              Park(T1, [P1 EXCEPT ![i].wr_wait = g_current], "wr", i, len - put)
       PROVE  Kept
  <2> DEFINE c == [P1[i] EXCEPT !.wr_wait = g_current]
             Q == [P1 EXCEPT ![i] = c]
  <2>1. /\ c \in PipeBufs /\ c.open = P1[i].open /\ c.readers = P1[i].readers
        /\ c.writers = P1[i].writers /\ c.n = P1[i].n /\ c.rd_wait = P1[i].rd_wait
        /\ c.wr_wait = g_current
    BY <1>1, <1>13 DEF PipeBufs
  <2>2. Park(T1, Q, "wr", i, len - put)
    BY <1>13, <1>16 DEF Bufs
  <2> HIDE DEF c
  <2>3. Well(T1, Q)
    BY <1>9, <2>1, BufWell
  <2>4. Q[i] = c /\ \A j \in Pipes : j # i => Q[j] = P1[j]
    BY <1>13 DEF Bufs
  <2> HIDE DEF Q
  <2>5. ASSUME NEW q \in Pids, In(T1[q], "wr", i) PROVE q = g_current
    <3>1. In(T[q], "wr", i)
      BY <1>11, <2>5 DEF In, Woken, Dead
    <3> QED
      BY <3>1
  <2>6. Claims(T1, Q)
    <3> SUFFICES ASSUME NEW p \in Pids PROVE Claim(p, T1[p], Q[T1[p].on])
      BY DEF Claims
    <3>1. Claim(p, T1[p], P1[T1[p].on])
      BY <1>12 DEF Tight, Claims
    <3>2. CASE T1[p].on = i
      <4>1. T1[p].state = "blocked" /\ T1[p].pc = "wr" => FALSE
        BY <1>14, <2>5, <3>2 DEF In, Dead
      <4> QED
        BY <2>1, <2>4, <3>1, <3>2, <4>1 DEF Claim
    <3>3. CASE T1[p].on # i /\ T1[p].state = "blocked"
      <4>1. T1[p].on \in Pipes
        BY <1>9, <3>1, <3>3 DEF Claim, Well, Lodged
      <4> QED
        BY <2>4, <3>1, <3>3, <4>1
    <3> QED
      BY <3>2, <3>3 DEF Claim
  <2>7. Q[i].wr_wait = g_current /\ Q[i].n = kPipeBytes /\ Q[i].readers > 0
    BY <1>6, <1>10, <1>16, <2>1, <2>4
  <2> QED
    BY <1>5, <1>12, <1>14, <2>2, <2>3, <2>5, <2>6, <2>7, ParkTight DEF Tight
<1> QED
  BY <1>4, <1>15, <1>16

\* Ends may come, and processes leave, and every sleeper's claim stands.
LEMMA MoreTight ==
  ASSUME NEW T, NEW P \in Bufs, Lodged(T), Tight(T, P), NEW U, NEW Q \in Bufs,
         \A p \in Pids : /\ Follows(T[p], U[p])
                         /\ U[p].state = "blocked" => /\ T[p].state = "blocked"
                                                      /\ U[p].pc = T[p].pc /\ U[p].on = T[p].on,
         \A i \in Pipes : /\ Q[i].n = P[i].n
                          /\ Q[i].rd_wait = P[i].rd_wait /\ Q[i].wr_wait = P[i].wr_wait
                          /\ Q[i].readers >= P[i].readers /\ Q[i].writers >= P[i].writers
  PROVE  Tight(U, Q)
<1>1. ASSUME NEW p \in Pids, U[p].state = "blocked" PROVE Claim(p, U[p], Q[U[p].on])
  <2> DEFINE i == T[p].on
  <2>1. Claim(p, T[p], P[i]) /\ T[p].state = "blocked" /\ U[p].pc = T[p].pc /\ U[p].on = i
    BY <1>1 DEF Tight, Claims
  <2>2. i \in Pipes
    BY <2>1 DEF Claim, Lodged
  <2> HIDE DEF i
  <2>3. /\ P[i].readers \in Nat /\ P[i].writers \in Nat
        /\ Q[i].readers \in Nat /\ Q[i].writers \in Nat
    BY <2>2 DEF Bufs, PipeBufs
  <2>4. /\ P[i].readers > 0 => Q[i].readers > 0
        /\ P[i].writers > 0 => Q[i].writers > 0
    BY <2>2, <2>3
  <2>5. Q[i].n = P[i].n /\ Q[i].rd_wait = P[i].rd_wait /\ Q[i].wr_wait = P[i].wr_wait
    BY <2>2
  <2> QED
    BY <2>1, <2>4, <2>5 DEF Claim
<1>2. Claims(U, Q)
  BY <1>1 DEF Claims, Claim
<1> QED
  BY <1>2, FollowTight DEF Tight

\* A process in user mode closes some of its descriptors.
LEMMA CloseTight ==
  ASSUME g_current \in Pids, Well(g_tasks, g_pipes), Tight(g_tasks, g_pipes), InUser,
         NEW L, L \subseteq Held({g_current})
  PROVE  LET U == close_in(g_tasks, g_pipes, L)
         IN  /\ Tight(U, fd_unshare(g_tasks, g_pipes, L))
             /\ U \in Tables /\ U[g_current].state = "running" /\ U[g_current].pc = "user"
<1> DEFINE U == close_in(g_tasks, g_pipes, L)
<1>1. /\ g_tasks \in Tables /\ g_pipes \in Bufs /\ Lodged(g_tasks)
      /\ Me = g_tasks[g_current] /\ Me.state = "running" /\ Me.pc = "user"
  BY DEF Well, Me, InUser
<1>2. L \subseteq Pids \X Fds /\ \A p, f : <<p, f>> \in L => p = g_current
  BY DEF Held
<1>3. U \in Tables
  BY <1>1, CloseEach
<1>4. ASSUME NEW p \in Pids
      PROVE  /\ Woken(g_tasks[p], U[p])
             /\ p \in UnshareWakes(g_tasks, g_pipes, L) => U[p].state # "blocked"
             /\ \A f \in Fds : U[p].fd[f] = IF <<p, f>> \in L THEN Closed ELSE g_tasks[p].fd[f]
  BY <1>1, CloseEach
<1> HIDE DEF U
<1>5. U[g_current].state = "running" /\ U[g_current].pc = "user"
  BY <1>1, <1>4 DEF Woken
<1>6. ASSUME NEW p \in Pids PROVE Follows(g_tasks[p], U[p])
  <2>1. CASE p = g_current
    BY <1>5, <2>1 DEF Follows
  <2>2. CASE p # g_current
    <3>1. \A f \in Fds : U[p].fd[f] = g_tasks[p].fd[f]
      BY <1>2, <1>4, <2>2
    <3> QED
      BY <1>4, <3>1 DEF Follows, Woken, Dead
  <2> QED
    BY <2>1, <2>2
<1>7. ASSUME NEW p \in Pids, U[p].state = "blocked"
      PROVE  /\ g_tasks[p].state = "blocked" /\ U[p].pc = g_tasks[p].pc /\ U[p].on = g_tasks[p].on
             /\ p \notin UnshareWakes(g_tasks, g_pipes, L)
  BY <1>4, <1>7 DEF Woken
<1>8. Claims(U, fd_unshare(g_tasks, g_pipes, L))
  BY <1>1, <1>2, <1>7, UnshareClaims DEF Tight
<1> QED
  BY <1>3, <1>5, <1>6, <1>8, FollowTight DEF Tight, U

\* What every action needs of the state it starts in.
TightInv == WellInv /\ Tight(g_tasks, g_pipes)

\* close().
LEMMA CloseKept ==
  ASSUME TightInv, Close
  PROVE  Kept
<1>1. PICK f \in Fds :
        LET L == {<<g_current, f>>}
        IN  Return(close_in(g_tasks, g_pipes, L), fd_unshare(g_tasks, g_pipes, L))
  BY DEF Close
<1> DEFINE L == {<<g_current, f>>}
           U == close_in(g_tasks, g_pipes, L)
<1>2. g_current \in Pids /\ InUser /\ L \subseteq Held({g_current})
  BY DEF TightInv, WellInv, Close, Held
<1>3. Return(U, fd_unshare(g_tasks, g_pipes, L))
  BY <1>1
<1> HIDE DEF L
<1>4. /\ Tight(U, fd_unshare(g_tasks, g_pipes, L))
      /\ U \in Tables /\ U[g_current].state = "running"
  BY <1>2, CloseTight DEF TightInv, WellInv
<1> HIDE DEF U
<1> QED
  BY <1>2, <1>3, <1>4, ReturnTight DEF Tight

\* fd_share() only adds ends.
LEMMA ShareMore ==
  ASSUME NEW T \in Tables, NEW P \in Bufs, NEW L, L \subseteq Pids \X Fds
  PROVE  /\ fd_share(T, P, L) \in Bufs
         /\ \A i \in Pipes :
              LET b == fd_share(T, P, L)[i]
              IN  /\ b.n = P[i].n /\ b.rd_wait = P[i].rd_wait /\ b.wr_wait = P[i].wr_wait
                  /\ b.readers >= P[i].readers /\ b.writers >= P[i].writers
<1>1. fd_share(T, P, L) \in Bufs
  BY ShareEach
<1>2. ASSUME NEW i \in Pipes
      PROVE  LET b == fd_share(T, P, L)[i]
             IN  /\ b.n = P[i].n /\ b.rd_wait = P[i].rd_wait /\ b.wr_wait = P[i].wr_wait
                 /\ b.readers >= P[i].readers /\ b.writers >= P[i].writers
  <2> DEFINE b == fd_share(T, P, L)[i]
             rs == Cardinality(Among(L, T, i, FALSE))
             ws == Cardinality(Among(L, T, i, TRUE))
  <2>1. b.n = P[i].n /\ b.rd_wait = P[i].rd_wait /\ b.wr_wait = P[i].wr_wait
    BY ShareEach
  <2>2. b.readers = P[i].readers + rs /\ b.writers = P[i].writers + ws
    BY ShareEach
  <2>3. rs \in Nat /\ ws \in Nat
    BY AmongFinite
  <2>4. P[i].readers \in Nat /\ P[i].writers \in Nat
    BY DEF Bufs, PipeBufs
  <2> HIDE DEF b, rs, ws
  <2>5. b.readers >= P[i].readers /\ b.writers >= P[i].writers
    BY <2>2, <2>3, <2>4
  <2> QED
    BY <2>1, <2>5 DEF b
<1> QED
  BY <1>1, <1>2

\* dup2(): the target is closed, and the copy is another end.
LEMMA Dup2Kept ==
  ASSUME TightInv, Dup2
  PROVE  Kept
<1>1. PICK old \in Fds, nw \in Fds :
        LET L == {<<g_current, nw>>}
            T == [close_in(g_tasks, g_pipes, L) EXCEPT ![g_current].fd[nw] = Me.fd[old]]
        IN  Return(T, fd_share(T, fd_unshare(g_tasks, g_pipes, L), L))
  BY DEF Dup2
<1> DEFINE L == {<<g_current, nw>>}
           C == close_in(g_tasks, g_pipes, L)
           Q == fd_unshare(g_tasks, g_pipes, L)
           end == Me.fd[old]
           T == [C EXCEPT ![g_current].fd[nw] = end]
<1>2. /\ g_current \in Pids /\ InUser /\ L \subseteq Held({g_current}) /\ L \subseteq Pids \X Fds
      /\ Well(g_tasks, g_pipes) /\ Tight(g_tasks, g_pipes)
  BY DEF TightInv, WellInv, Dup2, Held
<1>3. Return(T, fd_share(T, Q, L))
  BY <1>1
<1> HIDE DEF L
<1>4. Well(C, Q)
  BY <1>2, CloseWell
<1>5. /\ Tight(C, Q) /\ C[g_current].state = "running" /\ C[g_current].pc = "user"
  BY <1>2, CloseTight
<1>6. C \in Tables /\ Q \in Bufs /\ Lodged(C) /\ C[g_current] \in Tasks
  BY <1>2, <1>4 DEF Well, Tables
<1>7. end \in Ends \cup {Closed}
  BY <1>2 DEF Me, Well, Tables, Tasks
<1> HIDE DEF C, Q, end
<1> DEFINE g == [C[g_current].fd EXCEPT ![nw] = end]
           t == [C[g_current] EXCEPT !.fd = g]
<1>8. T = [C EXCEPT ![g_current] = t]
  BY <1>2, <1>6 DEF Tables
<1>9. g \in [Fds -> Ends \cup {Closed}]
  BY <1>6, <1>7 DEF Tasks
<1> HIDE DEF g
<1>10. t \in Tasks /\ t.state = "running" /\ t.pc = "user"
  BY <1>5, <1>6, <1>9 DEF Tasks
<1> HIDE DEF t
<1>11. T \in Tables /\ T[g_current] = t /\ \A p \in Pids : p # g_current => T[p] = C[p]
  BY <1>2, <1>6, <1>8, <1>10 DEF Tables
<1> HIDE DEF T
<1>12. ASSUME NEW p \in Pids
       PROVE  /\ Follows(C[p], T[p])
              /\ T[p].state = "blocked" => /\ C[p].state = "blocked"
                                           /\ T[p].pc = C[p].pc /\ T[p].on = C[p].on
  BY <1>10, <1>11 DEF Follows
<1>13. Tight(T, fd_share(T, Q, L))
  BY <1>2, <1>5, <1>6, <1>11, <1>12, MoreTight, ShareMore
<1> QED
  BY <1>2, <1>3, <1>10, <1>11, <1>13, ReturnTight DEF Tight

\* fork_user(): the child starts in user mode.
LEMMA ForkKept ==
  ASSUME TightInv, Fork
  PROVE  Kept
<1>1. PICK s \in Pids \ {kPid1} :
        /\ g_tasks[s].state = "free"
        /\ LET T == [g_tasks EXCEPT ![s] = [Free EXCEPT !.state = "ready", !.fd = Me.fd]]
           IN Return(T, fd_share(T, g_pipes, Held({s})))
  BY DEF Fork
<1> DEFINE born == [Free EXCEPT !.state = "ready", !.fd = Me.fd]
           T == [g_tasks EXCEPT ![s] = born]
           L == Held({s})
<1>2. /\ g_tasks \in Tables /\ g_pipes \in Bufs /\ Me \in Tasks /\ Lodged(g_tasks)
      /\ Tight(g_tasks, g_pipes) /\ g_current \in Pids /\ Me = g_tasks[g_current]
      /\ Me.state = "running"
  BY DEF TightInv, WellInv, Well, Tables, Me, Fork, InUser
<1>3. born \in Tasks /\ born.state = "ready" /\ born.pc = "user"
  <2>1. Me.fd \in [Fds -> Ends \cup {Closed}]
    BY <1>2 DEF Tasks
  <2>2. Free \in Tasks /\ Free.pc = "user"
    BY FreeType DEF Free
  <2> QED
    BY <2>1, <2>2 DEF Tasks, States
<1>4. Return(T, fd_share(T, g_pipes, L))
  BY <1>1
<1>5. L \subseteq Pids \X Fds
  BY DEF Held
<1> HIDE DEF born, L
<1>6. T \in Tables /\ T[s] = born /\ \A p \in Pids : p # s => T[p] = g_tasks[p]
  BY <1>2, <1>3 DEF Tables
<1> HIDE DEF T
<1>7. ASSUME NEW p \in Pids
      PROVE  /\ Follows(g_tasks[p], T[p])
             /\ T[p].state = "blocked" => /\ g_tasks[p].state = "blocked"
                                          /\ T[p].pc = g_tasks[p].pc /\ T[p].on = g_tasks[p].on
  BY <1>3, <1>6 DEF Follows
<1>8. Tight(T, fd_share(T, g_pipes, L))
  BY <1>2, <1>5, <1>6, <1>7, MoreTight, ShareMore
<1>9. T[g_current].state # "blocked"
  BY <1>2, <1>3, <1>6
<1> QED
  BY <1>2, <1>4, <1>6, <1>8, <1>9, ReturnTight DEF Tight

\* The same pipes, and one process that ends.
LEMMA OneTight ==
  ASSUME NEW T \in Tables, NEW P \in Bufs, Lodged(T), Tight(T, P), NEW p \in Pids, NEW t \in Tasks,
         t.state \in Dead
  PROVE  LET U == [T EXCEPT ![p] = t]
         IN  U \in Tables /\ U[p] = t /\ Tight(U, P) /\ \A q \in Pids : q # p => U[q] = T[q]
<1> DEFINE U == [T EXCEPT ![p] = t]
<1>1. U \in Tables /\ U[p] = t /\ \A q \in Pids : q # p => U[q] = T[q]
  BY DEF Tables
<1> HIDE DEF U
<1>2. ASSUME NEW q \in Pids
      PROVE  /\ Follows(T[q], U[q])
             /\ U[q].state = "blocked" => /\ T[q].state = "blocked"
                                          /\ U[q].pc = T[q].pc /\ U[q].on = T[q].on
  BY <1>1 DEF Follows, Dead
<1>3. ASSUME NEW i \in Pipes
      PROVE  P[i].readers >= P[i].readers /\ P[i].writers >= P[i].writers
  BY DEF Bufs, PipeBufs
<1>4. Tight(U, P)
  BY <1>2, <1>3, MoreTight
<1> QED
  BY <1>1, <1>4 DEF U

\* exit().
LEMMA ExitKept ==
  ASSUME TightInv, Exit
  PROVE  Kept
<1> DEFINE L == Held({g_current})
           U == close_in(g_tasks, g_pipes, L)
           Q == fd_unshare(g_tasks, g_pipes, L)
           t == [U[g_current] EXCEPT !.state = "zombie"]
           Z == [U EXCEPT ![g_current].state = "zombie"]
<1>1. Switch(Z, Q)
  BY DEF Exit
<1>2. /\ L \subseteq Pids \X Fds /\ \A f \in Fds : <<g_current, f>> \in L
      /\ g_current \in Pids /\ InUser /\ Well(g_tasks, g_pipes) /\ Tight(g_tasks, g_pipes)
  BY DEF TightInv, WellInv, Exit, Held
<1>3. Well(U, Q)
  BY <1>2, CloseWell
<1>4. Tight(U, Q)
  BY <1>2, CloseTight
<1>5. \A f \in Fds : U[g_current].fd[f] = Closed
  <2>1. g_tasks \in Tables /\ g_pipes \in Bufs
    BY <1>2 DEF Well
  <2>2. \A f \in Fds :
          U[g_current].fd[f] = IF <<g_current, f>> \in L THEN Closed ELSE g_tasks[g_current].fd[f]
    BY <1>2, <2>1, CloseEach
  <2> HIDE DEF U, L
  <2> QED
    BY <1>2, <2>2
<1>6. U \in Tables /\ Q \in Bufs /\ Lodged(U) /\ U[g_current] \in Tasks
  BY <1>2, <1>3 DEF Well, Tables
<1> HIDE DEF U, Q, L
<1>7. /\ t \in Tasks /\ t.fd = U[g_current].fd /\ t.pc = U[g_current].pc /\ t.on = U[g_current].on
      /\ t.state = "zombie" /\ t.state \in Dead
  BY <1>6 DEF Tasks, States, Dead
<1>8. Z = [U EXCEPT ![g_current] = t]
  BY <1>6 DEF Tables
<1> HIDE DEF t
<1>9. Z \in Tables /\ Z[g_current] = t /\ Tight(Z, Q) /\ \A p \in Pids : p # g_current => Z[p] = U[p]
  BY <1>2, <1>4, <1>6, <1>7, <1>8, OneTight
<1> HIDE DEF Z
<1>10. Lodged(Z)
  BY <1>3, <1>7, <1>9 DEF Well, Lodged
<1>11. Clean(Z)
  <2>1. \A f \in Fds : Z[g_current].fd[f] = Closed
    BY <1>5, <1>7, <1>9
  <2> QED
    BY <1>3, <1>9, <2>1 DEF Well, Clean
<1>12. Counted(Z, Q)
  <2>1. SameFds(U, Z) /\ SameCounts(Q, Q)
    BY <1>7, <1>9 DEF SameFds, SameCounts
  <2> QED
    BY <1>3, <2>1, CountedSame DEF Well
<1> QED
  BY <1>1, <1>2, <1>6, <1>9, <1>10, <1>11, <1>12, SwitchTight DEF Well

\* kill(): the claim of the killed stays in the pipe, and nobody else has it.
LEMMA KillKept ==
  ASSUME TightInv, Kill
  PROVE  Kept
<1>1. PICK p \in Pids \ {kPid1, g_current} :
        Return([g_tasks EXCEPT ![p].state = "killed"], g_pipes)
  BY DEF Kill
<1> DEFINE t == [g_tasks[p] EXCEPT !.state = "killed"]
           U == [g_tasks EXCEPT ![p] = t]
<1>2. /\ g_tasks \in Tables /\ g_pipes \in Bufs /\ Lodged(g_tasks) /\ g_tasks[p] \in Tasks
      /\ Tight(g_tasks, g_pipes) /\ g_current \in Pids /\ g_tasks[g_current].state = "running"
  BY DEF TightInv, WellInv, Well, Tables, Kill, InUser, Me
<1>3. t \in Tasks /\ t.state \in Dead
  BY <1>2 DEF Tasks, States, Dead
<1>4. Return(U, g_pipes)
  BY <1>1, <1>2 DEF Tables
<1> HIDE DEF t
<1>5. U \in Tables /\ Tight(U, g_pipes) /\ \A q \in Pids : q # p => U[q] = g_tasks[q]
  BY <1>2, <1>3, OneTight
<1> HIDE DEF U
<1> QED
  BY <1>1, <1>2, <1>4, <1>5, ReturnTight DEF Tight

\* A caught signal: the sleeper looks again.
LEMMA SignalKept ==
  ASSUME TightInv, Signal
  PROVE  Kept
<1>1. PICK p \in Pids : Return(Wake(g_tasks, {p}), g_pipes)
  BY DEF Signal
<1>2. /\ g_tasks \in Tables /\ Tight(g_tasks, g_pipes) /\ g_current \in Pids
      /\ g_tasks[g_current].state = "running"
  BY DEF TightInv, WellInv, Well, Signal, InUser, Me
<1>3. Tight(Wake(g_tasks, {p}), g_pipes)
  BY <1>2, WakeTight DEF Tight, Claims
<1>4. Wake(g_tasks, {p}) \in Tables /\ Wake(g_tasks, {p})[g_current].state # "blocked"
  BY <1>2, WakeEach DEF Woken
<1> QED
  BY <1>1, <1>2, <1>3, <1>4, ReturnTight DEF Tight

\* A slot that pipe() may take has nobody inside.
LEMMA SlotEmpty ==
  ASSUME WellInv, Holding(g_tasks), NEW i \in Pipes, ~g_pipes[i].open,
         NEW p \in Pids, NEW where \in {"rd", "wr"}, In(g_tasks[p], where, i)
  PROVE  FALSE
<1>1. PICK f \in Fds : g_tasks[p].fd[f] # Closed /\ g_tasks[p].fd[f].pipe = i
  BY DEF Holding, Holds
<1> DEFINE end == g_tasks[p].fd[f]
<1>2. end \in Ends
  BY <1>1, EndOfPipe DEF WellInv, Well
<1>3. end = [pipe |-> i, write |-> end.write] /\ end.write \in BOOLEAN
  BY <1>1, <1>2 DEF Ends
<1>4. <<p, f>> \in Holders(g_tasks, i, end.write)
  BY <1>3 DEF Holders, Among
<1>5. Holders(g_tasks, i, FALSE) \cup Holders(g_tasks, i, TRUE) = {}
  BY DEF WellInv, Well, Counted
<1> HIDE DEF end
<1> QED
  BY <1>3, <1>4, <1>5

\* pipe().
LEMMA MakeKept ==
  ASSUME TightInv, MakePipe
  PROVE  Kept
<1> DEFINE fresh == [Shut EXCEPT !.open = TRUE, !.readers = 1, !.writers = 1]
           free == {f \in Fds : Me.fd[f] = Closed}
           r == Min(free)
           w == Min(free \ {r})
<1>1. PICK i \in Pipes :
        /\ ~g_pipes[i].open
        /\ LET P == [g_pipes EXCEPT ![i] = fresh]
           IN \/ Return(g_tasks, P)
              \/ Return([g_tasks EXCEPT ![g_current].fd[r] = [pipe |-> i, write |-> FALSE],
                                        ![g_current].fd[w] = [pipe |-> i, write |-> TRUE]], P)
  BY DEF MakePipe
<1> DEFINE P == [g_pipes EXCEPT ![i] = fresh]
           er == [pipe |-> i, write |-> FALSE]
           ew == [pipe |-> i, write |-> TRUE]
           T == [g_tasks EXCEPT ![g_current].fd[r] = er, ![g_current].fd[w] = ew]
<1>2. /\ g_tasks \in Tables /\ g_pipes \in Bufs /\ Lodged(g_tasks) /\ Tight(g_tasks, g_pipes)
      /\ Me \in Tasks /\ Me = g_tasks[g_current] /\ g_current \in Pids
      /\ Me.state = "running" /\ Me.pc = "user"
  BY DEF TightInv, WellInv, Well, Tables, Me, MakePipe, InUser
<1>3. fresh \in PipeBufs
  BY FreeType DEF PipeBufs, Shut
<1>4. Return(g_tasks, P) \/ Return(T, P)
  BY <1>1
<1>5. er \in Ends \cup {Closed} /\ ew \in Ends \cup {Closed}
  BY DEF Ends
<1> HIDE DEF fresh, r, w, er, ew
<1>6. P \in Bufs /\ \A j \in Pipes : j # i => P[j] = g_pipes[j]
  BY <1>2, <1>3 DEF Bufs
<1> HIDE DEF P
<1>7. Tight(g_tasks, P)
  <2> SUFFICES ASSUME NEW p \in Pids, g_tasks[p].state = "blocked"
               PROVE  Claim(p, g_tasks[p], P[g_tasks[p].on])
    BY <1>2 DEF Tight, Claims, Claim
  <2>1. Claim(p, g_tasks[p], g_pipes[g_tasks[p].on])
    BY <1>2 DEF Tight, Claims
  <2>2. g_tasks[p].on \in Pipes /\ g_tasks[p].pc \in {"rd", "wr"}
    BY <1>2, <2>1 DEF Claim, Lodged, Tables, Tasks
  <2>3. g_tasks[p].on # i
    <3> SUFFICES ASSUME g_tasks[p].on = i PROVE FALSE
      OBVIOUS
    <3>1. In(g_tasks[p], g_tasks[p].pc, i)
      BY DEF In, Dead
    <3> QED
      BY <1>1, <1>2, <2>2, <3>1, SlotEmpty DEF TightInv, Tight
  <2> QED
    BY <1>6, <2>1, <2>2, <2>3
<1>8. CASE Return(g_tasks, P)
  BY <1>2, <1>7, <1>8, ReturnTight DEF Tight
<1>9. CASE Return(T, P)
  <2> DEFINE g == [[Me.fd EXCEPT ![r] = er] EXCEPT ![w] = ew]
             t == [Me EXCEPT !.fd = g]
  <2>1. g \in [Fds -> Ends \cup {Closed}]
    <3>1. Me.fd \in [Fds -> Ends \cup {Closed}]
      BY <1>2 DEF Tasks
    <3> QED
      BY <1>5, <3>1
  <2>2. T = [g_tasks EXCEPT ![g_current] = t]
    BY <1>2 DEF Tables, Tasks
  <2> HIDE DEF g
  <2>3. t \in Tasks /\ t.state = "running" /\ t.pc = "user"
    BY <1>2, <2>1 DEF Tasks
  <2> HIDE DEF t
  <2>4. T \in Tables /\ T[g_current] = t /\ \A p \in Pids : p # g_current => T[p] = g_tasks[p]
    BY <1>2, <2>2, <2>3 DEF Tables
  <2> HIDE DEF T
  <2>5. ASSUME NEW p \in Pids
        PROVE  /\ Follows(g_tasks[p], T[p])
               /\ T[p].state = "blocked" => /\ g_tasks[p].state = "blocked"
                                            /\ T[p].pc = g_tasks[p].pc /\ T[p].on = g_tasks[p].on
    BY <2>3, <2>4 DEF Follows
  <2>6. \A j \in Pipes : P[j].readers >= P[j].readers /\ P[j].writers >= P[j].writers
    BY <1>6 DEF Bufs, PipeBufs
  <2>7. Tight(T, P)
    BY <1>2, <1>6, <1>7, <2>5, <2>6, MoreTight
  <2> QED
    BY <1>2, <1>9, <2>3, <2>4, <2>7, ReturnTight DEF Tight
<1> QED
  BY <1>4, <1>8, <1>9

\* read() and write(), with room for one process in either.
LEMMA CallKept ==
  ASSUME Crowd = 1, TightInv, Read \/ Write
  PROVE  Kept
<1>1. /\ g_tasks \in Tables /\ Me = g_tasks[g_current] /\ g_current \in Pids
      /\ Well(g_tasks, g_pipes) /\ Tight(g_tasks, g_pipes) /\ g_tasks[g_current].state = "running"
  BY DEF TightInv, WellInv, Well, Me, Read, Write, InUser
<1>2. ASSUME NEW f \in Fds, Me.fd[f] # Closed
      PROVE  Me.fd[f].pipe \in Pipes /\ Holds(g_tasks[g_current], Me.fd[f].pipe)
  BY <1>1, <1>2, EndOfPipe DEF Holds
<1>3. ASSUME NEW where, NEW i, Cardinality(Inside(where, i)) < Crowd
      PROVE  \A q \in Pids : In(g_tasks[q], where, i) => q = g_current
  <2>1. IsFiniteSet(Pids) /\ Inside(where, i) \in SUBSET Pids
    BY FS_Interval, PipeAssumption DEF Pids, Inside
  <2>2. IsFiniteSet(Inside(where, i)) /\ Cardinality(Inside(where, i)) \in Nat
    BY <2>1, FS_Subset, FS_CardinalityType
  <2> DEFINE num == Cardinality(Inside(where, i))
  <2>3. num = 0
    <3>1. num \in Nat /\ num < 1
      BY <1>3, <2>2
    <3> HIDE DEF num
    <3> QED
      BY <3>1
  <2>4. Inside(where, i) = {}
    BY <2>2, <2>3, FS_EmptySet
  <2> QED
    BY <2>4 DEF Inside, In
<1>4. CASE Read
  <2>1. PICK f \in Fds : /\ Me.fd[f] # Closed
                         /\ Cardinality(Inside("rd", Me.fd[f].pipe)) < Crowd
                         /\ pipe_rd(g_tasks, g_pipes, Me.fd[f].pipe)
    BY <1>4 DEF Read
  <2> QED
    BY <1>1, <1>2, <1>3, <2>1, RdTight
<1>5. CASE Write
  <2>1. PICK f \in Fds, len \in 1 .. MaxLen :
          /\ Me.fd[f] # Closed
          /\ Cardinality(Inside("wr", Me.fd[f].pipe)) < Crowd
          /\ pipe_wr(g_tasks, g_pipes, Me.fd[f].pipe, len)
    BY <1>5 DEF Write
  <2>2. len \in 0 .. MaxLen
    BY PipeAssumption
  <2> QED
    BY <1>1, <1>2, <1>3, <2>1, <2>2, WrTight
<1> QED
  BY <1>4, <1>5

\* Back from block_on(): the slot that is emptied was this process's own.
LEMMA ResumeKept ==
  ASSUME TightInv, Resume
  PROVE  Kept
<1> DEFINE i == Me.on
<1>1. /\ Me = g_tasks[g_current] /\ g_current \in Pids /\ Me.len \in 0 .. MaxLen
      /\ Well(g_tasks, g_pipes) /\ Tight(g_tasks, g_pipes) /\ g_tasks[g_current].state = "running"
      /\ g_tasks \in Tables /\ g_pipes \in Bufs /\ Lodged(g_tasks)
  BY DEF TightInv, WellInv, Well, Me, Resume, Tables, Tasks
<1>2. ASSUME NEW where \in {"rd", "wr"}, Me.pc = where
      PROVE  /\ i \in Pipes /\ Holds(g_tasks[g_current], i)
             /\ \A q \in Pids : In(g_tasks[q], where, i) => q = g_current
  <2>1. i \in Pipes
    BY <1>1, <1>2 DEF Lodged
  <2>2. In(g_tasks[g_current], where, i)
    BY <1>1, <1>2 DEF In, Dead
  <2> HIDE DEF i
  <2> QED
    BY <1>1, <2>1, <2>2 DEF Tight, Alone, Holding
<1>3. ASSUME NEW where \in {"rd", "wr"}, i \in Pipes, NEW b \in PipeBufs,
             b.open = g_pipes[i].open, b.readers = g_pipes[i].readers,
             b.writers = g_pipes[i].writers, b.n = g_pipes[i].n,
             where # "rd" => b.rd_wait = g_pipes[i].rd_wait,
             where # "wr" => b.wr_wait = g_pipes[i].wr_wait,
             \A q \in Pids : In(g_tasks[q], where, i) => q = g_current
      PROVE  Well(g_tasks, [g_pipes EXCEPT ![i] = b]) /\ Tight(g_tasks, [g_pipes EXCEPT ![i] = b])
  <2> DEFINE Q == [g_pipes EXCEPT ![i] = b]
  <2> HIDE DEF i
  <2>1. Well(g_tasks, Q)
    BY <1>1, <1>3, BufWell
  <2>2. Q[i] = b /\ \A j \in Pipes : j # i => Q[j] = g_pipes[j]
    BY <1>1, <1>3 DEF Bufs
  <2> HIDE DEF Q
  <2>3. ASSUME NEW p \in Pids, g_tasks[p].state = "blocked"
        PROVE  Claim(p, g_tasks[p], Q[g_tasks[p].on])
    <3>1. Claim(p, g_tasks[p], g_pipes[g_tasks[p].on])
      BY <1>1 DEF Tight, Claims
    <3>2. g_tasks[p].on \in Pipes /\ g_tasks[p].pc \in {"rd", "wr"}
      BY <1>1, <2>3, <3>1 DEF Claim, Lodged, Tables, Tasks
    <3>3. CASE g_tasks[p].on = i
      <4>1. g_tasks[p].pc # where
        BY <1>1, <1>3, <2>3, <3>3 DEF In, Dead
      <4> QED
        BY <1>3, <2>2, <3>1, <3>3, <4>1 DEF Claim
    <3>4. CASE g_tasks[p].on # i
      BY <2>2, <3>1, <3>2, <3>4
    <3> QED
      BY <3>3, <3>4
  <2>4. Claims(g_tasks, Q)
    BY <2>3 DEF Claims, Claim
  <2> QED
    BY <1>1, <2>1, <2>4 DEF Tight, Q
<1>4. CASE /\ Me.pc = "rd"
           /\ pipe_rd(g_tasks, [g_pipes EXCEPT ![i].rd_wait = 0], i)
  <2> DEFINE b == [g_pipes[i] EXCEPT !.rd_wait = 0]
  <2>1. /\ i \in Pipes /\ Holds(g_tasks[g_current], i)
        /\ \A q \in Pids : In(g_tasks[q], "rd", i) => q = g_current
    BY <1>2, <1>4
  <2>2. g_pipes[i] \in PipeBufs /\ 0 \in 0 .. kMaxTask
    BY <1>1, <2>1, PipeAssumption DEF Bufs
  <2> HIDE DEF i
  <2>3. /\ b \in PipeBufs /\ b.open = g_pipes[i].open /\ b.readers = g_pipes[i].readers
        /\ b.writers = g_pipes[i].writers /\ b.n = g_pipes[i].n /\ b.wr_wait = g_pipes[i].wr_wait
    BY <2>2 DEF PipeBufs
  <2>4. pipe_rd(g_tasks, [g_pipes EXCEPT ![i] = b], i)
    BY <1>1, <1>4, <2>1 DEF Bufs
  <2> HIDE DEF b
  <2>5. Well(g_tasks, [g_pipes EXCEPT ![i] = b]) /\ Tight(g_tasks, [g_pipes EXCEPT ![i] = b])
    BY <1>3, <2>1, <2>3
  <2> QED
    BY <1>1, <2>1, <2>4, <2>5, RdTight
<1>5. CASE /\ Me.pc = "wr"
           /\ pipe_wr(g_tasks, [g_pipes EXCEPT ![i].wr_wait = 0], i, Me.len)
  <2> DEFINE b == [g_pipes[i] EXCEPT !.wr_wait = 0]
  <2>1. /\ i \in Pipes /\ Holds(g_tasks[g_current], i)
        /\ \A q \in Pids : In(g_tasks[q], "wr", i) => q = g_current
    BY <1>2, <1>5
  <2>2. g_pipes[i] \in PipeBufs /\ 0 \in 0 .. kMaxTask
    BY <1>1, <2>1, PipeAssumption DEF Bufs
  <2> HIDE DEF i
  <2>3. /\ b \in PipeBufs /\ b.open = g_pipes[i].open /\ b.readers = g_pipes[i].readers
        /\ b.writers = g_pipes[i].writers /\ b.n = g_pipes[i].n /\ b.rd_wait = g_pipes[i].rd_wait
    BY <2>2 DEF PipeBufs
  <2>4. pipe_wr(g_tasks, [g_pipes EXCEPT ![i] = b], i, Me.len)
    BY <1>1, <1>5, <2>1 DEF Bufs
  <2> HIDE DEF b
  <2>5. Well(g_tasks, [g_pipes EXCEPT ![i] = b]) /\ Tight(g_tasks, [g_pipes EXCEPT ![i] = b])
    BY <1>3, <2>1, <2>3
  <2> QED
    BY <1>1, <2>1, <2>4, <2>5, WrTight
<1> QED
  BY <1>4, <1>5 DEF Resume

\* Every call keeps the invariant.
LEMMA NextTight ==
  ASSUME Crowd = 1, TightInv, [Next]_vars
  PROVE  TightInv'
<1>1. WellInv'
  BY NextWell DEF TightInv
<1>2. CASE Next
  <2>1. ASSUME Preempt PROVE Kept
    BY <2>1, SwitchTight DEF Preempt, TightInv, WellInv
  <2>2. Kept
    BY <1>2, <2>1, CallKept, ResumeKept, MakeKept, CloseKept, Dup2Kept, ForkKept, ExitKept,
       KillKept, SignalKept DEF Next
  <2> QED
    BY <1>1, <2>2 DEF Kept, TightInv
<1>3. CASE UNCHANGED vars
  <2>1. g_tasks' = g_tasks /\ g_pipes' = g_pipes
    BY <1>3 DEF vars
  <2>2. Tight(g_tasks', g_pipes')
    BY <2>1 DEF TightInv
  <2> QED
    BY <1>1, <2>2 DEF TightInv
<1> QED
  BY <1>2, <1>3

\* With one process at a time in a read and one in a write of a pipe, as in a
\* pipeline of the shell, nobody is left parked in a call that could go on.
THEOREM NoLostWakeupAlways == ASSUME Crowd = 1 PROVE Spec => []NoLostWakeup
<1>1. Init => TightInv
  <2> SUFFICES ASSUME Init PROVE TightInv
    OBVIOUS
  <2>1. \A p \in Pids : g_tasks[p].pc = "user" /\ g_tasks[p].state # "blocked"
    <3>1. Free \in Tasks /\ Free.pc = "user" /\ Free.state = "free"
      BY FreeType DEF Free
    <3> QED
      BY <3>1 DEF Init, Tasks
  <2> QED
    BY <2>1, InitWell DEF TightInv, Tight, Claims, Claim, Alone, Holding, In
<1>2. TightInv /\ [Next]_vars => TightInv'
  BY NextTight
<1>3. TightInv => NoLostWakeup
  <2> SUFFICES ASSUME TightInv, NEW p \in Pids
               PROVE  LET t == g_tasks[p]
                          b == g_pipes[t.on]
                      IN t.state = "blocked" =>
                           /\ t.pc = "rd" => b.n = 0 /\ b.writers > 0
                           /\ t.pc = "wr" => b.n = kPipeBytes /\ b.readers > 0
    BY DEF NoLostWakeup
  <2>1. Claim(p, g_tasks[p], g_pipes[g_tasks[p].on])
    BY DEF TightInv, Tight, Claims
  <2> QED
    BY <2>1 DEF Claim
<1> QED
  BY <1>1, <1>2, <1>3, PTL DEF Spec

-----------------------------------------------------------------------------
(* The ring of one pipe                                                    *)

Wrap(a) == IF a < kPipeBytes THEN a ELSE a - kPipeBytes
Twice == 0 .. 2 * kPipeBytes - 1

\* An index that has run at most once past the end of the ring is folded back.
LEMMA Fold == \A a \in Twice : a % kPipeBytes = Wrap(a)
<1> SUFFICES ASSUME NEW a \in Twice PROVE a % kPipeBytes = Wrap(a)
  OBVIOUS
<1>1. CASE a < kPipeBytes
  BY <1>1, RingAssumption DEF Twice, Wrap
<1>2. CASE ~(a < kPipeBytes)
  BY <1>2, RingAssumption DEF Twice, Wrap
<1>3. QED BY <1>1, <1>2

\* The distance from h to c going round the ring, when both are already folded.
LEMMA Distance ==
  ASSUME NEW t \in Cells, NEW m \in 0 .. kPipeBytes, NEW k \in 1 .. kPipeBytes,
         NEW h, h = Wrap(t + m),
         NEW c, c = Wrap(t + k - 1)
  PROVE  /\ h \in Cells
         /\ c \in Cells
         /\ (c + kPipeBytes - h) % kPipeBytes = IF k > m THEN k - 1 - m
                                                ELSE kPipeBytes + k - 1 - m
<1>1. h \in Cells /\ c \in Cells
  BY RingAssumption DEF Wrap, Cells
<1>2. (c + kPipeBytes - h) % kPipeBytes = Wrap(c + kPipeBytes - h)
  <2>1. c + kPipeBytes - h \in Twice
    BY <1>1, RingAssumption DEF Twice, Cells
  <2>2. QED BY <2>1, Fold, Zenon
<1>3. Wrap(c + kPipeBytes - h) = IF k > m THEN k - 1 - m ELSE kPipeBytes + k - 1 - m
  BY RingAssumption DEF Wrap, Cells
<1>4. QED BY <1>1, <1>2, <1>3

\* Where the k-th unread byte sits, and how far that is ahead of `head': cells
\* pipe_wr is about to fill come first, cells pipe_rd has yet to empty last.
LEMMA CellOf ==
  ASSUME NEW t \in Cells, NEW m \in 0 .. kPipeBytes, NEW k \in 1 .. kPipeBytes,
         NEW h, h = (t + m) % kPipeBytes,
         NEW c, c = (t + k - 1) % kPipeBytes
  PROVE  /\ h \in Cells
         /\ c \in Cells
         /\ (c + kPipeBytes - h) % kPipeBytes = IF k > m THEN k - 1 - m
                                                ELSE kPipeBytes + k - 1 - m
<1>1. h = Wrap(t + m)
  <2>1. t + m \in Twice
    BY RingAssumption DEF Twice, Cells
  <2>2. QED BY <2>1, Fold, Zenon
<1>2. c = Wrap(t + k - 1)
  <2>1. t + k - 1 \in Twice
    BY RingAssumption DEF Twice, Cells
  <2>2. QED BY <2>1, Fold, Zenon
<1>3. QED BY <1>1, <1>2, Distance

\* The inductive invariant: the ring also holds bytes.
BufOK == buf \in [Cells -> Bytes \cup {NoByte}]
RingInv == RingOK /\ BufOK

\* A pipe that pipe() has just cleared.
LEMMA InitRing == RingInit => RingInv
  BY RingAssumption DEF RingInit, RingInv, RingOK, BufOK, Cells

\* The amount a call of pipe_wr or pipe_rd moves is within bounds.
LEMMA LeastIn ==
  ASSUME NEW a \in Nat, NEW b \in Nat
  PROVE  Least(a, b) \in 0 .. b /\ Least(a, b) <= a
  BY DEF Least

\* Advancing head by what was put in is advancing the end of the unread bytes.
LEMMA HeadMoves ==
  ASSUME RingOK, NEW put \in 0 .. kPipeBytes - n
  PROVE  /\ (head + put) % kPipeBytes = (tail + (n + put)) % kPipeBytes
         /\ (head + put) % kPipeBytes \in Cells
<1>1. head \in Cells /\ tail \in Cells /\ n \in 0 .. kPipeBytes
  BY DEF RingOK
<1>2. head = Wrap(tail + n)
  <2>1. tail + n \in Twice
    BY <1>1, RingAssumption DEF Twice, Cells
  <2>2. (tail + n) % kPipeBytes = Wrap(tail + n)
    BY <2>1, Fold, Zenon
  <2>3. head = (tail + n) % kPipeBytes
    BY DEF RingOK
  <2>4. QED BY <2>2, <2>3, Zenon
<1>3. (head + put) % kPipeBytes = Wrap(head + put)
  <2>1. head + put \in Twice
    BY <1>1, RingAssumption DEF Twice, Cells
  <2>2. QED BY <2>1, Fold, Zenon
<1>4. (tail + (n + put)) % kPipeBytes = Wrap(tail + (n + put))
  <2>1. tail + (n + put) \in Twice
    BY <1>1, RingAssumption DEF Twice, Cells
  <2>2. QED BY <2>1, Fold, Zenon
<1>5. Wrap(head + put) = Wrap(tail + (n + put)) /\ Wrap(head + put) \in Cells
  BY <1>1, <1>2, RingAssumption DEF Wrap, Cells
<1>6. QED BY <1>3, <1>4, <1>5

\* Advancing tail by what was taken leaves the end of the unread bytes where it is.
LEMMA TailMoves ==
  ASSUME RingOK, NEW got \in 0 .. n
  PROVE  /\ (tail + got) % kPipeBytes = Wrap(tail + got)
         /\ (tail + got) % kPipeBytes \in Cells
         /\ head = (((tail + got) % kPipeBytes) + (n - got)) % kPipeBytes
<1>1. head \in Cells /\ tail \in Cells /\ n \in 0 .. kPipeBytes
  BY DEF RingOK
<1>2. head = Wrap(tail + n)
  <2>1. tail + n \in Twice
    BY <1>1, RingAssumption DEF Twice, Cells
  <2>2. (tail + n) % kPipeBytes = Wrap(tail + n)
    BY <2>1, Fold, Zenon
  <2>3. head = (tail + n) % kPipeBytes
    BY DEF RingOK
  <2>4. QED BY <2>2, <2>3, Zenon
<1>3. (tail + got) % kPipeBytes = Wrap(tail + got)
  <2>1. tail + got \in Twice
    BY <1>1, RingAssumption DEF Twice, Cells
  <2>2. QED BY <2>1, Fold, Zenon
<1>4. Wrap(tail + got) \in Cells
  BY <1>1, RingAssumption DEF Wrap, Cells
<1>5. (Wrap(tail + got) + (n - got)) % kPipeBytes = Wrap(Wrap(tail + got) + (n - got))
  <2>1. Wrap(tail + got) + (n - got) \in Twice
    BY <1>1, <1>4, RingAssumption DEF Twice, Cells
  <2>2. QED BY <2>1, Fold, Zenon
<1>6. head = Wrap(Wrap(tail + got) + (n - got))
  BY <1>1, <1>2, RingAssumption DEF Wrap, Cells
<1>7. QED BY <1>3, <1>4, <1>5, <1>6, Zenon

\* A write moves head and n by the same amount and overruns nothing.
LEMMA WriteRing == RingInv /\ RingWrite => RingInv'
<1> SUFFICES ASSUME RingInv, RingWrite PROVE RingInv'
  OBVIOUS
<1>0. PICK len \in 1 .. MaxLen : \E s \in [1 .. len -> Bytes] :
        /\ buf' = Store(s, Least(len, Room))
        /\ head' = (head + Least(len, Room)) % kPipeBytes
        /\ n' = n + Least(len, Room)
        /\ UNCHANGED <<tail, out>>
  BY DEF RingWrite
<1>1. PICK s \in [1 .. len -> Bytes] :
        /\ buf' = Store(s, Least(len, Room))
        /\ head' = (head + Least(len, Room)) % kPipeBytes
        /\ n' = n + Least(len, Room)
        /\ UNCHANGED <<tail, out>>
  BY <1>0
<1>2. PICK put : put = Least(len, Room)
  OBVIOUS
<1>3. put \in 0 .. kPipeBytes - n /\ put <= len
  <2>1. len \in Nat /\ Room \in Nat /\ Room = kPipeBytes - n
    BY RingAssumption DEF RingInv, RingOK, Room
  <2>2. QED BY <1>2, <2>1, LeastIn
<1>4. n' \in 0 .. kPipeBytes
  BY <1>1, <1>2, <1>3, RingAssumption DEF RingInv, RingOK
<1>5. head' = (tail' + n') % kPipeBytes /\ head' \in Cells
  BY <1>1, <1>2, <1>3, HeadMoves, Zenon DEF RingInv
<1>6. BufOK'
  <2>1. \A c \in Cells : (c + kPipeBytes - head) % kPipeBytes \in Nat
    BY RingAssumption DEF Cells, RingInv, RingOK
  <2>2. \A c \in Cells : (c + kPipeBytes - head) % kPipeBytes < put
            => s[((c + kPipeBytes - head) % kPipeBytes) + 1] \in Bytes
    <3> SUFFICES ASSUME NEW k \in Nat, k < put PROVE s[k + 1] \in Bytes
      BY <2>1
    <3>1. k + 1 \in 1 .. len
      BY <1>3, RingAssumption DEF RingInv, RingOK
    <3>2. QED BY <3>1
  <2>3. QED BY <1>1, <1>2, <2>2 DEF BufOK, Store, RingInv
<1>7. QED BY <1>1, <1>4, <1>5, <1>6 DEF RingInv, RingOK

\* A read moves tail and n towards each other and leaves the bytes alone.
LEMMA ReadRing == RingInv /\ RingRead => RingInv'
<1> SUFFICES ASSUME RingInv, RingRead PROVE RingInv'
  OBVIOUS
<1>1. PICK len \in 0 .. MaxLen :
        /\ tail' = (tail + Least(len, n)) % kPipeBytes
        /\ n' = n - Least(len, n)
        /\ UNCHANGED <<buf, head>>
  BY DEF RingRead
<1>2. PICK got : got = Least(len, n)
  OBVIOUS
<1>3. got \in 0 .. n
  BY <1>2, LeastIn, RingAssumption DEF RingInv, RingOK
<1>4. /\ (tail + got) % kPipeBytes \in Cells
      /\ head = (((tail + got) % kPipeBytes) + (n - got)) % kPipeBytes
  BY <1>3, TailMoves DEF RingInv
<1>5. n' \in 0 .. kPipeBytes
  BY <1>1, <1>2, <1>3, RingAssumption DEF RingInv, RingOK
<1>6. head' = (tail' + n') % kPipeBytes /\ tail' \in Cells
  BY <1>1, <1>2, <1>4, Zenon
<1>7. QED BY <1>1, <1>5, <1>6 DEF RingInv, RingOK, BufOK

\* Every call of pipe_wr and pipe_rd keeps the invariant.
LEMMA RingStep == RingInv /\ [RingNext]_ringVars => RingInv'
<1> SUFFICES ASSUME RingInv, [RingNext]_ringVars PROVE RingInv'
  OBVIOUS
<1>1. CASE RingWrite BY <1>1, WriteRing
<1>2. CASE RingRead BY <1>2, ReadRing
<1>3. CASE UNCHANGED ringVars BY <1>3 DEF ringVars, RingInv, RingOK, BufOK
<1>4. QED BY <1>1, <1>2, <1>3 DEF RingNext

\* The counters of pipebuf agree in every reachable state, whatever the sizes.
THEOREM RingAlways == RingSpec => []RingOK
<1>1. RingInv => RingOK
  BY DEF RingInv
<1>2. QED BY InitRing, RingStep, <1>1, PTL DEF RingSpec

-----------------------------------------------------------------------------
(* The ring is a queue                                                     *)

\* What the ring may hold, bytes nobody wrote yet included.
Content == Bytes \cup {NoByte}

\* A function on 1 .. m is a sequence of length m.
LEMMA FcnSeq ==
  ASSUME NEW S, NEW m \in Nat, NEW f \in [1 .. m -> S]
  PROVE  f \in Seq(S) /\ Len(f) = m
  BY SeqDef

SeqOK ==
  /\ Contents \in Seq(Content)
  /\ Len(Contents) = n
  /\ \A k \in 1 .. n : Contents[k] = buf[(tail + k - 1) % kPipeBytes]

\* The unread bytes are a sequence of n bytes.
LEMMA ContentsSeq == RingInv => SeqOK
<1> SUFFICES ASSUME RingInv PROVE SeqOK
  OBVIOUS
<1>1. n \in Nat
  BY DEF RingInv, RingOK
<1>2. \A k \in 1 .. n : (tail + k - 1) % kPipeBytes \in Cells
  BY RingAssumption DEF RingInv, RingOK, Cells
<1>3. Contents \in [1 .. n -> Content]
  BY <1>2 DEF Contents, RingInv, BufOK, Content
<1>4. QED BY <1>1, <1>3, FcnSeq DEF Contents, SeqOK

\* What pipe_wr stores is found behind the bytes that were there, in order.
LEMMA StoreAppends ==
  ASSUME RingInv,
         NEW len \in Nat, NEW s \in [1 .. len -> Bytes],
         NEW put \in 0 .. kPipeBytes - n, put <= len,
         NEW k \in 1 .. n + put
  PROVE  Store(s, put)[(tail + k - 1) % kPipeBytes]
           = IF k <= n THEN buf[(tail + k - 1) % kPipeBytes] ELSE s[k - n]
<1>1. PICK c : c = (tail + k - 1) % kPipeBytes
  OBVIOUS
<1>2. tail \in Cells /\ n \in 0 .. kPipeBytes /\ head = (tail + n) % kPipeBytes
  BY DEF RingInv, RingOK
<1>3. k \in 1 .. kPipeBytes
  BY <1>2, RingAssumption
<1>4. /\ c \in Cells
      /\ (c + kPipeBytes - head) % kPipeBytes = IF k > n THEN k - 1 - n
                                               ELSE kPipeBytes + k - 1 - n
  BY <1>1, <1>2, <1>3, CellOf
<1>5. PICK d : d = (c + kPipeBytes - head) % kPipeBytes
  OBVIOUS
<1>6. Store(s, put)[c] = IF d < put THEN s[d + 1] ELSE buf[c]
  BY <1>4, <1>5 DEF Store
<1>7. d = IF k > n THEN k - 1 - n ELSE kPipeBytes + k - 1 - n
  BY <1>4, <1>5
<1>8. CASE k <= n
  <2>1. ~(d < put)
    BY <1>2, <1>7, <1>8, RingAssumption
  <2>2. QED BY <1>1, <1>6, <1>8, <2>1
<1>9. CASE ~(k <= n)
  <2>1. d < put /\ d + 1 = k - n
    BY <1>2, <1>7, <1>9, RingAssumption
  <2>2. QED BY <1>1, <1>6, <1>9, <2>1
<1>10. QED BY <1>8, <1>9

\* A call of pipe_wr appends what fits.
LEMMA WritePuts == RingInv /\ RingInv' /\ RingWrite => F!Put
<1> SUFFICES ASSUME RingInv, RingInv', RingWrite PROVE F!Put
  OBVIOUS
<1>0. PICK len \in 1 .. MaxLen : \E s \in [1 .. len -> Bytes] :
        /\ buf' = Store(s, Least(len, Room))
        /\ n' = n + Least(len, Room)
        /\ UNCHANGED <<tail, out>>
  BY DEF RingWrite
<1>1. PICK s \in [1 .. len -> Bytes] :
        /\ buf' = Store(s, Least(len, Room))
        /\ n' = n + Least(len, Room)
        /\ UNCHANGED <<tail, out>>
  BY <1>0
<1>2. PICK put : put = Least(len, Room)
  OBVIOUS
<1>3. n \in 0 .. kPipeBytes /\ len \in Nat
  BY RingAssumption DEF RingInv, RingOK
<1>4. put \in 0 .. kPipeBytes - n /\ put <= len
  <2>1. Room \in Nat /\ Room = kPipeBytes - n
    BY <1>3, RingAssumption DEF Room
  <2>2. QED BY <1>2, <1>3, <2>1, LeastIn
<1> DEFINE t == [k \in 1 .. put |-> s[k]]
<1>5. t \in [1 .. put -> Bytes]
  BY <1>3, <1>4
<1>6. /\ t \in Seq(Content) /\ Len(t) = put
      /\ Contents \in Seq(Content) /\ Len(Contents) = n
  <2>1. t \in [1 .. put -> Content]
    BY <1>5 DEF Content
  <2>2. put \in Nat
    BY <1>3, <1>4
  <2>3. QED BY <2>1, <2>2, FcnSeq, ContentsSeq DEF SeqOK
<1> HIDE DEF t
<1>7. /\ Contents' \in Seq(Content)
      /\ Len(Contents') = n + put
      /\ \A k \in 1 .. n + put : Contents'[k] = buf'[(tail + k - 1) % kPipeBytes]
  <2>1. SeqOK'
    BY ContentsSeq, PTL
  <2>2. QED BY <2>1, <1>1, <1>2 DEF SeqOK, Content
<1>8. \A k \in 1 .. n + put : Contents'[k] = (Contents \o t)[k]
  <2> SUFFICES ASSUME NEW k \in 1 .. n + put PROVE Contents'[k] = (Contents \o t)[k]
    OBVIOUS
  <2>1. (Contents \o t)[k] = IF k <= n THEN Contents[k] ELSE t[k - n]
    BY <1>6, ConcatProperties
  <2>2. Contents'[k] = IF k <= n THEN buf[(tail + k - 1) % kPipeBytes] ELSE s[k - n]
    BY <1>1, <1>2, <1>3, <1>4, <1>7, StoreAppends
  <2>3. k <= n => Contents[k] = buf[(tail + k - 1) % kPipeBytes]
    BY <1>3, <1>4, ContentsSeq DEF SeqOK
  <2>4. ~(k <= n) => t[k - n] = s[k - n]
    BY <1>3, <1>4 DEF t
  <2>5. QED BY <2>1, <2>2, <2>3, <2>4
<1>9. Contents' = Contents \o t
  <2>1. Contents \o t \in Seq(Content) /\ Len(Contents \o t) = n + put
    BY <1>6, ConcatProperties
  <2>2. QED BY <1>7, <1>8, <2>1, SeqEqual
<1>10. put \in 0 .. kPipeBytes - Len(Contents)
  BY <1>4, <1>6
<1>11. \E k \in 0 .. kPipeBytes - Len(Contents) : \E u \in [1 .. k -> Bytes] :
         Contents' = Contents \o u
  BY <1>5, <1>9, <1>10, Zenon
<1>12. QED BY <1>1, <1>11 DEF F!Put

\* A call of pipe_rd hands out the front and leaves the rest.
LEMMA ReadTakes == RingInv /\ RingInv' /\ RingRead => F!Take
<1> SUFFICES ASSUME RingInv, RingInv', RingRead PROVE F!Take
  OBVIOUS
<1>1. PICK len \in 0 .. MaxLen :
        /\ out' = [k \in 1 .. Least(len, n) |-> buf[(tail + k - 1) % kPipeBytes]]
        /\ tail' = (tail + Least(len, n)) % kPipeBytes
        /\ n' = n - Least(len, n)
        /\ UNCHANGED <<buf, head>>
  BY DEF RingRead
<1>2. PICK got : got = Least(len, n)
  OBVIOUS
<1>3. n \in 0 .. kPipeBytes /\ tail \in Cells
  BY DEF RingInv, RingOK
<1>4. got \in 0 .. n
  BY <1>2, <1>3, LeastIn, RingAssumption
<1>5. /\ Contents \in Seq(Content) /\ Len(Contents) = n
      /\ \A k \in 1 .. n : Contents[k] = buf[(tail + k - 1) % kPipeBytes] /\ Contents[k] \in Content
  BY ContentsSeq, ElementOfSeq DEF SeqOK
<1>6. out' = SubSeq(Contents, 1, got)
  <2>1. /\ SubSeq(Contents, 1, got) \in Seq(Content)
        /\ Len(SubSeq(Contents, 1, got)) = got
        /\ \A k \in 1 .. got : SubSeq(Contents, 1, got)[k] = Contents[k]
    BY <1>3, <1>4, <1>5, SubSeqProperties
  <2>2. out' \in [1 .. got -> Content] /\ \A k \in 1 .. got : out'[k] = Contents[k]
    <3>1. \A k \in 1 .. got : k \in 1 .. n
      BY <1>3, <1>4
    <3>2. \A k \in 1 .. got : /\ buf[(tail + k - 1) % kPipeBytes] = Contents[k]
                              /\ Contents[k] \in Content
      BY <3>1, <1>5, Zenon
    <3>3. out' = [k \in 1 .. got |-> buf[(tail + k - 1) % kPipeBytes]]
      BY <1>1, <1>2, Zenon
    <3>4. QED BY <3>2, <3>3
  <2>3. out' \in Seq(Content) /\ Len(out') = got
    BY <1>3, <1>4, <2>2, FcnSeq
  <2>4. QED BY <2>1, <2>2, <2>3, SeqEqual
<1>7. Contents' = SubSeq(Contents, got + 1, n)
  <2>1. /\ SubSeq(Contents, got + 1, n) \in Seq(Content)
        /\ Len(SubSeq(Contents, got + 1, n)) = n - got
        /\ \A k \in 1 .. n - got : SubSeq(Contents, got + 1, n)[k] = Contents[got + k]
    <3>1. \A k \in got + 1 .. n : Contents[k] \in Content
      BY <1>3, <1>4, <1>5
    <3>2. /\ SubSeq(Contents, got + 1, n) \in Seq(Content)
          /\ Len(SubSeq(Contents, got + 1, n)) = IF got + 1 <= n THEN n - (got + 1) + 1 ELSE 0
          /\ \A k \in 1 .. n - (got + 1) + 1 :
                SubSeq(Contents, got + 1, n)[k] = Contents[(got + 1) + k - 1]
      BY <1>3, <1>4, <3>1, SubSeqProperties
    <3>3. n - (got + 1) + 1 = n - got /\ \A k \in Int : (got + 1) + k - 1 = got + k
      BY <1>3, <1>4
    <3>4. QED BY <1>3, <1>4, <3>2, <3>3
  <2>2. /\ Contents' \in Seq(Content)
        /\ Len(Contents') = n - got
        /\ \A k \in 1 .. n - got : Contents'[k] = buf[(tail' + k - 1) % kPipeBytes]
    <3>1. SeqOK'
      BY ContentsSeq, PTL
    <3>2. QED BY <3>1, <1>1, <1>2 DEF SeqOK, Content
  <2>3. \A k \in 1 .. n - got : (tail' + k - 1) % kPipeBytes = (tail + (got + k) - 1) % kPipeBytes
    <3> SUFFICES ASSUME NEW k \in 1 .. n - got
                 PROVE  (tail' + k - 1) % kPipeBytes = (tail + (got + k) - 1) % kPipeBytes
      OBVIOUS
    <3>1. tail' = Wrap(tail + got) /\ tail' \in Cells
      BY <1>1, <1>2, <1>4, TailMoves DEF RingInv
    <3>2. (tail' + k - 1) % kPipeBytes = Wrap(tail' + k - 1)
      <4>1. tail' + k - 1 \in Twice
        BY <1>3, <1>4, <3>1, RingAssumption DEF Twice, Cells
      <4>2. QED BY <4>1, Fold, Zenon
    <3>3. (tail + (got + k) - 1) % kPipeBytes = Wrap(tail + (got + k) - 1)
      <4>1. tail + (got + k) - 1 \in Twice
        BY <1>3, <1>4, RingAssumption DEF Twice, Cells
      <4>2. QED BY <4>1, Fold, Zenon
    <3>4. Wrap(tail' + k - 1) = Wrap(tail + (got + k) - 1)
      BY <1>3, <1>4, <3>1, RingAssumption DEF Wrap, Cells
    <3>5. QED BY <3>2, <3>3, <3>4, Zenon
  <2>4. \A k \in 1 .. n - got : Contents'[k] = SubSeq(Contents, got + 1, n)[k]
    <3> SUFFICES ASSUME NEW k \in 1 .. n - got
                 PROVE  Contents'[k] = Contents[got + k]
      BY <2>1
    <3>1. got + k \in 1 .. n
      BY <1>3, <1>4
    <3>2. Contents[got + k] = buf[(tail + (got + k) - 1) % kPipeBytes]
      BY <3>1, <1>5, Zenon
    <3>3. QED BY <3>2, <2>2, <2>3, Zenon
  <2>5. QED BY <2>1, <2>2, <2>4, SeqEqual
<1>8. QED BY <1>4, <1>5, <1>6, <1>7, Zenon DEF F!Take

\* pipe_rd hands out what pipe_wr took in, in order and once, for every size of the
\* ring, every set of bytes and every length of a call: the ring implements Fifo.
THEOREM RingIsFifo == RingSpec => IsFifo
<1>1. RingInit => F!Init
  <2> SUFFICES ASSUME RingInit PROVE Contents = << >> /\ out = << >>
    BY DEF F!Init
  <2>1. n = 0 /\ out = << >>
    BY DEF RingInit
  <2>2. QED BY <2>1 DEF Contents
<1>2. RingInv /\ RingInv' /\ [RingNext]_ringVars => [F!Next]_<<Contents, out>>
  <2> SUFFICES ASSUME RingInv, RingInv', [RingNext]_ringVars PROVE [F!Next]_<<Contents, out>>
    OBVIOUS
  <2>1. CASE RingWrite BY <2>1, WritePuts DEF F!Next
  <2>2. CASE RingRead BY <2>2, ReadTakes DEF F!Next
  <2>3. CASE UNCHANGED ringVars BY <2>3 DEF ringVars, Contents
  <2>4. QED BY <2>1, <2>2, <2>3 DEF RingNext
<1>3. QED BY <1>1, <1>2, InitRing, RingStep, PTL DEF RingSpec, IsFifo, F!Spec
=============================================================================
