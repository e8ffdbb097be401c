---------------------------- MODULE ShellProofs ----------------------------
(***************************************************************************)
(* Theorems about Shell, for any number of processes, pipes, descriptors   *)
(* and stages.                                                             *)
(***************************************************************************)
EXTENDS Shell, FiniteSetTheorems, TLAPS

-----------------------------------------------------------------------------
(* The invariant.  A line is at a stage, and what there is belongs to it:  *)
(* the descriptors that are open, the places in g_fg and the processes     *)
(* that are stages.                                                        *)

Idle == {"prompt", "subst", "output", "reap"}
Starting == {"pipe", "in", "out", "which", "fork"}
Pcs == Idle \cup Starting \cup {"parent", "started", "wait", "lost"}

Things == {Nothing, Tty, File} \cup {Rd(i) : i \in Pipes} \cup {Wr(i) : i \in Pipes}
Maybe == Fds \cup {None}
Lines == [pc : Pcs, n : Nat, i : Nat, background : BOOLEAN, in : Maybe, out : Maybe,
          next_in : Maybe, carried : Maybe, pids : Seq(Kids), status : Status, failed : BOOLEAN]
Children == [live : BOOLEAN, note : Status \cup {"none"}, in : Things, out : Things,
             also : SUBSET Things, left : Int, stage : Nat]

Types ==
  /\ sh \in Lines
  /\ fd \in [Fds -> Things]
  /\ g_fg \in Seq(Kids \cup {0}) /\ Len(g_fg) <= kMaxFg
  /\ kids \in [Kids -> Children]
  /\ held \in [Pipes -> 0 .. kPipeBytes]
  /\ ended \in Status

\* The descriptors the shell has in variables.
Own(s) == {s.in, s.out, s.next_in, s.carried} \ {None}

\* No descriptor is in two of them, and each variable is used where it is.
Distinct(s) ==
  /\ s.in # None => s.in \notin {s.out, s.next_in, s.carried}
  /\ s.out # None => s.out \notin {s.next_in, s.carried}
  /\ s.next_in # None => s.next_in # s.carried
Used(s) ==
  /\ s.pc \in {"prompt", "reap", "wait"} => Own(s) = {}
  /\ s.pc \in {"pipe", "started"} => s.in = None /\ s.out = None /\ s.next_in = None
  /\ s.pc = "in" => s.in = None
  /\ s.pc \in {"out", "which", "fork", "parent"} => s.carried = None
  /\ s.pc = "subst" => s.next_in = None /\ s.carried = None
  /\ s.pc = "output" => s.out = None /\ s.next_in = None /\ s.carried = None

\* What it began with is there, and nothing but that and its own.
Opened(s, F) ==
  /\ \A f \in AtStart : F[f] = Tty
  /\ \A f \in Own(s) : F[f] # Nothing /\ f \notin AtStart
  /\ s.pc # "lost" => \A f \in Fds : F[f] # Nothing => f \in AtStart \cup Own(s)

Descriptors(s, F) == Distinct(s) /\ Used(s) /\ Opened(s, F)

\* How far the line is.
Place(s) ==
  /\ s.n <= kMaxStage /\ Len(s.pids) <= kMaxStage
  /\ s.pc \in Starting => s.i = Len(s.pids) + 1 /\ s.i <= s.n
  /\ s.pc = "parent" => s.i = Len(s.pids) /\ s.i <= s.n /\ s.i > 0
  /\ s.pc = "started" => Len(s.pids) = s.n /\ s.i = 1
  /\ s.pc = "wait" => s.i > 0 /\ (~s.failed => Len(s.pids) = s.n /\ ~s.background)
  /\ s.pc = "prompt" => ~s.background

\* The stages that have not been waited for.
Pending(s) ==
  IF s.pc \in Idle THEN {}
  ELSE (IF s.pc = "wait" THEN s.i ELSE 1) .. Len(s.pids)

\* Who runs as a stage, and who Ctrl-C is for, is one of them.
Staged(s, K) ==
  s.pc # "lost" =>
    \A p \in Kids : K[p].live /\ K[p].stage # 0 =>
      ~s.background /\ K[p].stage \in Pending(s) /\ s.pids[K[p].stage] = p
Listed(s, G) ==
  s.pc # "lost" =>
    \A k \in DOMAIN G : G[k] # 0 => ~s.background /\ \E j \in Pending(s) : s.pids[j] = G[k]

\* CtrlCReaches.
Reached(s, K, G) ==
  \A p \in Kids :
    /\ K[p].live /\ K[p].stage # 0
    /\ ~(s.pc = "parent" /\ p = s.pids[Len(s.pids)])
    => (\E k \in DOMAIN G : G[k] = p) \/ Len(G) = kMaxFg

\* The last stage runs, or left a note that the shell has not read, or has.
Counts(s) ==
  /\ ~s.failed /\ ~s.background /\ s.pids # <<>>
  /\ \A j, k \in 1 .. Len(s.pids) : s.pids[j] = s.pids[k] => j = k
Noted(k, n, e) == IF k.live THEN k.stage = n ELSE k.note = e
Told(s, K, e) ==
  Counts(s) =>
    /\ /\ Len(s.pids) = s.n
       /\ s.pc \in {"parent", "started"} \/ (s.pc = "wait" /\ s.i <= s.n)
       => Noted(K[s.pids[s.n]], s.n, e)
    /\ s.pc = "prompt" \/ (s.pc = "wait" /\ s.i > s.n) => s.status = e

ShellInv ==
  /\ Types /\ Descriptors(sh, fd) /\ Place(sh)
  /\ Staged(sh, kids) /\ Listed(sh, g_fg) /\ Reached(sh, kids, g_fg) /\ Told(sh, kids, ended)

-----------------------------------------------------------------------------
(* Lemmas                                                                  *)

\* Min of a set of numbers is in it.
LEMMA MinIn ==
  ASSUME NEW S, S \subseteq Nat, S # {}
  PROVE  Min(S) \in S
<1>1. IsWellFoundedOn(OpToRel(<, Nat), Nat)
  BY NatLessThanWellFounded
<1>2. PICK m \in S : \A y \in S : ~(<<y, m>> \in OpToRel(<, Nat))
  BY <1>1, WFMin
<1>3. \A y \in S : m <= y
  <2> SUFFICES ASSUME NEW y \in S, ~(m <= y) PROVE FALSE
    OBVIOUS
  <2>1. <<y, m>> \in OpToRel(<, Nat)
    BY DEF OpToRel
  <2> QED
    BY <1>2, <2>1
<1> QED
  BY <1>3 DEF Min

\* A descriptor is a number, not None, and what the shell began with is among them.
LEMMA FdFacts == Fds \subseteq Nat /\ None \notin Fds /\ AtStart \subseteq Fds /\ None \notin AtStart
BY ShellAssumption DEF Fds, None, AtStart

\* The things a descriptor can be are different.
LEMMA ThingFacts ==
  /\ Tty # Nothing /\ File # Nothing
  /\ \A i : Rd(i) # Nothing /\ Wr(i) # Nothing
BY DEF Tty, File, Nothing, Rd, Wr

\* What the shell has in variables is descriptors.
LEMMA OwnFds ==
  ASSUME NEW s \in Lines
  PROVE  Own(s) \subseteq Fds
BY DEF Lines, Maybe, Own

\* close() of some of the shell's own descriptors.
LEMMA CloseOwn ==
  ASSUME NEW s \in Lines, NEW t \in Lines, NEW F \in [Fds -> Things], NEW S,
         Opened(s, F), s.pc # "lost", S \subseteq Own(s) \cup {None}, Own(t) = Own(s) \ S
  PROVE  Close(F, S) \in [Fds -> Things] /\ Opened(t, Close(F, S))
<1>1. Nothing \in Things
  BY DEF Things
<1>2. Close(F, S) \in [Fds -> Things]
  BY <1>1 DEF Close
<1>3. \A f \in Fds : Close(F, S)[f] = IF f \in S THEN Nothing ELSE F[f]
  BY DEF Close
<1>4. ASSUME NEW f \in AtStart PROVE Close(F, S)[f] = Tty
  BY <1>3, FdFacts DEF Opened
<1>5. ASSUME NEW f \in Own(t) PROVE Close(F, S)[f] # Nothing /\ f \notin AtStart
  BY <1>3, OwnFds DEF Opened
<1>6. ASSUME NEW f \in Fds, Close(F, S)[f] # Nothing PROVE f \in AtStart \cup Own(t)
  BY <1>3, <1>6 DEF Opened
<1> QED
  BY <1>2, <1>4, <1>5, <1>6 DEF Opened

\* A descriptor that was free is given to the shell.
LEMMA OpenOwn ==
  ASSUME NEW s \in Lines, NEW t \in Lines, NEW F \in [Fds -> Things], NEW f \in FreeFds(F),
         NEW x \in Things, x # Nothing, Opened(s, F), Own(t) \ {f} = Own(s) \ {f},
         t.pc = "lost" \/ (s.pc # "lost" /\ f \in Own(t))
  PROVE  /\ [F EXCEPT ![f] = x] \in [Fds -> Things]
         /\ Opened(t, [F EXCEPT ![f] = x])
         /\ f \notin Own(s) /\ f \notin AtStart /\ f \in Fds
<1> DEFINE G == [F EXCEPT ![f] = x]
<1>1. f \in Fds /\ F[f] = Nothing
  BY DEF FreeFds
<1>2. f \notin Own(s) /\ f \notin AtStart
  BY <1>1, ThingFacts DEF Opened
<1>3. G \in [Fds -> Things] /\ \A g \in Fds : G[g] = IF g = f THEN x ELSE F[g]
  BY <1>1
<1> HIDE DEF G
<1>4. ASSUME NEW g \in AtStart PROVE G[g] = Tty
  BY <1>2, <1>3, FdFacts DEF Opened
<1>5. ASSUME NEW g \in Own(t) PROVE G[g] # Nothing /\ g \notin AtStart
  BY <1>2, <1>3, OwnFds DEF Opened
<1>6. ASSUME NEW g \in Fds, t.pc # "lost", G[g] # Nothing PROVE g \in AtStart \cup Own(t)
  BY <1>3, <1>6 DEF Opened
<1>7. Opened(t, G)
  BY <1>4, <1>5, <1>6 DEF Opened
<1> QED
  BY <1>1, <1>2, <1>3, <1>7 DEF G

\* The first free descriptor is one.
LEMMA MinFree ==
  ASSUME NEW F, FreeFds(F) # {}
  PROVE  Min(FreeFds(F)) \in FreeFds(F)
BY MinIn, FdFacts DEF FreeFds

\* Two free descriptors, as pipe() takes them.
LEMMA TwoFree ==
  ASSUME NEW F, Cardinality(FreeFds(F)) >= 2
  PROVE  LET r == Min(FreeFds(F)) IN
         r \in FreeFds(F) /\ Min(FreeFds(F) \ {r}) \in FreeFds(F) \ {r}
<1> DEFINE S == FreeFds(F) r == Min(S)
<1>1. S \subseteq Fds /\ S \subseteq Nat
  BY FdFacts DEF FreeFds
<1>2. IsFiniteSet(S)
  <2>1. IsFiniteSet(Fds)
    BY FS_Interval, ShellAssumption DEF Fds
  <2> QED
    BY <1>1, <2>1, FS_Subset
<1>3. S # {}
  <2> SUFFICES ASSUME S = {} PROVE FALSE
    OBVIOUS
  <2>1. Cardinality(S) = 0
    BY <1>2, FS_EmptySet
  <2> QED
    BY <2>1
<1>4. r \in S
  BY <1>1, <1>3, MinIn
<1> HIDE DEF r
<1>5. S \ {r} # {}
  <2> SUFFICES ASSUME S = {r} PROVE FALSE
    BY <1>4
  <2>1. Cardinality(S) = 1
    BY FS_Singleton
  <2> QED
    BY <2>1
<1>6. Min(S \ {r}) \in S \ {r}
  BY <1>1, <1>5, MinIn
<1> QED
  BY <1>4, <1>6 DEF r

-----------------------------------------------------------------------------
(* The line.                                                               *)

Job(s, K, G) == Staged(s, K) /\ Listed(s, G) /\ Reached(s, K, G)

\* A step of the shell between the forks, or the way out on an error.
LEMMA Onward ==
  ASSUME NEW s \in Lines, NEW t \in Lines, NEW K, NEW G,
         s.pc \in Starting, t.pc \in Starting \cup {"wait"}, t.pc = "wait" => t.i = 1,
         t.pids = s.pids, t.background => s.background, Job(s, K, G)
  PROVE  Job(t, K, G)
<1>1. Pending(t) = Pending(s)
  BY DEF Pending, Starting, Idle
<1>2. s.pc # "lost" /\ t.pc # "lost" /\ s.pc # "parent"
  BY DEF Starting
<1>3. Staged(t, K)
  BY <1>1, <1>2 DEF Staged, Job
<1>4. Listed(t, G)
  BY <1>1, <1>2 DEF Listed, Job
<1>5. Reached(t, K, G)
  BY <1>2 DEF Reached, Job
<1> QED
  BY <1>3, <1>4, <1>5 DEF Job

\* In the middle of a line, or on the way out, nothing is said of a status.
LEMMA NothingTold ==
  ASSUME NEW t \in Lines, NEW K, NEW e,
         t.failed \/ t.pids = <<>> \/ (t.pc \in Starting) \/ t.pc \in {"lost", "subst", "output", "reap"}
  PROVE  Told(t, K, e)
BY DEF Told, Counts, Starting

-----------------------------------------------------------------------------
(* The steps of the shell.                                                 *)

\* A step between the forks keeps the invariant when it keeps the descriptors.
LEMMA StepKeeps ==
  ASSUME ShellInv, sh.pc \in Starting, sh' \in Lines, sh'.pc \in Starting,
         sh'.n = sh.n, sh'.i = sh.i, sh'.pids = sh.pids, sh'.background => sh.background,
         fd' \in [Fds -> Things], held' \in [Pipes -> 0 .. kPipeBytes], Descriptors(sh', fd'),
         UNCHANGED <<g_fg, kids, ended>>
  PROVE  ShellInv'
<1>1. Types'
  BY DEF ShellInv, Types
<1>2. Place(sh')
  BY DEF ShellInv, Place, Starting
<1>3. Job(sh', kids, g_fg)
  <2>1. Job(sh, kids, g_fg) /\ sh \in Lines
    BY DEF ShellInv, Job, Types
  <2>2. sh'.pc # "wait"
    BY DEF Starting
  <2> QED
    BY <2>1, <2>2, Onward
<1>4. Told(sh', kids, ended)
  BY NothingTold
<1> QED
  BY <1>1, <1>2, <1>3, <1>4 DEF ShellInv, Job

\* The way out on an error: all that the shell has is closed.
LEMMA AbortKeeps ==
  ASSUME ShellInv, sh.pc \in Starting, NEW S, Abort(fd, S),
         S \subseteq Own(sh) \cup {None}, Own(sh) \subseteq S,
         UNCHANGED <<g_fg, kids, held, ended>>
  PROVE  ShellInv'
<1>1. sh \in Lines /\ fd \in [Fds -> Things]
  BY DEF ShellInv, Types
<1>2. /\ sh' \in Lines /\ sh'.pc = "wait" /\ sh'.i = 1 /\ sh'.n = sh.n /\ sh'.pids = sh.pids
      /\ sh'.in = None /\ sh'.out = None /\ sh'.next_in = None /\ sh'.carried = None
  BY <1>1 DEF Abort, Lines, Maybe, Pcs, Status
<1>3. sh'.failed
  BY <1>1 DEF Abort, Lines
<1>4. sh'.background => sh.background
  BY <1>1 DEF Abort, Lines
<1>5. Own(sh') = {}
  BY <1>2 DEF Own
<1>6. sh.pc # "lost"
  BY DEF Starting
<1>7. Close(fd, S) \in [Fds -> Things] /\ Opened(sh', Close(fd, S))
  BY <1>1, <1>2, <1>5, <1>6, CloseOwn DEF ShellInv, Descriptors
<1>8. fd' = Close(fd, S)
  BY DEF Abort
<1>9. Types'
  BY <1>2, <1>7, <1>8 DEF ShellInv, Types
<1>10. Descriptors(sh', fd')
  BY <1>2, <1>5, <1>7, <1>8 DEF Descriptors, Distinct, Used
<1>11. Place(sh')
  BY <1>2, <1>3 DEF ShellInv, Place, Starting
<1>12. Job(sh', kids, g_fg)
  <2>1. Job(sh, kids, g_fg)
    BY DEF ShellInv, Job
  <2> QED
    BY <1>1, <1>2, <1>4, <2>1, Onward
<1>13. Told(sh', kids, ended)
  BY <1>2, <1>3, NothingTold
<1> QED
  BY <1>9, <1>10, <1>11, <1>12, <1>13 DEF ShellInv, Job

\* At the prompt: no stage is running, and Ctrl-C is for nobody.
LEMMA IdleFacts ==
  ASSUME NEW s, NEW K, NEW G, s.pc \in Idle, Staged(s, K), Listed(s, G)
  PROVE  /\ \A p \in Kids : ~(K[p].live /\ K[p].stage # 0)
         /\ \A k \in DOMAIN G : G[k] = 0
<1>1. Pending(s) = {} /\ s.pc # "lost"
  BY DEF Pending, Idle
<1> QED
  BY <1>1 DEF Staged, Listed

\* With no stage running and nobody in the list, the line may be anywhere.
LEMMA NobodyJob ==
  ASSUME NEW s, NEW K, NEW G,
         \A p \in Kids : ~(K[p].live /\ K[p].stage # 0),
         \A k \in DOMAIN G : G[k] = 0
  PROVE  Job(s, K, G)
BY DEF Job, Staged, Listed, Reached

\* AtPrompt is a line, with nothing in its variables.
LEMMA AtPromptFacts ==
  /\ AtPrompt \in Lines /\ AtPrompt.pc = "prompt" /\ AtPrompt.n = 0 /\ AtPrompt.pids = <<>>
  /\ Own(AtPrompt) = {} /\ ~AtPrompt.background
  /\ Distinct(AtPrompt) /\ Used(AtPrompt) /\ Place(AtPrompt)
<1>1. /\ AtPrompt \in Lines /\ AtPrompt.pc = "prompt" /\ AtPrompt.n = 0 /\ AtPrompt.pids = <<>>
      /\ AtPrompt.in = None /\ AtPrompt.out = None /\ AtPrompt.next_in = None /\ AtPrompt.carried = None
  BY DEF AtPrompt, Lines, Maybe, Pcs, Idle, Status
<1>2. ~AtPrompt.background
  BY DEF AtPrompt
<1>3. Own(AtPrompt) = {}
  BY <1>1 DEF Own
<1>4. Distinct(AtPrompt) /\ Used(AtPrompt)
  BY <1>1, <1>3 DEF Distinct, Used
<1>5. Place(AtPrompt)
  BY <1>1, <1>2, ShellAssumption DEF Place, Starting
<1> QED
  BY <1>1, <1>2, <1>3, <1>4, <1>5

\* Back to the prompt with nothing open.
LEMMA PromptKeeps ==
  ASSUME Types', sh' = AtPrompt, Opened(AtPrompt, fd'),
         \A p \in Kids : ~(kids'[p].live /\ kids'[p].stage # 0),
         \A k \in DOMAIN g_fg' : g_fg'[k] = 0
  PROVE  ShellInv'
<1>1. Job(sh', kids', g_fg')
  BY NobodyJob
<1>2. Told(sh', kids', ended')
  BY AtPromptFacts, NothingTold
<1>3. Descriptors(sh', fd') /\ Place(sh')
  BY AtPromptFacts DEF Descriptors
<1> QED
  BY <1>1, <1>2, <1>3 DEF ShellInv, Job

\* The shell at the prompt begins a job.
LEMMA RunJobKeeps ==
  ASSUME ShellInv, NEW op, NEW job \in run_job, RunJob(op, job)
  PROVE  ShellInv'
<1>1. sh \in Lines /\ sh.pc = "prompt" /\ Own(sh) = {}
  BY DEF ShellInv, Types, RunJob, Descriptors, Used
<1>2. job.n \in 1 .. kMaxStage
  BY DEF run_job
<1>3. /\ sh' \in Lines /\ sh'.pc \in {"in", "pipe"} /\ sh'.i = 1 /\ sh'.n = job.n /\ sh'.pids = <<>>
      /\ sh'.in = None /\ sh'.out = None /\ sh'.next_in = None /\ sh'.carried = None
  <2> DEFINE b == job.background /\ job.n > 1
  <2>3. b \in BOOLEAN
    OBVIOUS
  <2>4. sh' = [AtPrompt EXCEPT !.pc = IF job.n = 1 THEN "in" ELSE "pipe", !.n = job.n, !.i = 1,
                           !.background = b]
    BY DEF RunJob
  <2> HIDE DEF b
  <2> DEFINE c == IF job.n = 1 THEN "in" ELSE "pipe"
  <2>5. c \in {"in", "pipe"} /\ c \in Pcs
    BY DEF Pcs, Starting
  <2>6. sh' = [pc |-> c, n |-> job.n, i |-> 1, background |-> b, in |-> None, out |-> None,
               next_in |-> None, carried |-> None, pids |-> <<>>, status |-> "ok", failed |-> FALSE]
    BY <2>4 DEF AtPrompt
  <2> HIDE DEF c
  <2>7. job.n \in Nat /\ <<>> \in Seq(Kids) /\ None \in Maybe /\ "ok" \in Status
    BY <1>2, ShellAssumption DEF Maybe, Status
  <2> QED
    BY <2>3, <2>5, <2>6, <2>7 DEF Lines
<1>4. Own(sh') = {}
  BY <1>3 DEF Own
<1>5. Types'
  BY <1>3 DEF ShellInv, Types, RunJob, Status
<1>6. Descriptors(sh', fd')
  <2>1. fd' = fd /\ Opened(sh, fd)
    BY DEF RunJob, ShellInv, Descriptors
  <2>2. Opened(sh', fd)
    BY <1>1, <1>3, <1>4, <2>1 DEF Opened
  <2> QED
    BY <1>3, <1>4, <2>1, <2>2 DEF Descriptors, Distinct, Used
<1>7. Place(sh')
  BY <1>2, <1>3, ShellAssumption DEF Place, Starting
<1>8. Job(sh', kids', g_fg')
  <2>1. kids' = kids /\ g_fg' = g_fg /\ Staged(sh, kids) /\ Listed(sh, g_fg)
    BY DEF RunJob, ShellInv
  <2>2. sh.pc \in Idle
    BY <1>1 DEF Idle
  <2> QED
    BY <2>1, <2>2, IdleFacts, NobodyJob
<1>9. Told(sh', kids', ended')
  BY <1>3, NothingTold
<1> QED
  BY <1>5, <1>6, <1>7, <1>8, <1>9 DEF ShellInv, Job

\* A job is passed over.
LEMMA SkipJobKeeps ==
  ASSUME ShellInv, NEW op, SkipJob(op)
  PROVE  ShellInv'
<1>1. sh \in Lines /\ sh.pc = "prompt" /\ Own(sh) = {}
  BY DEF ShellInv, Types, SkipJob, Descriptors, Used
<1>2. sh' = AtPrompt /\ fd' = fd /\ g_fg' = g_fg /\ kids' = kids
  BY DEF SkipJob
<1>3. Types'
  BY <1>2, AtPromptFacts DEF ShellInv, Types, SkipJob
<1>4. Opened(AtPrompt, fd)
  BY <1>1, AtPromptFacts DEF ShellInv, Descriptors, Opened
<1>5. sh.pc \in Idle
  BY <1>1 DEF Idle
<1>6. /\ \A p \in Kids : ~(kids[p].live /\ kids[p].stage # 0)
      /\ \A k \in DOMAIN g_fg : g_fg[k] = 0
  BY <1>5, IdleFacts DEF ShellInv
<1> QED
  BY <1>2, <1>3, <1>4, <1>6, PromptKeeps

\* pipe(): both ends are the shell's, and the next stage's.
LEMMA MakePipeKeeps ==
  ASSUME ShellInv, MakePipe
  PROVE  ShellInv'
<1>1. /\ sh \in Lines /\ fd \in [Fds -> Things] /\ held \in [Pipes -> 0 .. kPipeBytes]
      /\ sh.pc = "pipe" /\ UNCHANGED <<g_fg, kids, ended>>
  BY DEF ShellInv, Types, MakePipe
<1>2. sh.in = None /\ sh.out = None /\ sh.next_in = None
  BY <1>1 DEF ShellInv, Descriptors, Used
<1>3. sh.pc \in Starting /\ "in" \in Starting /\ "in" \in Pcs
  BY <1>1 DEF Starting, Pcs
<1>4. Opened(sh, fd)
  BY DEF ShellInv, Descriptors
<1>5. CASE sh.i = sh.n /\ sh' = [sh EXCEPT !.pc = "in", !.out = None, !.next_in = None]
           /\ UNCHANGED <<fd, held>>
  <2>1. /\ sh' \in Lines /\ sh'.pc = "in" /\ sh'.n = sh.n /\ sh'.i = sh.i /\ sh'.pids = sh.pids
        /\ sh'.in = sh.in /\ sh'.out = None /\ sh'.next_in = None /\ sh'.carried = sh.carried
    BY <1>1, <1>3, <1>5 DEF Lines, Maybe
  <2>2. sh'.background => sh.background
    BY <1>1, <1>5 DEF Lines
  <2>3. Own(sh') = Own(sh)
    BY <1>2, <2>1 DEF Own
  <2>4. Opened(sh', fd)
    BY <1>1, <1>4, <2>1, <2>3 DEF Opened
  <2>5. Descriptors(sh', fd)
    BY <1>2, <2>1, <2>4 DEF Descriptors, Distinct, Used
  <2> QED
    BY <1>1, <1>3, <1>5, <2>1, <2>2, <2>5, StepKeeps
<1>6. CASE /\ sh.i < sh.n /\ (FreePipes = {} \/ Cardinality(FreeFds(fd)) < 2)
           /\ Abort(fd, {sh.carried}) /\ UNCHANGED held
  <2>1. Own(sh) \subseteq {sh.carried} /\ {sh.carried} \subseteq Own(sh) \cup {None}
    BY <1>2 DEF Own
  <2> QED
    BY <1>1, <1>3, <1>6, <2>1, AbortKeeps
<1>7. ASSUME NEW i, i = Min(FreePipes), NEW r, r = Min(FreeFds(fd)), NEW w, w = Min(FreeFds(fd) \ {r}),
             sh.i < sh.n, FreePipes # {}, Cardinality(FreeFds(fd)) >= 2,
             fd' = [fd EXCEPT ![r] = Rd(i), ![w] = Wr(i)], held' = [held EXCEPT ![i] = 0],
             sh' = [sh EXCEPT !.pc = "in", !.out = w, !.next_in = r]
      PROVE  ShellInv'
  <2>1. i \in Pipes
    BY <1>7, MinIn DEF FreePipes, Pipes
  <2>2. r \in FreeFds(fd) /\ w \in FreeFds(fd) /\ w # r /\ r \in Fds /\ w \in Fds
    BY <1>7, TwoFree DEF FreeFds
  <2>3. /\ sh' \in Lines /\ sh'.pc = "in" /\ sh'.n = sh.n /\ sh'.i = sh.i /\ sh'.pids = sh.pids
        /\ sh'.in = sh.in /\ sh'.out = w /\ sh'.next_in = r /\ sh'.carried = sh.carried
    BY <1>1, <1>3, <1>7, <2>2 DEF Lines, Maybe
  <2>4. sh'.background => sh.background
    BY <1>1, <1>7 DEF Lines
  <2> DEFINE F1 == [fd EXCEPT ![r] = Rd(i)]
             s1 == [sh EXCEPT !.next_in = r]
  <2>5. s1 \in Lines /\ s1.pc = sh.pc /\ s1.in = sh.in /\ s1.out = sh.out /\ s1.next_in = r /\ s1.carried = sh.carried
    BY <1>1, <2>2 DEF Lines, Maybe
  <2> HIDE DEF s1
  <2>6. None # r /\ None # w
    BY <2>2, FdFacts
  <2>7. Own(s1) = Own(sh) \cup {r} /\ Own(sh') = Own(s1) \cup {w}
    BY <1>2, <2>3, <2>5, <2>6 DEF Own
  <2>8. Rd(i) \in Things /\ Wr(i) \in Things /\ Rd(i) # Nothing /\ Wr(i) # Nothing
    BY <2>1, ThingFacts DEF Things
  <2>9. F1 \in [Fds -> Things] /\ Opened(s1, F1) /\ r \notin Own(sh)
    <3>1. Own(s1) \ {r} = Own(sh) \ {r} /\ r \in Own(s1) /\ sh.pc # "lost"
      BY <1>1, <2>7
    <3> QED
      BY <1>1, <1>4, <2>2, <2>5, <2>8, <3>1, OpenOwn
  <2>10. w \in FreeFds(F1)
    BY <1>1, <2>2 DEF FreeFds
  <2>11. [F1 EXCEPT ![w] = Wr(i)] = fd'
    BY <1>7
  <2> HIDE DEF F1
  <2>12. fd' \in [Fds -> Things] /\ Opened(sh', fd') /\ w \notin Own(s1)
    <3>1. Own(sh') \ {w} = Own(s1) \ {w} /\ w \in Own(sh') /\ s1.pc # "lost"
      BY <1>1, <2>5, <2>7
    <3> QED
      BY <2>3, <2>5, <2>8, <2>9, <2>10, <2>11, <3>1, OpenOwn
  <2>13. held' \in [Pipes -> 0 .. kPipeBytes]
    BY <1>1, <1>7, <2>1, ShellAssumption
  <2>14. r # sh.carried /\ w # sh.carried
    BY <2>5, <2>6, <2>9, <2>12 DEF Own
  <2>15. Descriptors(sh', fd')
    BY <1>2, <2>2, <2>3, <2>12, <2>14 DEF Descriptors, Distinct, Used
  <2> QED
    BY <1>1, <1>3, <2>3, <2>4, <2>12, <2>13, <2>15, StepKeeps
<1> QED
  BY <1>5, <1>6, <1>7 DEF MakePipe

\* A file that is opened is the shell's, for the stage.
LEMMA RedirectInKeeps ==
  ASSUME ShellInv, RedirectIn
  PROVE  ShellInv'
<1>1. /\ sh \in Lines /\ fd \in [Fds -> Things] /\ held \in [Pipes -> 0 .. kPipeBytes]
      /\ sh.pc = "in" /\ UNCHANGED <<g_fg, kids, held, ended>>
  BY DEF ShellInv, Types, RedirectIn
<1>2. sh.in = None /\ Distinct(sh) /\ Opened(sh, fd)
  BY <1>1 DEF ShellInv, Descriptors, Used
<1>3. sh.pc \in Starting /\ "out" \in Starting /\ "out" \in Pcs
  BY <1>1 DEF Starting, Pcs
<1>4. CASE sh' = [sh EXCEPT !.pc = "out", !.in = sh.carried, !.carried = None] /\ UNCHANGED fd
  <2>1. /\ sh' \in Lines /\ sh'.pc = "out" /\ sh'.n = sh.n /\ sh'.i = sh.i /\ sh'.pids = sh.pids
        /\ sh'.in = sh.carried /\ sh'.out = sh.out /\ sh'.next_in = sh.next_in /\ sh'.carried = None
    BY <1>1, <1>3, <1>4 DEF Lines, Maybe
  <2>2. sh'.background => sh.background
    BY <1>1, <1>4 DEF Lines
  <2>3. Own(sh') = Own(sh)
    BY <1>2, <2>1 DEF Own
  <2>4. Opened(sh', fd)
    BY <1>1, <1>2, <2>1, <2>3 DEF Opened
  <2>5. Descriptors(sh', fd)
    BY <1>2, <2>1, <2>4 DEF Descriptors, Distinct, Used
  <2> QED
    BY <1>1, <1>3, <1>4, <2>1, <2>2, <2>5, StepKeeps
<1>5. CASE sh.carried = None /\ Abort(fd, {sh.out, sh.next_in})
  <2>1. Own(sh) \subseteq {sh.out, sh.next_in} /\ {sh.out, sh.next_in} \subseteq Own(sh) \cup {None}
    BY <1>2, <1>5 DEF Own
  <2> QED
    BY <1>1, <1>3, <1>5, <2>1, AbortKeeps
<1>6. ASSUME NEW f, f = Min(FreeFds(fd)), sh.carried = None, FreeFds(fd) # {}, fd' = Open(fd, File),
             sh' = [sh EXCEPT !.pc = "out", !.in = f]
      PROVE  ShellInv'
  <2>1. f \in FreeFds(fd) /\ f \in Fds /\ f # None
    BY <1>6, MinFree, FdFacts DEF FreeFds
  <2>2. /\ sh' \in Lines /\ sh'.pc = "out" /\ sh'.n = sh.n /\ sh'.i = sh.i /\ sh'.pids = sh.pids
        /\ sh'.in = f /\ sh'.out = sh.out /\ sh'.next_in = sh.next_in /\ sh'.carried = None
    BY <1>1, <1>3, <1>6, <2>1 DEF Lines, Maybe
  <2>3. sh'.background => sh.background
    BY <1>1, <1>6 DEF Lines
  <2>4. Own(sh') = Own(sh) \cup {f}
    BY <1>2, <1>6, <2>1, <2>2 DEF Own
  <2>5. File \in Things /\ File # Nothing
    BY ThingFacts DEF Things
  <2>6. fd' = [fd EXCEPT ![f] = File]
    BY <1>6 DEF Open
  <2>7. fd' \in [Fds -> Things] /\ Opened(sh', fd') /\ f \notin Own(sh)
    <3>1. Own(sh') \ {f} = Own(sh) \ {f} /\ f \in Own(sh') /\ sh.pc # "lost"
      BY <1>1, <2>4
    <3> QED
      BY <1>1, <1>2, <2>1, <2>2, <2>5, <2>6, <3>1, OpenOwn
  <2>8. f # sh.out /\ f # sh.next_in
    BY <2>1, <2>7 DEF Own
  <2>9. Descriptors(sh', fd')
    BY <1>2, <1>6, <2>1, <2>2, <2>7, <2>8 DEF Descriptors, Distinct, Used
  <2> QED
    BY <1>1, <1>3, <2>2, <2>3, <2>7, <2>9, StepKeeps
<1>7. None # Min(FreeFds(fd)) \/ FreeFds(fd) = {}
  BY MinFree, FdFacts DEF FreeFds
<1> QED
  BY <1>4, <1>5, <1>6, <1>7 DEF RedirectIn, open_redir, CanOpen

\* The same for the output.
LEMMA RedirectOutKeeps ==
  ASSUME ShellInv, RedirectOut
  PROVE  ShellInv'
<1>1. /\ sh \in Lines /\ fd \in [Fds -> Things] /\ held \in [Pipes -> 0 .. kPipeBytes]
      /\ sh.pc = "out" /\ UNCHANGED <<g_fg, kids, held, ended>>
  BY DEF ShellInv, Types, RedirectOut
<1>2. sh.carried = None /\ Distinct(sh) /\ Opened(sh, fd)
  BY <1>1 DEF ShellInv, Descriptors, Used
<1>3. sh.pc \in Starting /\ "which" \in Starting /\ "which" \in Pcs
  BY <1>1 DEF Starting, Pcs
<1>4. CASE sh' = [sh EXCEPT !.pc = "which"] /\ UNCHANGED fd
  <2>1. /\ sh' \in Lines /\ sh'.pc = "which" /\ sh'.n = sh.n /\ sh'.i = sh.i /\ sh'.pids = sh.pids
        /\ sh'.in = sh.in /\ sh'.out = sh.out /\ sh'.next_in = sh.next_in /\ sh'.carried = None
    BY <1>1, <1>2, <1>3, <1>4 DEF Lines, Maybe
  <2>2. sh'.background => sh.background
    BY <1>1, <1>4 DEF Lines
  <2>3. Own(sh') = Own(sh)
    BY <1>2, <2>1 DEF Own
  <2>4. Opened(sh', fd)
    BY <1>1, <1>2, <2>1, <2>3 DEF Opened
  <2>5. Descriptors(sh', fd)
    BY <1>2, <2>1, <2>4 DEF Descriptors, Distinct, Used
  <2> QED
    BY <1>1, <1>3, <1>4, <2>1, <2>2, <2>5, StepKeeps
<1>5. CASE sh.out = None /\ Abort(fd, {sh.in, sh.next_in})
  <2>1. Own(sh) \subseteq {sh.in, sh.next_in} /\ {sh.in, sh.next_in} \subseteq Own(sh) \cup {None}
    BY <1>2, <1>5 DEF Own
  <2> QED
    BY <1>1, <1>3, <1>5, <2>1, AbortKeeps
<1>6. ASSUME NEW f, f = Min(FreeFds(fd)), sh.out = None, FreeFds(fd) # {}, fd' = Open(fd, File),
             sh' = [sh EXCEPT !.pc = "which", !.out = f]
      PROVE  ShellInv'
  <2>1. f \in FreeFds(fd) /\ f \in Fds /\ f # None
    BY <1>6, MinFree, FdFacts DEF FreeFds
  <2>2. /\ sh' \in Lines /\ sh'.pc = "which" /\ sh'.n = sh.n /\ sh'.i = sh.i /\ sh'.pids = sh.pids
        /\ sh'.in = sh.in /\ sh'.out = f /\ sh'.next_in = sh.next_in /\ sh'.carried = None
    BY <1>1, <1>2, <1>3, <1>6, <2>1 DEF Lines, Maybe
  <2>3. sh'.background => sh.background
    BY <1>1, <1>6 DEF Lines
  <2>4. Own(sh') = Own(sh) \cup {f}
    BY <1>2, <1>6, <2>1, <2>2 DEF Own
  <2>5. File \in Things /\ File # Nothing
    BY ThingFacts DEF Things
  <2>6. fd' = [fd EXCEPT ![f] = File]
    BY <1>6 DEF Open
  <2>7. fd' \in [Fds -> Things] /\ Opened(sh', fd') /\ f \notin Own(sh)
    <3>1. Own(sh') \ {f} = Own(sh) \ {f} /\ f \in Own(sh') /\ sh.pc # "lost"
      BY <1>1, <2>4
    <3> QED
      BY <1>1, <1>2, <2>1, <2>2, <2>5, <2>6, <3>1, OpenOwn
  <2>8. f # sh.in /\ f # sh.next_in
    BY <2>1, <2>7 DEF Own
  <2>9. Descriptors(sh', fd')
    BY <1>2, <1>6, <2>1, <2>2, <2>7, <2>8 DEF Descriptors, Distinct, Used
  <2> QED
    BY <1>1, <1>3, <2>2, <2>3, <2>7, <2>9, StepKeeps
<1>7. None # Min(FreeFds(fd)) \/ FreeFds(fd) = {}
  BY MinFree, FdFacts DEF FreeFds
<1> QED
  BY <1>4, <1>5, <1>6, <1>7 DEF RedirectOut, open_redir, CanOpen

\* which() finds the command, or the line is given up.
LEMMA WhichKeeps ==
  ASSUME ShellInv, Which
  PROVE  ShellInv'
<1>1. /\ sh \in Lines /\ fd \in [Fds -> Things] /\ held \in [Pipes -> 0 .. kPipeBytes]
      /\ sh.pc = "which" /\ UNCHANGED <<g_fg, kids, held, ended>>
  BY DEF ShellInv, Types, Which
<1>2. sh.carried = None /\ Distinct(sh) /\ Opened(sh, fd)
  BY <1>1 DEF ShellInv, Descriptors, Used
<1>3. sh.pc \in Starting /\ "fork" \in Starting /\ "fork" \in Pcs
  BY <1>1 DEF Starting, Pcs
<1>4. CASE sh' = [sh EXCEPT !.pc = "fork"] /\ UNCHANGED fd
  <2>1. /\ sh' \in Lines /\ sh'.pc = "fork" /\ sh'.n = sh.n /\ sh'.i = sh.i /\ sh'.pids = sh.pids
        /\ sh'.in = sh.in /\ sh'.out = sh.out /\ sh'.next_in = sh.next_in /\ sh'.carried = None
    BY <1>1, <1>2, <1>3, <1>4 DEF Lines, Maybe
  <2>2. sh'.background => sh.background
    BY <1>1, <1>4 DEF Lines
  <2>3. Own(sh') = Own(sh)
    BY <1>2, <2>1 DEF Own
  <2>4. Opened(sh', fd)
    BY <1>1, <1>2, <2>1, <2>3 DEF Opened
  <2>5. Descriptors(sh', fd)
    BY <1>2, <2>1, <2>4 DEF Descriptors, Distinct, Used
  <2> QED
    BY <1>1, <1>3, <1>4, <2>1, <2>2, <2>5, StepKeeps
<1>5. CASE Abort(fd, {sh.in, sh.out, sh.next_in})
  <2>1. Own(sh) \subseteq {sh.in, sh.out, sh.next_in} /\ {sh.in, sh.out, sh.next_in} \subseteq Own(sh) \cup {None}
    BY <1>2 DEF Own
  <2> QED
    BY <1>1, <1>3, <1>5, <2>1, AbortKeeps
<1> QED
  BY <1>4, <1>5 DEF Which

\* dup() of 0 or 1.
LEMMA DupOwn ==
  ASSUME NEW s \in Lines, NEW t \in Lines, NEW F \in [Fds -> Things], NEW f \in {0, 1}, Opened(s, F),
         s.pc # "lost", Own(t) = Own(s) \cup ({DupOf(F)} \ {None})
  PROVE  /\ dup(F, f) \in [Fds -> Things] /\ Opened(t, dup(F, f))
         /\ DupOf(F) # None => DupOf(F) \notin Own(s)
<1>1. CASE FreeFds(F) = {}
  <2>1. dup(F, f) = F /\ DupOf(F) = None
    BY <1>1 DEF dup, DupOf
  <2>2. Own(t) = Own(s)
    BY <2>1
  <2> QED
    BY <2>1, <2>2 DEF Opened
<1>2. CASE FreeFds(F) # {}
  <2> DEFINE d == Min(FreeFds(F))
  <2>1. dup(F, f) = [F EXCEPT ![d] = F[f]] /\ DupOf(F) = d
    BY <1>2 DEF dup, DupOf, Open
  <2>2. d \in FreeFds(F) /\ d # None
    BY <1>2, MinFree, FdFacts DEF FreeFds
  <2> HIDE DEF d
  <2>3. F[f] \in Things /\ F[f] # Nothing
    <3>1. f \in AtStart /\ f \in Fds
      BY FdFacts DEF AtStart
    <3> QED
      BY <3>1, ThingFacts DEF Opened
  <2>4. Own(t) \ {d} = Own(s) \ {d} /\ d \in Own(t)
    BY <2>1, <2>2
  <2>5. /\ [F EXCEPT ![d] = F[f]] \in [Fds -> Things] /\ Opened(t, [F EXCEPT ![d] = F[f]])
        /\ d \notin Own(s)
    <3> DEFINE x == F[f]
    <3>1. x \in Things /\ x # Nothing
      BY <2>3
    <3> HIDE DEF x
    <3>2. /\ [F EXCEPT ![d] = x] \in [Fds -> Things] /\ Opened(t, [F EXCEPT ![d] = x])
          /\ d \notin Own(s)
      BY <2>2, <2>4, <3>1, OpenOwn
    <3> QED
      BY <3>2 DEF x
  <2> QED
    BY <2>1, <2>5
<1> QED
  BY <1>1, <1>2

\* The descriptors that run_stage() gives a stage: the one it was given, or a copy.
LEMMA StageFds ==
  ASSUME ShellInv, sh.pc = "fork", NEW F1, NEW in, NEW F2, NEW out,
         F1 = IF sh.in = None THEN dup(fd, 0) ELSE fd,
         in = IF sh.in = None THEN DupOf(fd) ELSE sh.in,
         F2 = IF sh.out = None THEN dup(F1, 1) ELSE F1,
         out = IF sh.out = None THEN DupOf(F1) ELSE sh.out
  PROVE  /\ in \in Maybe /\ out \in Maybe /\ F2 \in [Fds -> Things]
         /\ in # None => in \notin {out, sh.next_in}
         /\ out # None => out # sh.next_in
         /\ \E u \in Lines :
              /\ u.pc = "fork" /\ u.in = in /\ u.out = out /\ u.next_in = sh.next_in /\ u.carried = None
              /\ Opened(u, F2)
<1>1. /\ sh \in Lines /\ fd \in [Fds -> Things] /\ Opened(sh, fd) /\ Distinct(sh) /\ sh.carried = None
  BY DEF ShellInv, Types, Descriptors, Used
<1>2. \A F : DupOf(F) \in Maybe
  BY MinFree DEF DupOf, Maybe, FreeFds
<1>3. in \in Maybe /\ out \in Maybe
  BY <1>1, <1>2 DEF Lines
<1> DEFINE s1 == [sh EXCEPT !.in = in] s2 == [s1 EXCEPT !.out = out]
<1>4. /\ s1 \in Lines /\ s1.pc = "fork" /\ s1.in = in /\ s1.out = sh.out
      /\ s1.next_in = sh.next_in /\ s1.carried = None
  BY <1>1, <1>3 DEF Lines, Maybe
<1> HIDE DEF s1
<1>5. /\ s2 \in Lines /\ s2.pc = "fork" /\ s2.in = in /\ s2.out = out
      /\ s2.next_in = sh.next_in /\ s2.carried = None
  BY <1>4, <1>3 DEF Lines, Maybe
<1> HIDE DEF s2
<1>6. F1 \in [Fds -> Things] /\ Opened(s1, F1) /\ (in # None => in \notin {sh.out, sh.next_in})
  <2>1. CASE sh.in = None
    <3>1. Own(s1) = Own(sh) \cup ({DupOf(fd)} \ {None})
      BY <1>1, <1>4, <2>1 DEF Own
    <3>2. /\ dup(fd, 0) \in [Fds -> Things] /\ Opened(s1, dup(fd, 0))
          /\ DupOf(fd) # None => DupOf(fd) \notin Own(sh)
      BY <1>1, <1>4, <3>1, DupOwn
    <3> QED
      BY <2>1, <3>2 DEF Own
  <2>2. CASE sh.in # None
    <3>1. Own(s1) = Own(sh)
      BY <1>1, <1>4, <2>2 DEF Own
    <3>2. Opened(s1, fd)
      BY <1>1, <1>4, <3>1 DEF Opened
    <3> QED
      BY <1>1, <2>2, <3>2 DEF Distinct
  <2> QED
    BY <2>1, <2>2
<1>7. F2 \in [Fds -> Things] /\ Opened(s2, F2) /\ (out # None => out \notin {in, sh.next_in})
  <2>1. CASE sh.out = None
    <3>1. Own(s2) = Own(s1) \cup ({DupOf(F1)} \ {None})
      BY <1>4, <1>5, <2>1 DEF Own
    <3>2. /\ dup(F1, 1) \in [Fds -> Things] /\ Opened(s2, dup(F1, 1))
          /\ DupOf(F1) # None => DupOf(F1) \notin Own(s1)
      BY <1>4, <1>5, <1>6, <3>1, DupOwn
    <3>3. out # None => out \notin {in, sh.next_in}
      BY <1>4, <2>1, <3>2 DEF Own
    <3> QED
      BY <2>1, <3>2, <3>3
  <2>2. CASE sh.out # None
    <3>1. Own(s2) = Own(s1)
      BY <1>4, <1>5, <2>2 DEF Own
    <3>2. Opened(s2, F1)
      BY <1>4, <1>5, <1>6, <3>1 DEF Opened
    <3> QED
      BY <1>1, <1>6, <2>2, <3>2 DEF Distinct
  <2> QED
    BY <2>1, <2>2
<1> QED
  BY <1>3, <1>5, <1>6, <1>7

\* fork(): one more child, in a slot nobody had.
LEMMA ForkedKids ==
  ASSUME kids \in [Kids -> Children], FreeKids # {}, NEW in \in Things, NEW out \in Things,
         NEW also \in SUBSET Things, NEW stage \in Nat, Forked(in, out, also, stage)
  PROVE  /\ Min(FreeKids) \in Kids /\ ~kids[Min(FreeKids)].live
         /\ kids' \in [Kids -> Children]
         /\ kids'[Min(FreeKids)].live /\ kids'[Min(FreeKids)].stage = stage
         /\ \A p \in Kids \ {Min(FreeKids)} : kids'[p] = kids[p]
<1> DEFINE q == Min(FreeKids)
<1>1. q \in FreeKids
  <2>1. FreeKids \subseteq Nat
    BY ShellAssumption DEF FreeKids, Kids
  <2> QED
    BY <2>1, MinIn
<1>2. q \in Kids /\ ~kids[q].live
  BY <1>1 DEF FreeKids
<1>3. \A x \in Things : PipeEnd(x) \in Things
  BY DEF PipeEnd, Things
<1>4. PICK left \in 0 .. MaxOut :
        kids' = [kids EXCEPT ![q] =
                   [live |-> TRUE, note |-> "none", in |-> PipeEnd(in), out |-> PipeEnd(out),
                    also |-> {PipeEnd(x) : x \in also} \ {Nothing}, left |-> left, stage |-> stage]]
  BY DEF Forked
<1> HIDE DEF q
<1> DEFINE A == {PipeEnd(x) : x \in also} \ {Nothing}
<1>5. A \in SUBSET Things /\ PipeEnd(in) \in Things /\ PipeEnd(out) \in Things /\ left \in Int
  BY <1>3, ShellAssumption
<1> HIDE DEF A
<1> DEFINE c == [live |-> TRUE, note |-> "none", in |-> PipeEnd(in), out |-> PipeEnd(out),
                 also |-> A, left |-> left, stage |-> stage]
<1>6. c \in Children /\ c.live /\ c.stage = stage
  BY <1>5 DEF Children
<1>7. kids' = [kids EXCEPT ![q] = c]
  BY <1>4 DEF A
<1> HIDE DEF c
<1>8. kids' \in [Kids -> Children] /\ kids'[q] = c /\ \A p \in Kids \ {q} : kids'[p] = kids[p]
  BY <1>2, <1>6, <1>7
<1> QED
  BY <1>2, <1>6, <1>8 DEF q

\* A stage more: it is the last of the line, and the one that is not in g_fg yet.
LEMMA StagedOn ==
  ASSUME NEW s \in Lines, NEW t \in Lines, NEW K, NEW L, NEW G, NEW q \in Kids, NEW e,
         s.pc = "fork", t.pc = "parent", s.i = Len(s.pids) + 1, t.pids = Append(s.pids, q), t.n = s.n,
         t.background => s.background, s.background => t.background,
         Job(s, K, G), ~K[q].live,
         L[q].live, L[q].stage = IF s.background THEN 0 ELSE s.i,
         \A p \in Kids \ {q} : L[p] = K[p]
  PROVE  Job(t, L, G) /\ Told(t, L, e)
<1>1. s.pids \in Seq(Kids) /\ s.n \in Nat /\ s.i \in Nat
  BY DEF Lines
<1>2. Len(t.pids) = s.i /\ t.pids[s.i] = q /\ (\A j \in 1 .. Len(s.pids) : t.pids[j] = s.pids[j])
  BY <1>1
<1>3. Pending(s) = 1 .. Len(s.pids) /\ Pending(t) = 1 .. s.i
  BY <1>2 DEF Pending, Idle
<1>4. Pending(s) \subseteq Pending(t) /\ s.i \in Pending(t) /\ \A j \in Pending(s) : t.pids[j] = s.pids[j]
  BY <1>1, <1>2, <1>3
<1>5. Staged(t, L)
  <2> SUFFICES ASSUME NEW p \in Kids, L[p].live, L[p].stage # 0
               PROVE  ~t.background /\ L[p].stage \in Pending(t) /\ t.pids[L[p].stage] = p
    BY DEF Staged
  <2>1. CASE p = q
    <3>1. ~s.background
      BY <2>1
    <3> QED
      BY <1>2, <1>4, <2>1, <3>1
  <2>2. CASE p # q
    <3>1. L[p] = K[p]
      BY <2>2
    <3>2. ~s.background /\ K[p].stage \in Pending(s) /\ s.pids[K[p].stage] = p
      BY <3>1 DEF Job, Staged
    <3> QED
      BY <1>4, <3>1, <3>2
  <2> QED
    BY <2>1, <2>2
<1>6. Listed(t, G)
  <2> SUFFICES ASSUME NEW k \in DOMAIN G, G[k] # 0
               PROVE  ~t.background /\ \E j \in Pending(t) : t.pids[j] = G[k]
    BY DEF Listed
  <2>1. ~s.background /\ \E j \in Pending(s) : s.pids[j] = G[k]
    BY DEF Job, Listed
  <2> QED
    BY <1>4, <2>1
<1>7. Reached(t, L, G)
  <2> SUFFICES ASSUME NEW p \in Kids, L[p].live, L[p].stage # 0, ~(t.pc = "parent" /\ p = t.pids[Len(t.pids)])
               PROVE  (\E k \in DOMAIN G : G[k] = p) \/ Len(G) = kMaxFg
    BY DEF Reached
  <2>1. p # q
    BY <1>2
  <2>2. L[p] = K[p] /\ s.pc # "parent"
    BY <2>1
  <2> QED
    BY <2>2 DEF Job, Reached
<1>8. Told(t, L, e)
  <2> SUFFICES ASSUME ~t.background, Len(t.pids) = t.n PROVE Noted(L[t.pids[t.n]], t.n, e)
    BY DEF Told, Counts
  <2>1. t.n = s.i /\ t.pids[t.n] = q
    BY <1>2
  <2>2. L[q].stage = t.n
    BY <2>1
  <2> QED
    BY <2>1, <2>2 DEF Noted
<1> QED
  BY <1>5, <1>6, <1>7, <1>8 DEF Job

\* run_stage(), up to fork().
LEMMA RunStageKeeps ==
  ASSUME ShellInv, RunStage
  PROVE  ShellInv'
<1> DEFINE F1 == IF sh.in = None THEN dup(fd, 0) ELSE fd
           in == IF sh.in = None THEN DupOf(fd) ELSE sh.in
           F2 == IF sh.out = None THEN dup(F1, 1) ELSE F1
           out == IF sh.out = None THEN DupOf(F1) ELSE sh.out
           also == {F2[f] : f \in Fds \ {0, 1, in, out}}
           x == F2[IF in = None THEN 0 ELSE in]
           y == F2[IF out = None THEN 1 ELSE out]
           st == IF sh.background THEN 0 ELSE sh.i
           q == Min(FreeKids)
<1>1. sh.pc = "fork" /\ fd' = F2 /\ UNCHANGED <<g_fg, held, ended>>
  BY DEF RunStage
<1>2. \/ FreeKids = {} /\ sh' = [sh EXCEPT !.pc = "lost"] /\ UNCHANGED kids
      \/ /\ FreeKids # {} /\ Forked(x, y, also, st)
         /\ sh' = [sh EXCEPT !.pc = "parent", !.in = in, !.out = out, !.pids = Append(@, q)]
  BY DEF RunStage
<1>4. /\ in \in Maybe /\ out \in Maybe /\ F2 \in [Fds -> Things]
      /\ in # None => in \notin {out, sh.next_in}
      /\ out # None => out # sh.next_in
      /\ \E u \in Lines :
           /\ u.pc = "fork" /\ u.in = in /\ u.out = out /\ u.next_in = sh.next_in /\ u.carried = None
           /\ Opened(u, F2)
  BY <1>1, StageFds
<1>5. (sh.in # None => in = sh.in) /\ (sh.out # None => out = sh.out)
  OBVIOUS
<1>6. also = {F2[f] : f \in Fds \ {0, 1, in, out}}
  OBVIOUS
<1>7. x = F2[IF in = None THEN 0 ELSE in] /\ y = F2[IF out = None THEN 1 ELSE out]
  OBVIOUS
<1>8. st = IF sh.background THEN 0 ELSE sh.i
  OBVIOUS
<1>9. PICK u \in Lines :
           /\ u.pc = "fork" /\ u.in = in /\ u.out = out /\ u.next_in = sh.next_in /\ u.carried = None
           /\ Opened(u, F2)
  BY <1>4
<1> HIDE DEF F1, in, F2, out, also, x, y, st
<1>10. sh \in Lines /\ kids \in [Kids -> Children] /\ sh.carried = None
  BY <1>1 DEF ShellInv, Types, Descriptors, Used
<1>11. Job(sh, kids, g_fg)
  BY DEF ShellInv, Job
<1>12. sh.i = Len(sh.pids) + 1 /\ sh.i <= sh.n /\ sh.n <= kMaxStage
  BY <1>1 DEF ShellInv, Place, Starting
<1>13. CASE FreeKids = {} /\ sh' = [sh EXCEPT !.pc = "lost"] /\ UNCHANGED kids
  <2>1. /\ sh' \in Lines /\ sh'.pc = "lost" /\ sh'.n = sh.n /\ sh'.i = sh.i /\ sh'.pids = sh.pids
        /\ sh'.in = sh.in /\ sh'.out = sh.out /\ sh'.next_in = sh.next_in /\ sh'.carried = sh.carried
    BY <1>10, <1>13 DEF Lines, Pcs
  <2>2. Own(sh') = Own(sh) /\ Own(sh) \subseteq Own(u)
    BY <1>5, <1>9, <1>10, <2>1 DEF Own
  <2>3. Opened(sh', F2)
    BY <1>9, <2>1, <2>2 DEF Opened
  <2>4. Descriptors(sh', fd')
    BY <1>1, <2>1, <2>3 DEF ShellInv, Descriptors, Distinct, Used
  <2>5. Place(sh')
    BY <2>1 DEF ShellInv, Place, Starting
  <2>6. Job(sh', kids, g_fg)
    BY <1>1, <1>11, <2>1 DEF Job, Staged, Listed, Reached
  <2>7. Told(sh', kids, ended)
    BY <2>1, NothingTold
  <2>8. Types'
    BY <1>1, <1>4, <1>13, <2>1 DEF ShellInv, Types
  <2> QED
    BY <1>1, <1>13, <2>4, <2>5, <2>6, <2>7, <2>8 DEF ShellInv, Job
<1>14. CASE /\ FreeKids # {} /\ Forked(x, y, also, st)
            /\ sh' = [sh EXCEPT !.pc = "parent", !.in = in, !.out = out, !.pids = Append(@, q)]
  <2>1. 0 \in Fds /\ 1 \in Fds
    BY FdFacts DEF AtStart
  <2>2. x \in Things /\ y \in Things /\ also \in SUBSET Things
    BY <1>4, <1>6, <1>7, <2>1 DEF Maybe
  <2>3. st \in Nat
    BY <1>8, <1>10 DEF Lines
  <2>4. /\ q \in Kids /\ ~kids[q].live /\ kids' \in [Kids -> Children]
        /\ kids'[q].live /\ kids'[q].stage = st /\ \A p \in Kids \ {q} : kids'[p] = kids[p]
    BY <1>10, <1>14, <2>2, <2>3, ForkedKids
  <2> HIDE DEF q
  <2>5. /\ sh' \in Lines /\ sh'.pc = "parent" /\ sh'.n = sh.n /\ sh'.i = sh.i /\ sh'.pids = Append(sh.pids, q)
        /\ sh'.in = in /\ sh'.out = out /\ sh'.next_in = sh.next_in /\ sh'.carried = sh.carried
    <3>1. Append(sh.pids, q) \in Seq(Kids) /\ "parent" \in Pcs
      BY <1>10, <2>4 DEF Lines, Pcs
    <3> QED
      BY <1>4, <1>10, <1>14, <3>1 DEF Lines
  <2>6. (sh'.background => sh.background) /\ (sh.background => sh'.background)
    BY <1>10, <1>14 DEF Lines
  <2>7. Opened(sh', F2)
    <3>1. Own(sh') = Own(u)
      BY <1>9, <1>10, <2>5 DEF Own
    <3> QED
      BY <1>9, <3>1 DEF Opened
  <2>8. Descriptors(sh', fd')
    BY <1>1, <1>4, <1>10, <2>5, <2>7 DEF Descriptors, Distinct, Used
  <2>9. Place(sh')
    <3>1. Len(Append(sh.pids, q)) = sh.i /\ sh.i > 0 /\ sh.i <= kMaxStage
      BY <1>10, <1>12, <2>4, ShellAssumption DEF Lines
    <3> QED
      BY <1>12, <2>5, <3>1 DEF Place, Starting
  <2>10. Job(sh', kids', g_fg) /\ Told(sh', kids', ended)
    <3>1. kids'[q].stage = IF sh.background THEN 0 ELSE sh.i
      BY <1>8, <2>4
    <3> QED
      BY <1>1, <1>10, <1>11, <1>12, <2>4, <2>5, <2>6, <3>1, StagedOn
  <2>11. Types'
    BY <1>1, <1>4, <2>4, <2>5 DEF ShellInv, Types
  <2> QED
    BY <1>1, <2>8, <2>9, <2>10, <2>11 DEF ShellInv, Job
<1> QED
  BY <1>2, <1>13, <1>14

\* fg_add(): the pid is in the list, or the list is full, and what was there stays.
LEMMA FgAdd ==
  ASSUME NEW G \in Seq(Kids \cup {0}), NEW p \in Kids, Len(G) <= kMaxFg
  PROVE  LET H == fg_add(G, p) IN
         /\ H \in Seq(Kids \cup {0}) /\ Len(H) <= kMaxFg
         /\ \A k \in DOMAIN H : H[k] = p \/ \E j \in DOMAIN G : G[j] = H[k]
         /\ \A k \in DOMAIN G : \E j \in DOMAIN H : H[j] = G[k]
         /\ (\E k \in DOMAIN H : H[k] = p) \/ Len(H) = kMaxFg
         /\ Len(G) = kMaxFg => Len(H) = kMaxFg
<1>1. CASE p \in Range(G) \/ Len(G) = kMaxFg
  <2>1. fg_add(G, p) = G
    BY <1>1 DEF fg_add
  <2> QED
    BY <1>1, <2>1 DEF Range
<1>2. CASE ~(p \in Range(G) \/ Len(G) = kMaxFg)
  <2> DEFINE H == Append(G, p)
  <2>1. fg_add(G, p) = H
    BY <1>2 DEF fg_add
  <2>2. /\ H \in Seq(Kids \cup {0}) /\ Len(H) = Len(G) + 1 /\ H[Len(G) + 1] = p
        /\ \A k \in 1 .. Len(G) : H[k] = G[k]
    OBVIOUS
  <2>3. DOMAIN G = 1 .. Len(G) /\ DOMAIN H = 1 .. Len(G) + 1 /\ Len(G) \in Nat
    OBVIOUS
  <2> HIDE DEF H
  <2>4. Len(H) <= kMaxFg
    <3>1. Len(G) # kMaxFg
      BY <1>2
    <3>2. ASSUME NEW n \in Nat, n <= kMaxFg, n # kMaxFg PROVE n + 1 <= kMaxFg
      BY <3>2, ShellAssumption
    <3>3. Len(G) + 1 <= kMaxFg
      BY <2>3, <3>1, <3>2
    <3> QED
      BY <2>2, <3>3
  <2>5. ASSUME NEW k \in DOMAIN H PROVE H[k] = p \/ \E j \in DOMAIN G : G[j] = H[k]
    <3>1. k = Len(G) + 1 \/ k \in 1 .. Len(G)
      BY <2>3
    <3> QED
      BY <2>2, <2>3, <3>1
  <2>6. ASSUME NEW k \in DOMAIN G PROVE \E j \in DOMAIN H : H[j] = G[k]
    <3>1. k \in DOMAIN H
      BY <2>3
    <3> QED
      BY <2>2, <2>3, <3>1
  <2>7. \E k \in DOMAIN H : H[k] = p
    <3>1. Len(G) + 1 \in DOMAIN H
      BY <2>3
    <3> QED
      BY <2>2, <3>1
  <2> QED
    BY <1>2, <2>1, <2>2, <2>4, <2>5, <2>6, <2>7
<1> QED
  BY <1>1, <1>2

\* The parent's side of run_stage().
LEMMA ParentKeeps ==
  ASSUME ShellInv, Parent
  PROVE  ShellInv'
<1>1. /\ sh.pc = "parent" /\ fd' = Close(fd, {sh.in, sh.out}) /\ UNCHANGED <<kids, held, ended>>
      /\ g_fg' = IF sh.background THEN g_fg ELSE fg_add(g_fg, sh.pids[Len(sh.pids)])
  BY DEF Parent, Owned, Last
<1>2. /\ sh \in Lines /\ fd \in [Fds -> Things] /\ sh.carried = None /\ Opened(sh, fd) /\ Distinct(sh)
      /\ g_fg \in Seq(Kids \cup {0}) /\ Len(g_fg) <= kMaxFg
  BY <1>1 DEF ShellInv, Types, Descriptors, Used
<1>3. sh.i = Len(sh.pids) /\ sh.i <= sh.n /\ sh.i > 0 /\ sh.n \in Nat /\ sh.i \in Nat /\ sh.n <= kMaxStage
      /\ Len(sh.pids) <= kMaxStage /\ sh.pids \in Seq(Kids)
  BY <1>1, <1>2 DEF ShellInv, Place, Lines
<1> DEFINE c == IF sh.i < sh.n THEN "pipe" ELSE "started"
           i == IF sh.i < sh.n THEN sh.i + 1 ELSE 1
           q == sh.pids[Len(sh.pids)]
<1>4. sh' = [sh EXCEPT !.carried = sh.next_in, !.in = None, !.out = None, !.next_in = None,
                       !.pc = c, !.i = i]
  BY DEF Parent
<1>5. c \in Pcs /\ i \in Nat
  BY <1>3 DEF Pcs, Starting
<1>6. \/ sh.i < sh.n /\ c = "pipe" /\ i = Len(sh.pids) + 1 /\ i <= sh.n
      \/ Len(sh.pids) = sh.n /\ c = "started" /\ i = 1
  <2>1. CASE sh.i < sh.n
    BY <1>3, <2>1
  <2>2. CASE ~(sh.i < sh.n)
    BY <1>3, <2>2
  <2> QED
    BY <2>1, <2>2
<1>7. q \in Kids
  BY <1>3
<1> HIDE DEF c, i, q
<1>8. /\ sh' \in Lines /\ sh'.pc = c /\ sh'.n = sh.n /\ sh'.i = i /\ sh'.pids = sh.pids
      /\ sh'.in = None /\ sh'.out = None /\ sh'.next_in = None /\ sh'.carried = sh.next_in
  BY <1>2, <1>4, <1>5 DEF Lines, Maybe
<1>9. (sh'.background => sh.background) /\ (sh.background => sh'.background)
      /\ (sh'.failed => sh.failed) /\ (sh.failed => sh'.failed)
  BY <1>2, <1>4 DEF Lines
<1>10. fd' \in [Fds -> Things] /\ Opened(sh', fd')
  <2>1. Own(sh') = Own(sh) \ {sh.in, sh.out} /\ {sh.in, sh.out} \subseteq Own(sh) \cup {None}
    BY <1>2, <1>8 DEF Own, Distinct
  <2> QED
    BY <1>1, <1>2, <1>8, <2>1, CloseOwn
<1>11. Descriptors(sh', fd')
  <2>1. c \in {"pipe", "started"}
    BY <1>6
  <2> QED
    BY <1>8, <1>10, <2>1 DEF Descriptors, Distinct, Used
<1>12. Place(sh')
  BY <1>3, <1>6, <1>8 DEF Place, Starting
<1>13. sh'.pc # "lost" /\ sh'.pc # "parent"
  BY <1>6, <1>8
<1>14. Pending(sh) = 1 .. Len(sh.pids) /\ Pending(sh') = 1 .. Len(sh.pids)
  BY <1>1, <1>6, <1>8 DEF Pending, Idle
<1>15. Staged(sh', kids)
  BY <1>1, <1>8, <1>9, <1>14 DEF ShellInv, Staged
<1>16. g_fg' \in Seq(Kids \cup {0}) /\ Len(g_fg') <= kMaxFg /\ Listed(sh', g_fg') /\ Reached(sh', kids, g_fg')
  <2>1. CASE sh.background
    <3>1. g_fg' = g_fg
      BY <1>1, <2>1
    <3>2. Listed(sh', g_fg)
      BY <1>1, <1>8, <1>9, <1>14, <2>1 DEF ShellInv, Listed
    <3>3. Reached(sh', kids, g_fg)
      BY <1>1, <2>1 DEF ShellInv, Staged, Reached
    <3> QED
      BY <1>2, <3>1, <3>2, <3>3
  <2>2. CASE ~sh.background
    <3> DEFINE H == fg_add(g_fg, q)
    <3>1. g_fg' = H
      BY <1>1, <2>2 DEF q
    <3>2. /\ H \in Seq(Kids \cup {0}) /\ Len(H) <= kMaxFg
          /\ \A k \in DOMAIN H : H[k] = q \/ \E j \in DOMAIN g_fg : g_fg[j] = H[k]
          /\ \A k \in DOMAIN g_fg : \E j \in DOMAIN H : H[j] = g_fg[k]
          /\ (\E k \in DOMAIN H : H[k] = q) \/ Len(H) = kMaxFg
          /\ Len(g_fg) = kMaxFg => Len(H) = kMaxFg
      BY <1>2, <1>7, FgAdd
    <3> HIDE DEF H
    <3>3. Len(sh.pids) \in Pending(sh') /\ sh.pids[Len(sh.pids)] = q
      BY <1>3, <1>14 DEF q
    <3>4. ASSUME NEW k \in DOMAIN H, H[k] # 0 PROVE \E j \in Pending(sh') : sh.pids[j] = H[k]
      <4>1. CASE H[k] = q
        BY <3>3, <4>1
      <4>2. CASE \E j \in DOMAIN g_fg : g_fg[j] = H[k]
        BY <1>1, <1>14, <3>4, <4>2 DEF ShellInv, Listed
      <4> QED
        BY <3>2, <4>1, <4>2
    <3>5. Listed(sh', H)
      BY <1>8, <1>9, <2>2, <3>4 DEF Listed
    <3>6. ASSUME NEW p \in Kids, kids[p].live, kids[p].stage # 0
          PROVE  (\E k \in DOMAIN H : H[k] = p) \/ Len(H) = kMaxFg
      <4>1. CASE p = q
        BY <3>2, <4>1
      <4>2. CASE p # q
        <5>1. (\E k \in DOMAIN g_fg : g_fg[k] = p) \/ Len(g_fg) = kMaxFg
          BY <3>6, <4>2 DEF ShellInv, Reached, q
        <5> QED
          BY <3>2, <5>1
      <4> QED
        BY <4>1, <4>2
    <3>7. Reached(sh', kids, H)
      BY <3>6 DEF Reached
    <3> QED
      BY <3>1, <3>2, <3>5, <3>7
  <2> QED
    BY <2>1, <2>2
<1>17. Told(sh', kids, ended)
  <2> SUFFICES ASSUME Counts(sh'), Len(sh'.pids) = sh'.n, sh'.pc = "started"
               PROVE  Noted(kids[sh'.pids[sh'.n]], sh'.n, ended)
    BY <1>3, <1>6, <1>8 DEF Told
  <2>1. Counts(sh)
    BY <1>8, <1>9 DEF Counts
  <2> QED
    BY <1>1, <1>8, <2>1 DEF ShellInv, Told
<1>18. Types'
  BY <1>1, <1>8, <1>10, <1>16 DEF ShellInv, Types
<1> QED
  BY <1>1, <1>11, <1>12, <1>15, <1>16, <1>17, <1>18 DEF ShellInv

\* All are started: a foreground line is waited for.
LEMMA StartedKeeps ==
  ASSUME ShellInv, Started
  PROVE  ShellInv'
<1>1. /\ sh.pc = "started" /\ fd' = Close(fd, {sh.carried}) /\ UNCHANGED <<g_fg, kids, held, ended>>
      /\ sh' = IF sh.background THEN AtPrompt ELSE [sh EXCEPT !.pc = "wait", !.carried = None]
  BY DEF Started
<1>2. /\ sh \in Lines /\ fd \in [Fds -> Things] /\ Opened(sh, fd)
      /\ sh.in = None /\ sh.out = None /\ sh.next_in = None
  BY <1>1 DEF ShellInv, Types, Descriptors, Used
<1>3. Len(sh.pids) = sh.n /\ sh.i = 1
  BY <1>1 DEF ShellInv, Place
<1>4. {sh.carried} \subseteq Own(sh) \cup {None} /\ Own(sh) \ {sh.carried} = {}
  BY <1>2 DEF Own
<1>5. CASE sh.background
  <2>1. sh' = AtPrompt
    BY <1>1, <1>5
  <2>2. fd' \in [Fds -> Things] /\ Opened(AtPrompt, fd')
    BY <1>1, <1>2, <1>4, AtPromptFacts, CloseOwn
  <2>3. /\ \A p \in Kids : ~(kids[p].live /\ kids[p].stage # 0)
        /\ \A k \in DOMAIN g_fg : g_fg[k] = 0
    BY <1>1, <1>5 DEF ShellInv, Staged, Listed
  <2>4. Types'
    BY <1>1, <2>1, <2>2, AtPromptFacts DEF ShellInv, Types
  <2> QED
    BY <1>1, <2>1, <2>2, <2>3, <2>4, PromptKeeps
<1>6. CASE ~sh.background
  <2>1. sh' = [sh EXCEPT !.pc = "wait", !.carried = None]
    BY <1>1, <1>6
  <2>2. /\ sh' \in Lines /\ sh'.pc = "wait" /\ sh'.n = sh.n /\ sh'.i = sh.i /\ sh'.pids = sh.pids
        /\ sh'.in = None /\ sh'.out = None /\ sh'.next_in = None /\ sh'.carried = None
    BY <1>2, <2>1 DEF Lines, Maybe, Pcs
  <2>3. ~sh'.background /\ (sh.failed => sh'.failed)
    BY <1>2, <1>6, <2>1 DEF Lines
  <2>4. Own(sh') = {}
    BY <2>2 DEF Own
  <2>5. fd' \in [Fds -> Things] /\ Opened(sh', fd')
    BY <1>1, <1>2, <1>4, <2>2, <2>4, CloseOwn
  <2>6. Descriptors(sh', fd')
    BY <2>2, <2>4, <2>5 DEF Descriptors, Distinct, Used
  <2>7. Place(sh')
    BY <1>3, <2>2, <2>3 DEF ShellInv, Place, Starting
  <2>8. Pending(sh') = Pending(sh)
    BY <1>1, <1>3, <2>2 DEF Pending, Idle
  <2>9. Job(sh', kids, g_fg)
    BY <1>1, <1>6, <2>2, <2>3, <2>8 DEF ShellInv, Job, Staged, Listed, Reached
  <2>10. Told(sh', kids, ended)
    <3> SUFFICES ASSUME Counts(sh') PROVE sh.n >= 1 /\ Noted(kids[sh.pids[sh.n]], sh.n, ended)
      BY <1>3, <2>2 DEF Told, Lines
    <3>1. Counts(sh)
      BY <1>6, <2>2, <2>3 DEF Counts
    <3>2. sh.n >= 1
      BY <1>2, <1>3, <3>1 DEF Counts, Lines
    <3> QED
      BY <1>1, <1>3, <3>1, <3>2 DEF ShellInv, Told
  <2>11. Types'
    BY <1>1, <2>2, <2>5 DEF ShellInv, Types
  <2> QED
    BY <1>1, <2>6, <2>7, <2>9, <2>10, <2>11 DEF ShellInv, Job
<1> QED
  BY <1>5, <1>6

\* NoKid and a note are no process that runs.
LEMMA NoKidFacts ==
  /\ NoKid \in Children /\ ~NoKid.live
  /\ \A st \in Status : Note(st) \in Children /\ ~Note(st).live /\ Note(st).note = st
<1>1. Nothing \in Things
  BY DEF Things
<1>2. NoKid \in Children /\ ~NoKid.live
  BY <1>1 DEF NoKid, Children
<1>3. ASSUME NEW st \in Status PROVE Note(st) \in Children /\ ~Note(st).live /\ Note(st).note = st
  <2>1. Note(st) \in Children /\ Note(st).note = st
    BY <1>2 DEF Note, Children
  <2>2. Note(st).live => NoKid.live
    BY <1>2 DEF Note, Children
  <2> QED
    BY <1>2, <2>1, <2>2
<1> QED
  BY <1>2, <1>3

\* What a wait leaves: nobody new runs.
LEMMA CollectKids ==
  ASSUME kids \in [Kids -> Children], NEW q, Collect(q)
  PROVE  /\ kids' \in [Kids -> Children]
         /\ \A p \in Kids \ {q} : kids'[p] = kids[p]
         /\ q \in Kids => ~kids'[q].live /\ ~kids[q].live
<1>1. kids' = [kids EXCEPT ![q] = NoKid] /\ ~kids[q].live
  BY DEF Collect
<1> QED
  BY <1>1, NoKidFacts

\* wait_pid() for one stage.
LEMMA WaitStageKeeps ==
  ASSUME ShellInv, WaitStage
  PROVE  ShellInv'
<1> DEFINE p == sh.pids[sh.i]
           st == IF sh.failed THEN sh.status
                 ELSE StatusOf(IF kids[p].note = "none" THEN "ok" ELSE kids[p].note)
<1>1. /\ sh.pc = "wait" /\ sh.i <= Len(sh.pids) /\ Collect(p) /\ g_fg' = fg_drop(g_fg, p)
      /\ UNCHANGED <<fd, held, ended>>
      /\ sh' = [sh EXCEPT !.i = @ + 1, !.status = st]
  BY DEF WaitStage
<1>2. /\ sh \in Lines /\ g_fg \in Seq(Kids \cup {0}) /\ Len(g_fg) <= kMaxFg
      /\ kids \in [Kids -> Children] /\ ended \in Status
  BY DEF ShellInv, Types
<1>3. sh.i > 0 /\ sh.i \in Nat /\ sh.n \in Nat /\ sh.pids \in Seq(Kids) /\ Len(sh.pids) \in Nat
  BY <1>1, <1>2 DEF ShellInv, Place, Lines
<1>4. p \in Kids
  BY <1>1, <1>3
<1>5. ~kids[p].live
  BY <1>1 DEF Collect
<1>6. st \in Status /\ (~sh.failed /\ sh.i = Len(sh.pids) /\ kids[p].note \in Status => st = kids[p].note)
  <2>1. kids[p].note \in Status \cup {"none"} /\ sh.status \in Status
    BY <1>2, <1>4 DEF Children, Lines
  <2>2. StatusOf(IF kids[p].note = "none" THEN "ok" ELSE kids[p].note) \in Status
    BY <2>1 DEF StatusOf, Status
  <2>3. "none" \notin Status
    BY DEF Status
  <2>4. ASSUME ~sh.failed, sh.i = Len(sh.pids), kids[p].note \in Status PROVE st = kids[p].note
    BY <1>3, <2>3, <2>4 DEF StatusOf
  <2> QED
    BY <2>1, <2>2, <2>4
<1>7. p = sh.pids[sh.i]
  OBVIOUS
<1> HIDE DEF p, st
<1>8. /\ kids' \in [Kids -> Children] /\ ~kids'[p].live /\ \A q \in Kids \ {p} : kids'[q] = kids[q]
  BY <1>1, <1>2, <1>4, CollectKids
<1>9. /\ sh' \in Lines /\ sh'.pc = "wait" /\ sh'.n = sh.n /\ sh'.i = sh.i + 1 /\ sh'.pids = sh.pids
      /\ sh'.in = sh.in /\ sh'.out = sh.out /\ sh'.next_in = sh.next_in /\ sh'.carried = sh.carried
      /\ sh'.status = st
  <2>1. sh' = [sh EXCEPT !.i = @ + 1, !.status = st] /\ st \in Status
    BY <1>1, <1>6
  <2>2. sh.i + 1 \in Nat /\ sh \in Lines
    BY <1>2, <1>3
  <2> QED
    BY <1>1, <2>1, <2>2 DEF Lines
<1>10. (sh'.background <=> sh.background) /\ (sh'.failed <=> sh.failed)
  BY <1>1, <1>2 DEF Lines
<1>11. Descriptors(sh', fd')
  <2>1. Own(sh') = Own(sh)
    BY <1>9 DEF Own
  <2>2. Opened(sh', fd)
    BY <1>1, <1>9, <2>1 DEF ShellInv, Descriptors, Opened
  <2> QED
    BY <1>1, <1>9, <2>1, <2>2 DEF ShellInv, Descriptors, Distinct, Used
<1>12. Place(sh')
  BY <1>1, <1>3, <1>9, <1>10 DEF ShellInv, Place, Starting
<1>13. Pending(sh) = sh.i .. Len(sh.pids) /\ Pending(sh') = sh.i + 1 .. Len(sh.pids)
  BY <1>1, <1>9 DEF Pending, Idle
<1>14. \A j \in Pending(sh) : sh.pids[j] # p => j \in Pending(sh')
  BY <1>3, <1>7, <1>13
<1>15. Staged(sh', kids')
  <2> SUFFICES ASSUME NEW q \in Kids, kids'[q].live, kids'[q].stage # 0
               PROVE  ~sh'.background /\ kids'[q].stage \in Pending(sh') /\ sh'.pids[kids'[q].stage] = q
    BY DEF Staged
  <2>1. q # p /\ kids'[q] = kids[q]
    BY <1>8
  <2>2. ~sh.background /\ kids[q].stage \in Pending(sh) /\ sh.pids[kids[q].stage] = q
    BY <1>1, <2>1 DEF ShellInv, Staged
  <2> QED
    BY <1>9, <1>10, <1>14, <2>1, <2>2
<1>16. /\ g_fg' \in Seq(Kids \cup {0}) /\ Len(g_fg') = Len(g_fg) /\ DOMAIN g_fg' = DOMAIN g_fg
       /\ \A k \in DOMAIN g_fg : g_fg'[k] = IF g_fg[k] = p THEN 0 ELSE g_fg[k]
  <2>1. DOMAIN g_fg = 1 .. Len(g_fg) /\ Len(g_fg) \in Nat
    BY <1>2
  <2>2. \A k \in 1 .. Len(g_fg) : g_fg[k] \in Kids \cup {0}
    BY <1>2
  <2>3. g_fg' = [k \in 1 .. Len(g_fg) |-> IF g_fg[k] = p THEN 0 ELSE g_fg[k]]
    BY <1>1, <2>1 DEF fg_drop
  <2> QED
    BY <2>1, <2>2, <2>3
<1>17. Listed(sh', g_fg')
  <2> SUFFICES ASSUME NEW k \in DOMAIN g_fg, g_fg'[k] # 0
               PROVE  ~sh'.background /\ \E j \in Pending(sh') : sh'.pids[j] = g_fg'[k]
    BY <1>16 DEF Listed
  <2>1. g_fg'[k] = g_fg[k] /\ g_fg[k] # p
    BY <1>16
  <2>2. ~sh.background /\ \E j \in Pending(sh) : sh.pids[j] = g_fg[k]
    BY <1>1, <2>1 DEF ShellInv, Listed
  <2> QED
    BY <1>9, <1>10, <1>14, <2>1, <2>2
<1>18. Reached(sh', kids', g_fg')
  <2> SUFFICES ASSUME NEW q \in Kids, kids'[q].live, kids'[q].stage # 0
               PROVE  (\E k \in DOMAIN g_fg' : g_fg'[k] = q) \/ Len(g_fg') = kMaxFg
    BY DEF Reached
  <2>1. q # p /\ kids'[q] = kids[q]
    BY <1>8
  <2>2. (\E k \in DOMAIN g_fg : g_fg[k] = q) \/ Len(g_fg) = kMaxFg
    BY <1>1, <2>1 DEF ShellInv, Reached
  <2> QED
    BY <1>16, <2>1, <2>2
<1>19. Told(sh', kids', ended)
  <2> SUFFICES ASSUME Counts(sh')
               PROVE  /\ sh.i + 1 <= sh.n => Noted(kids'[sh.pids[sh.n]], sh.n, ended)
                      /\ sh.i + 1 > sh.n => st = ended
    BY <1>9 DEF Told
  <2>1. Counts(sh) /\ ~sh.failed
    BY <1>9, <1>10 DEF Counts
  <2>2. Len(sh.pids) = sh.n
    BY <1>1, <2>1 DEF ShellInv, Place
  <2>3. sh.i <= sh.n /\ sh.n \in 1 .. Len(sh.pids) /\ sh.i \in 1 .. Len(sh.pids)
    BY <1>1, <1>3, <2>2
  <2>4. Noted(kids[sh.pids[sh.n]], sh.n, ended)
    BY <1>1, <2>1, <2>2, <2>3 DEF ShellInv, Told
  <2>5. ASSUME sh.i + 1 <= sh.n PROVE Noted(kids'[sh.pids[sh.n]], sh.n, ended)
    <3>1. sh.pids[sh.n] \in Kids
      BY <1>3, <2>3
    <3>2. sh.pids[sh.n] # p
      BY <1>3, <1>7, <2>1, <2>3, <2>5 DEF Counts
    <3> QED
      BY <1>8, <2>4, <3>1, <3>2
  <2>6. ASSUME sh.i + 1 > sh.n PROVE st = ended
    <3>1. sh.i = sh.n
      BY <1>3, <2>3, <2>6
    <3>2. kids[p].note = ended
      BY <1>5, <1>7, <2>4, <3>1 DEF Noted
    <3> QED
      BY <1>2, <1>6, <2>1, <2>2, <3>1, <3>2
  <2> QED
    BY <2>5, <2>6
<1>20. Types'
  BY <1>1, <1>2, <1>8, <1>9, <1>16 DEF ShellInv, Types
<1> QED
  BY <1>1, <1>11, <1>12, <1>15, <1>17, <1>18, <1>19, <1>20 DEF ShellInv

\* All have been waited for.
LEMMA WaitedKeeps ==
  ASSUME ShellInv, Waited
  PROVE  ShellInv'
<1>1. /\ sh.pc = "wait" /\ sh.i > Len(sh.pids) /\ UNCHANGED <<fd, kids, held, ended>>
      /\ sh' = [AtPrompt EXCEPT !.status = sh.status, !.failed = sh.failed, !.pids = sh.pids]
      /\ g_fg' = g_fg \/ g_fg' = <<>>
  BY DEF Waited, forget_jobs
<1>2. sh \in Lines /\ Own(sh) = {}
  BY <1>1 DEF ShellInv, Types, Descriptors, Used
<1>3. /\ sh' \in Lines /\ sh'.pc = "prompt" /\ sh'.n = 0 /\ sh'.pids = sh.pids /\ sh'.status = sh.status
      /\ sh'.in = None /\ sh'.out = None /\ sh'.next_in = None /\ sh'.carried = None
  BY <1>1, <1>2 DEF Lines, AtPrompt, Maybe, Pcs, Idle
<1>4. ~sh'.background /\ (sh.failed => sh'.failed)
  BY <1>1, <1>2 DEF Lines, AtPrompt
<1>5. Own(sh') = {}
  BY <1>3 DEF Own
<1>6. Descriptors(sh', fd')
  <2>1. Opened(sh', fd)
    BY <1>1, <1>2, <1>3, <1>5 DEF ShellInv, Descriptors, Opened
  <2> QED
    BY <1>1, <1>3, <1>5, <2>1 DEF Descriptors, Distinct, Used
<1>7. Place(sh')
  BY <1>3, <1>4, ShellAssumption DEF ShellInv, Place, Starting
<1>8. /\ \A p \in Kids : ~(kids[p].live /\ kids[p].stage # 0)
      /\ \A k \in DOMAIN g_fg : g_fg[k] = 0
  <2>1. Pending(sh) = {}
    BY <1>1, <1>2 DEF Pending, Idle, Lines
  <2> QED
    BY <1>1, <2>1 DEF ShellInv, Staged, Listed
<1>9. Job(sh', kids, g_fg')
  <2>1. \A k \in DOMAIN g_fg' : g_fg'[k] = 0
    <3>1. CASE g_fg' = g_fg
      BY <1>8, <3>1
    <3>2. CASE g_fg' = <<>>
      BY <3>2
    <3> QED
      BY <1>1, <3>1, <3>2
  <2> QED
    BY <1>8, <2>1, NobodyJob
<1>10. Told(sh', kids, ended)
  <2> SUFFICES ASSUME Counts(sh') PROVE Len(sh.pids) # 0 /\ sh.status = ended
    BY <1>3 DEF Told
  <2>1. sh.pids # <<>> /\ Len(sh.pids) # 0
    BY <1>2, <1>3 DEF Counts, Lines
  <2>2. Len(sh.pids) = sh.n /\ ~sh.background
    BY <1>1, <1>3, <1>4 DEF ShellInv, Place, Counts
  <2>3. Counts(sh)
    BY <1>3, <1>4, <2>2 DEF Counts
  <2>4. sh.i > sh.n
    BY <1>1, <2>2
  <2> QED
    BY <1>1, <2>1, <2>3, <2>4 DEF ShellInv, Told
<1>11. Types'
  <2>1. g_fg' \in Seq(Kids \cup {0}) /\ Len(g_fg') <= kMaxFg
    <3>1. g_fg \in Seq(Kids \cup {0}) /\ Len(g_fg) <= kMaxFg
      BY DEF ShellInv, Types
    <3>2. <<>> \in Seq(Kids \cup {0}) /\ Len(<<>>) <= kMaxFg
      BY ShellAssumption
    <3> QED
      BY <1>1, <3>1, <3>2
  <2> QED
    BY <1>1, <1>3, <2>1 DEF ShellInv, Types
<1> QED
  BY <1>1, <1>6, <1>7, <1>9, <1>10, <1>11 DEF ShellInv, Job

-----------------------------------------------------------------------------
(* substitute()                                                            *)

\* From the prompt: a pipe and a child that is no stage.
LEMMA SubstituteKeeps ==
  ASSUME ShellInv, Substitute
  PROVE  ShellInv'
<1> DEFINE i == Min(FreePipes)
           r == Min(FreeFds(fd))
           w == Min(FreeFds(fd) \ {r})
           F == [fd EXCEPT ![r] = Rd(i), ![w] = Wr(i)]
           also == {F[f] : f \in Fds \ {0, 1, r, w}}
           q == Min(FreeKids)
<1>1. /\ sh.pc = "prompt" /\ FreePipes # {} /\ Cardinality(FreeFds(fd)) >= 2
      /\ fd' = F /\ held' = [held EXCEPT ![i] = 0] /\ UNCHANGED <<g_fg, ended>>
  BY DEF Substitute
<1>2. \/ FreeKids = {} /\ sh' = [sh EXCEPT !.pc = "lost"] /\ UNCHANGED kids
      \/ /\ FreeKids # {} /\ Forked(F[0], Wr(i), also, 0)
         /\ sh' = [AtPrompt EXCEPT !.pc = "subst", !.in = r, !.out = w, !.pids = <<q>>, !.status = sh.status]
  BY DEF Substitute
<1>3. /\ sh \in Lines /\ fd \in [Fds -> Things] /\ held \in [Pipes -> 0 .. kPipeBytes]
      /\ kids \in [Kids -> Children] /\ Own(sh) = {} /\ Opened(sh, fd)
  BY <1>1 DEF ShellInv, Types, Descriptors, Used
<1>4. i \in Pipes
  BY <1>1, MinIn DEF FreePipes, Pipes
<1>5. r \in FreeFds(fd) /\ w \in FreeFds(fd) /\ w # r
  BY <1>1, TwoFree
<1>6. F = [fd EXCEPT ![r] = Rd(i), ![w] = Wr(i)] /\ also = {F[f] : f \in Fds \ {0, 1, r, w}}
  OBVIOUS
<1> HIDE DEF i, r, w, F, also
<1>7. r \in Fds /\ w \in Fds /\ r # None /\ w # None /\ r \notin AtStart /\ w \notin AtStart
  BY <1>3, <1>5, FdFacts, ThingFacts DEF FreeFds, Opened
<1>8. Rd(i) \in Things /\ Wr(i) \in Things /\ Rd(i) # Nothing /\ Wr(i) # Nothing
  BY <1>4, ThingFacts DEF Things
<1>9. F \in [Fds -> Things] /\ F[r] # Nothing /\ F[w] # Nothing /\ \A f \in Fds \ {r, w} : F[f] = fd[f]
  BY <1>3, <1>5, <1>6, <1>7, <1>8
<1>10. \A f \in AtStart : F[f] = Tty
  BY <1>3, <1>7, <1>9, FdFacts DEF Opened
<1>11. held' \in [Pipes -> 0 .. kPipeBytes]
  BY <1>1, <1>3, <1>4, ShellAssumption
<1>12. /\ \A p \in Kids : ~(kids[p].live /\ kids[p].stage # 0)
       /\ \A k \in DOMAIN g_fg : g_fg[k] = 0
  BY <1>1, IdleFacts DEF ShellInv, Idle
<1>13. CASE FreeKids = {} /\ sh' = [sh EXCEPT !.pc = "lost"] /\ UNCHANGED kids
  <2>1. /\ sh' \in Lines /\ sh'.pc = "lost" /\ sh'.n = sh.n /\ sh'.pids = sh.pids
        /\ sh'.in = sh.in /\ sh'.out = sh.out /\ sh'.next_in = sh.next_in /\ sh'.carried = sh.carried
    BY <1>3, <1>13 DEF Lines, Pcs
  <2>2. Own(sh') = {}
    BY <1>3, <2>1 DEF Own
  <2>3. Descriptors(sh', F)
    BY <1>10, <2>1, <2>2 DEF ShellInv, Descriptors, Distinct, Used, Opened
  <2>4. Place(sh')
    BY <2>1 DEF ShellInv, Place, Starting
  <2>5. Job(sh', kids, g_fg)
    BY <1>12, NobodyJob
  <2>6. Told(sh', kids, ended)
    BY <2>1, NothingTold
  <2>7. Types'
    BY <1>1, <1>9, <1>11, <1>13, <2>1 DEF ShellInv, Types
  <2> QED
    BY <1>1, <1>13, <2>3, <2>4, <2>5, <2>6, <2>7 DEF ShellInv, Job
<1>14. CASE /\ FreeKids # {} /\ Forked(F[0], Wr(i), also, 0)
            /\ sh' = [AtPrompt EXCEPT !.pc = "subst", !.in = r, !.out = w, !.pids = <<q>>, !.status = sh.status]
  <2>1. F[0] \in Things /\ also \in SUBSET Things
    BY <1>6, <1>9, FdFacts DEF AtStart
  <2>2. /\ q \in Kids /\ kids' \in [Kids -> Children] /\ kids'[q].stage = 0
        /\ \A p \in Kids \ {q} : kids'[p] = kids[p]
    BY <1>3, <1>8, <1>14, <2>1, ForkedKids
  <2> HIDE DEF q
  <2>3. /\ sh' \in Lines /\ sh'.pc = "subst" /\ sh'.n = 0 /\ sh'.pids = <<q>>
        /\ sh'.in = r /\ sh'.out = w /\ sh'.next_in = None /\ sh'.carried = None
    <3>1. <<q>> \in Seq(Kids) /\ r \in Maybe /\ w \in Maybe /\ None \in Maybe /\ "subst" \in Pcs
      BY <1>7, <2>2 DEF Maybe, Pcs, Idle
    <3>2. sh.status \in Status
      BY <1>3 DEF Lines
    <3> QED
      BY <1>14, <3>1, <3>2 DEF AtPrompt, Lines
  <2>4. Own(sh') = {r, w}
    BY <1>7, <2>3 DEF Own
  <2>5. Opened(sh', F)
    <3>1. ASSUME NEW f \in Fds, F[f] # Nothing PROVE f \in AtStart \cup {r, w}
      BY <1>1, <1>3, <1>9, <3>1 DEF Opened
    <3> QED
      BY <1>7, <1>9, <1>10, <2>4, <3>1 DEF Opened
  <2>6. Descriptors(sh', F)
    BY <1>5, <1>7, <2>3, <2>5 DEF Descriptors, Distinct, Used
  <2>7. Place(sh')
    <3>1. Len(<<q>>) = 1
      OBVIOUS
    <3> QED
      BY <2>3, <3>1, ShellAssumption DEF Place, Starting
  <2>8. Job(sh', kids', g_fg)
    <3>1. ASSUME NEW p \in Kids PROVE ~(kids'[p].live /\ kids'[p].stage # 0)
      BY <1>12, <2>2
    <3> QED
      BY <1>12, <3>1, NobodyJob
  <2>9. Told(sh', kids', ended)
    BY <2>3, NothingTold
  <2>10. Types'
    BY <1>1, <1>9, <1>11, <2>2, <2>3 DEF ShellInv, Types
  <2> QED
    BY <1>1, <2>6, <2>7, <2>8, <2>9, <2>10 DEF ShellInv, Job
<1> QED
  BY <1>2, <1>13, <1>14

\* The rest of it: two descriptors are closed, and the child is waited for.
LEMMA SubstFdKeeps ==
  ASSUME ShellInv, SubstClose \/ SubstRead
  PROVE  ShellInv'
<1>1. /\ sh \in Lines /\ fd \in [Fds -> Things] /\ held \in [Pipes -> 0 .. kPipeBytes]
      /\ Opened(sh, fd) /\ Distinct(sh) /\ Used(sh)
  BY DEF ShellInv, Types, Descriptors
<1>2. ASSUME NEW f, NEW c, sh.pc \in Idle, f \in Own(sh) \cup {None}, sh' \in Lines, sh'.pc = c,
             c \in {"output", "reap"}, sh'.n = sh.n, sh'.pids = sh.pids,
             Own(sh') = Own(sh) \ {f}, Distinct(sh'), Used(sh'), fd' = Close(fd, {f}),
             UNCHANGED <<g_fg, kids, held, ended>>
      PROVE  ShellInv'
  <2>1. fd' \in [Fds -> Things] /\ Opened(sh', fd')
    <3>1. {f} \subseteq Own(sh) \cup {None} /\ sh.pc # "lost"
      BY <1>2 DEF Idle
    <3> QED
      BY <1>1, <1>2, <3>1, CloseOwn
  <2>2. Place(sh')
    BY <1>2 DEF ShellInv, Place, Starting
  <2>3. Job(sh', kids, g_fg)
    BY <1>2, IdleFacts, NobodyJob DEF ShellInv
  <2>4. Told(sh', kids, ended)
    BY <1>2, NothingTold
  <2>5. Types'
    BY <1>2, <2>1 DEF ShellInv, Types
  <2> QED
    BY <1>2, <2>1, <2>2, <2>3, <2>4, <2>5 DEF ShellInv, Job, Descriptors
<1>3. CASE SubstClose
  <2>1. /\ sh.pc = "subst" /\ fd' = Close(fd, {sh.out}) /\ UNCHANGED <<g_fg, kids, held, ended>>
        /\ sh' = [sh EXCEPT !.pc = "output", !.out = None]
    BY <1>3 DEF SubstClose
  <2>2. /\ sh' \in Lines /\ sh'.pc = "output" /\ sh'.n = sh.n /\ sh'.pids = sh.pids
        /\ sh'.in = sh.in /\ sh'.out = None /\ sh'.next_in = sh.next_in /\ sh'.carried = sh.carried
    BY <1>1, <2>1 DEF Lines, Maybe, Pcs, Idle
  <2>3. sh.next_in = None /\ sh.carried = None
    BY <1>1, <2>1 DEF Used
  <2>4. Own(sh') = Own(sh) \ {sh.out} /\ sh.out \in Own(sh) \cup {None}
    BY <1>1, <2>2, <2>3 DEF Own, Distinct
  <2>5. Distinct(sh') /\ Used(sh')
    BY <2>2, <2>3 DEF Distinct, Used
  <2>6. sh.pc \in Idle
    BY <2>1 DEF Idle
  <2> QED
    BY <1>2, <2>1, <2>2, <2>4, <2>5, <2>6
<1>4. CASE SubstRead
  <2> DEFINE i == fd[sh.in].pipe
  <2>1. sh.pc = "output" /\ UNCHANGED <<g_fg, kids, ended>>
    BY <1>4 DEF SubstRead
  <2>2. \/ held[i] > 0 /\ held' = [held EXCEPT ![i] = @ - 1] /\ UNCHANGED <<sh, fd>>
        \/ /\ fd' = Close(fd, {sh.in}) /\ sh' = [sh EXCEPT !.pc = "reap", !.in = None] /\ UNCHANGED held
    BY <1>4 DEF SubstRead
  <2> HIDE DEF i
  <2>3. CASE held[i] > 0 /\ held' = [held EXCEPT ![i] = @ - 1] /\ UNCHANGED <<sh, fd>>
    <3>1. held' \in [Pipes -> 0 .. kPipeBytes]
      <4>1. held' = [held EXCEPT ![i] = held[i] - 1]
        BY <2>3
      <4>2. i \in Pipes => held[i] - 1 \in 0 .. kPipeBytes
        BY <1>1, <2>3, ShellAssumption
      <4> QED
        BY <1>1, <4>1, <4>2
    <3>2. Types'
      BY <2>1, <2>3, <3>1 DEF ShellInv, Types
    <3> QED
      BY <2>1, <2>3, <3>2 DEF ShellInv
  <2>4. CASE fd' = Close(fd, {sh.in}) /\ sh' = [sh EXCEPT !.pc = "reap", !.in = None] /\ UNCHANGED held
    <3>1. /\ sh' \in Lines /\ sh'.pc = "reap" /\ sh'.n = sh.n /\ sh'.pids = sh.pids
          /\ sh'.in = None /\ sh'.out = sh.out /\ sh'.next_in = sh.next_in /\ sh'.carried = sh.carried
      BY <1>1, <2>4 DEF Lines, Maybe, Pcs, Idle
    <3>2. sh.out = None /\ sh.next_in = None /\ sh.carried = None
      BY <1>1, <2>1 DEF Used
    <3>3. Own(sh') = Own(sh) \ {sh.in} /\ sh.in \in Own(sh) \cup {None} /\ Own(sh') = {}
      BY <3>1, <3>2 DEF Own
    <3>4. Distinct(sh') /\ Used(sh')
      BY <3>1, <3>2, <3>3 DEF Distinct, Used
    <3>5. sh.pc \in Idle
      BY <2>1 DEF Idle
    <3> QED
      BY <1>2, <2>1, <2>4, <3>1, <3>3, <3>4, <3>5
  <2> QED
    BY <2>2, <2>3, <2>4
<1> QED
  BY <1>3, <1>4

\* waitpid() for the child of a substitution.
LEMMA SubstWaitKeeps ==
  ASSUME ShellInv, SubstWait
  PROVE  ShellInv'
<1> DEFINE q == sh.pids[1]
<1>1. /\ sh.pc = "reap" /\ Collect(q) /\ sh' = [AtPrompt EXCEPT !.status = sh.status]
      /\ UNCHANGED <<fd, g_fg, held, ended>>
  BY DEF SubstWait
<1> HIDE DEF q
<1>2. sh \in Lines /\ sh.pc \in Idle /\ Own(sh) = {} /\ kids \in [Kids -> Children]
  BY <1>1 DEF Idle, ShellInv, Types, Descriptors, Used
<1>3. /\ sh' \in Lines /\ sh'.pc = "prompt" /\ sh'.n = 0 /\ sh'.pids = <<>> /\ ~sh'.background
      /\ sh'.in = None /\ sh'.out = None /\ sh'.next_in = None /\ sh'.carried = None
  <2>1. sh.status \in Status
    BY <1>2 DEF Lines
  <2>2. /\ AtPrompt \in Lines /\ AtPrompt.in = None /\ AtPrompt.out = None
        /\ AtPrompt.next_in = None /\ AtPrompt.carried = None
    BY AtPromptFacts DEF AtPrompt
  <2> QED
    BY <1>1, <2>1, <2>2, AtPromptFacts DEF Lines
<1>4. Own(sh') = {}
  BY <1>3 DEF Own
<1>5. Descriptors(sh', fd')
  <2>1. Opened(sh', fd)
    BY <1>1, <1>2, <1>3, <1>4 DEF ShellInv, Descriptors, Opened
  <2> QED
    BY <1>1, <1>3, <1>4, <2>1 DEF Descriptors, Distinct, Used
<1>6. Place(sh')
  BY <1>3, ShellAssumption DEF Place, Starting
<1>7. kids' \in [Kids -> Children] /\ (\A p \in Kids \ {q} : kids'[p] = kids[p]) /\ (q \in Kids => ~kids'[q].live)
  BY <1>1, <1>2, CollectKids
<1>8. /\ \A p \in Kids : ~(kids[p].live /\ kids[p].stage # 0)
      /\ \A k \in DOMAIN g_fg : g_fg[k] = 0
  BY <1>2, IdleFacts DEF ShellInv
<1>9. Job(sh', kids', g_fg)
  <2>1. ASSUME NEW p \in Kids PROVE ~(kids'[p].live /\ kids'[p].stage # 0)
    BY <1>7, <1>8
  <2> QED
    BY <1>8, <2>1, NobodyJob
<1>10. Told(sh', kids', ended)
  BY <1>3, NothingTold
<1>11. Types'
  BY <1>1, <1>3, <1>7 DEF ShellInv, Types
<1> QED
  BY <1>1, <1>5, <1>6, <1>9, <1>10, <1>11 DEF ShellInv, Job

-----------------------------------------------------------------------------
(* The programs, and Ctrl-C.                                               *)

\* Processes end.  Only a stage that is the last of the line changes what the
\* line comes to, and it is then the one that the shell's last wait is for.
LEMMA EndKeeps ==
  ASSUME ShellInv, NEW S, S \subseteq Kids, \A p \in S : kids[p].live, NEW st \in Status, End(S, st),
         UNCHANGED <<fd, g_fg, held>>, sh' = sh \/ (sh.pc = "prompt" /\ sh' = AtPrompt)
  PROVE  ShellInv'
<1>1. kids' = [p \in Kids |-> IF p \in S THEN Note(st) ELSE kids[p]]
  BY DEF End
<1>2. /\ sh \in Lines /\ kids \in [Kids -> Children] /\ ended \in Status
  BY DEF ShellInv, Types
<1>3. /\ kids' \in [Kids -> Children]
      /\ \A p \in S : ~kids'[p].live /\ kids'[p].note = st
      /\ \A p \in Kids \ S : kids'[p] = kids[p]
  BY <1>1, <1>2, NoKidFacts
<1>4. \/ (\E p \in S : kids[p].stage # 0 /\ kids[p].stage = sh.n) /\ ended' = st
      \/ ~(\E p \in S : kids[p].stage # 0 /\ kids[p].stage = sh.n) /\ ended' = ended
  BY DEF End
<1>5. ended' \in Status
  BY <1>2, <1>4
<1>6. ASSUME NEW p \in Kids, kids'[p].live PROVE kids'[p] = kids[p] /\ kids[p].live
  <2>1. p \notin S
    BY <1>3, <1>6
  <2> QED
    BY <1>3, <1>6, <2>1
<1>7. CASE sh' = sh
  <2>1. Types'
    BY <1>3, <1>5, <1>7 DEF ShellInv, Types
  <2>2. Staged(sh, kids')
    BY <1>6 DEF ShellInv, Staged
  <2>3. Reached(sh, kids', g_fg)
    BY <1>6 DEF ShellInv, Reached
  <2>4. Told(sh, kids', ended')
    <3> SUFFICES ASSUME Counts(sh)
                 PROVE  /\ /\ Len(sh.pids) = sh.n
                           /\ sh.pc \in {"parent", "started"} \/ (sh.pc = "wait" /\ sh.i <= sh.n)
                           => Noted(kids'[sh.pids[sh.n]], sh.n, ended')
                        /\ sh.pc = "prompt" \/ (sh.pc = "wait" /\ sh.i > sh.n) => sh.status = ended'
      BY DEF Told
    <3>1. sh.pids \in Seq(Kids) /\ sh.n \in Nat /\ sh.i \in Nat /\ sh.pids # <<>>
      BY <1>2 DEF Counts, Lines
    <3>2. ASSUME Len(sh.pids) = sh.n,
                 sh.pc \in {"parent", "started"} \/ (sh.pc = "wait" /\ sh.i <= sh.n)
          PROVE  Noted(kids'[sh.pids[sh.n]], sh.n, ended')
      <4> DEFINE q == sh.pids[sh.n]
      <4>1. q \in Kids /\ sh.n # 0 /\ sh.pc # "lost"
        BY <3>1, <3>2
      <4>2. Noted(kids[q], sh.n, ended)
        BY <3>2 DEF ShellInv, Told
      <4>3. ASSUME NEW p \in S, kids[p].stage # 0, kids[p].stage = sh.n PROVE p = q
        BY <4>1, <4>3 DEF ShellInv, Staged
      <4> HIDE DEF q
      <4>4. CASE q \in S
        <5>1. kids[q].stage = sh.n
          BY <4>2, <4>4 DEF Noted
        <5>2. ended' = st
          BY <1>4, <4>1, <4>4, <5>1
        <5> QED
          BY <1>3, <4>4, <5>2 DEF Noted, q
      <4>5. CASE q \notin S
        <5>1. ended' = ended
          BY <1>4, <4>3, <4>5
        <5>2. kids'[q] = kids[q]
          BY <1>3, <4>1, <4>5
        <5> QED
          BY <4>2, <5>1, <5>2 DEF q
      <4> QED
        BY <4>4, <4>5
    <3>3. ASSUME sh.pc = "prompt" \/ (sh.pc = "wait" /\ sh.i > sh.n) PROVE sh.status = ended'
      <4>1. sh.n \notin Pending(sh) /\ sh.pc # "lost"
        BY <3>1, <3>3 DEF Pending, Idle
      <4>2. ASSUME NEW p \in S, kids[p].stage # 0, kids[p].stage = sh.n PROVE FALSE
        BY <4>1, <4>2 DEF ShellInv, Staged
      <4>3. ended' = ended
        BY <1>4, <4>2
      <4> QED
        BY <3>3, <4>3 DEF ShellInv, Told
    <3> QED
      BY <3>2, <3>3
  <2> QED
    BY <1>7, <2>1, <2>2, <2>3, <2>4 DEF ShellInv
<1>8. CASE sh.pc = "prompt" /\ sh' = AtPrompt
  <2>1. Types'
    BY <1>3, <1>5, <1>8, AtPromptFacts DEF ShellInv, Types
  <2>2. Opened(AtPrompt, fd)
    BY <1>8, AtPromptFacts DEF ShellInv, Descriptors, Used, Opened
  <2>3. /\ \A p \in Kids : ~(kids[p].live /\ kids[p].stage # 0)
        /\ \A k \in DOMAIN g_fg : g_fg[k] = 0
    BY <1>8, IdleFacts DEF ShellInv, Idle
  <2>4. ASSUME NEW p \in Kids PROVE ~(kids'[p].live /\ kids'[p].stage # 0)
    BY <1>6, <2>3
  <2> QED
    BY <1>8, <2>1, <2>2, <2>3, <2>4, PromptKeeps
<1> QED
  BY <1>7, <1>8

\* A program writes or reads: what it is, and where the shell is, stays.
LEMMA ProgramKeeps ==
  ASSUME ShellInv, NEW p \in Kids, Writes(p) \/ Reads(p)
  PROVE  ShellInv'
<1>1. kids \in [Kids -> Children] /\ held \in [Pipes -> 0 .. kPipeBytes]
  BY DEF ShellInv, Types
<1>2. CASE Writes(p)
  <2> DEFINE i == kids[p].out.pipe
  <2>1. /\ held[i] < kPipeBytes /\ held' = [held EXCEPT ![i] = held[i] + 1]
        /\ UNCHANGED <<sh, fd, g_fg, ended>>
    BY <1>2 DEF Writes
  <2>2. kids' = [kids EXCEPT ![p].left = @ - 1]
    BY <1>2 DEF Writes
  <2> HIDE DEF i
  <2>3. held' \in [Pipes -> 0 .. kPipeBytes]
    <3>1. i \in Pipes => held[i] + 1 \in 0 .. kPipeBytes
      BY <1>1, <2>1, ShellAssumption
    <3> QED
      BY <1>1, <2>1, <3>1
  <2> DEFINE c == [kids[p] EXCEPT !.left = @ - 1]
  <2>4. c \in Children /\ c.stage = kids[p].stage /\ c.note = kids[p].note
    BY <1>1 DEF Children
  <2>5. (c.live => kids[p].live) /\ (kids[p].live => c.live)
    BY <1>1 DEF Children
  <2>6. kids' = [kids EXCEPT ![p] = c]
    BY <2>2
  <2> HIDE DEF c
  <2>7. kids' \in [Kids -> Children] /\ kids'[p] = c /\ \A q \in Kids \ {p} : kids'[q] = kids[q]
    BY <1>1, <2>4, <2>6
  <2>8. ASSUME NEW q \in Kids
        PROVE  /\ kids'[q].stage = kids[q].stage /\ kids'[q].note = kids[q].note
               /\ kids'[q].live => kids[q].live
               /\ kids[q].live => kids'[q].live
    BY <2>4, <2>5, <2>7
  <2>9. Staged(sh, kids')
    BY <2>8 DEF ShellInv, Staged
  <2>10. Reached(sh, kids', g_fg)
    BY <2>8 DEF ShellInv, Reached
  <2>11. Told(sh, kids', ended)
    <3>1. ASSUME NEW q \in Kids, Noted(kids[q], sh.n, ended) PROVE Noted(kids'[q], sh.n, ended)
      BY <2>8, <3>1 DEF Noted
    <3>2. ASSUME Counts(sh), Len(sh.pids) = sh.n PROVE sh.pids[sh.n] \in Kids
      <4>1. sh.pids \in Seq(Kids) /\ sh.pids # <<>>
        BY <3>2 DEF ShellInv, Types, Lines, Counts
      <4>2. Len(sh.pids) \in 1 .. Len(sh.pids)
        BY <4>1
      <4> QED
        BY <3>2, <4>1, <4>2
    <3> QED
      BY <3>1, <3>2 DEF ShellInv, Told
  <2>12. Types'
    BY <2>1, <2>3, <2>7 DEF ShellInv, Types
  <2> QED
    BY <2>1, <2>9, <2>10, <2>11, <2>12 DEF ShellInv
<1>3. CASE Reads(p)
  <2> DEFINE i == kids[p].in.pipe
  <2>1. /\ held[i] > 0 /\ held' = [held EXCEPT ![i] = held[i] - 1]
        /\ UNCHANGED <<sh, fd, g_fg, kids, ended>>
    BY <1>3 DEF Reads
  <2> HIDE DEF i
  <2>2. held' \in [Pipes -> 0 .. kPipeBytes]
    <3>1. i \in Pipes => held[i] - 1 \in 0 .. kPipeBytes
      BY <1>1, <2>1, ShellAssumption
    <3> QED
      BY <1>1, <2>1, <3>1
  <2>3. Types'
    BY <2>1, <2>2 DEF ShellInv, Types
  <2> QED
    BY <2>1, <2>3 DEF ShellInv
<1> QED
  BY <1>2, <1>3

-----------------------------------------------------------------------------
(* The theorems.                                                           *)

\* The shell starts so.
LEMMA InitInv == Init => ShellInv
<1> SUFFICES ASSUME Init PROVE ShellInv
  OBVIOUS
<1>1. /\ sh = AtPrompt /\ g_fg = <<>> /\ held = [i \in Pipes |-> 0] /\ ended = "ok"
      /\ fd = [f \in Fds |-> IF f \in AtStart THEN Tty ELSE Nothing] /\ kids = [p \in Kids |-> NoKid]
  BY DEF Init
<1>2. fd \in [Fds -> Things] /\ \A f \in Fds : fd[f] = IF f \in AtStart THEN Tty ELSE Nothing
  BY <1>1 DEF Things
<1>3. Opened(AtPrompt, fd)
  BY <1>2, AtPromptFacts, FdFacts DEF Opened
<1>4. \A p \in Kids : ~(kids[p].live /\ kids[p].stage # 0)
  BY <1>1, NoKidFacts
<1>5. \A k \in DOMAIN g_fg : g_fg[k] = 0
  BY <1>1
<1>6. Job(sh, kids, g_fg)
  BY <1>4, <1>5, NobodyJob
<1>7. Told(sh, kids, ended)
  BY <1>1, AtPromptFacts, NothingTold
<1>8. Types
  <2>1. g_fg \in Seq(Kids \cup {0}) /\ Len(g_fg) <= kMaxFg
    BY <1>1, ShellAssumption
  <2>2. held \in [Pipes -> 0 .. kPipeBytes] /\ ended \in Status
    BY <1>1, ShellAssumption DEF Status
  <2>3. kids \in [Kids -> Children]
    BY <1>1, NoKidFacts
  <2> QED
    BY <1>1, <1>2, <2>1, <2>2, <2>3, AtPromptFacts DEF Types
<1> QED
  BY <1>1, <1>3, <1>6, <1>7, <1>8, AtPromptFacts DEF ShellInv, Job, Descriptors

\* Every step keeps it.
LEMMA NextInv == ShellInv /\ [Next]_vars => ShellInv'
<1> SUFFICES ASSUME ShellInv, [Next]_vars PROVE ShellInv'
  OBVIOUS
<1>1. CASE UNCHANGED vars
  BY <1>1 DEF vars, ShellInv, Types
<1>2. ASSUME NEW op, SkipJob(op) PROVE ShellInv'
  BY <1>2, SkipJobKeeps
<1>3. ASSUME NEW op, NEW job \in run_job, RunJob(op, job) PROVE ShellInv'
  BY <1>3, RunJobKeeps
<1>4. ASSUME NEW p \in Kids, builtin_kill(p) PROVE ShellInv'
  <2>1. {p} \subseteq Kids /\ (\A q \in {p} : kids[q].live) /\ "killed" \in Status
    BY <1>4 DEF builtin_kill, Status
  <2>2. End({p}, "killed") /\ sh.pc = "prompt" /\ sh' = AtPrompt /\ UNCHANGED <<fd, g_fg, held>>
    BY <1>4 DEF builtin_kill
  <2> QED
    BY <2>1, <2>2, EndKeeps
<1>5. CASE ShellStep
  BY <1>5, MakePipeKeeps, RedirectInKeeps, RedirectOutKeeps, WhichKeeps, RunStageKeeps, ParentKeeps,
     StartedKeeps, WaitStageKeeps, WaitedKeeps, SubstFdKeeps, SubstWaitKeeps DEF ShellStep
<1>6. CASE Substitute
  BY <1>6, SubstituteKeeps
<1>7. CASE Interrupt
  <2> DEFINE S == {p \in Kids : p \in Range(g_fg) /\ kids[p].live}
  <2>1. End(S, "killed") /\ UNCHANGED <<sh, fd, g_fg, held>>
    BY <1>7 DEF Interrupt
  <2>2. S \subseteq Kids /\ (\A q \in S : kids[q].live) /\ "killed" \in Status
    BY DEF Status
  <2> HIDE DEF S
  <2> QED
    BY <2>1, <2>2, EndKeeps
<1>8. ASSUME NEW p \in Kids, Writes(p) \/ Reads(p) PROVE ShellInv'
  BY <1>8, ProgramKeeps
<1>9. ASSUME NEW p \in Kids, Exits(p) \/ ExitsEarly(p) PROVE ShellInv'
  <2>1. kids[p].live /\ UNCHANGED <<sh, fd, g_fg, held>>
    BY <1>9 DEF Exits, ExitsEarly
  <2>2. PICK st \in {"ok", "failed"} : End({p}, st)
    BY <1>9 DEF Exits, ExitsEarly
  <2>3. {p} \subseteq Kids /\ (\A q \in {p} : kids[q].live) /\ st \in Status
    BY <2>1 DEF Status
  <2> QED
    BY <2>1, <2>2, <2>3, EndKeeps
<1> QED
  BY <1>1, <1>2, <1>3, <1>4, <1>5, <1>6, <1>7, <1>8, <1>9 DEF Next, Program

\* The invariant holds always.
LEMMA ShellAlways == Spec => []ShellInv
<1> QED
  BY InitInv, NextInv, PTL DEF Spec

\* At the prompt the shell has what it began with: no way out of run_one(),
\* run_pipeline() or substitute() leaves a descriptor open, a stage running or a
\* process that Ctrl-C is still for.
THEOREM CleanPromptAlways == Spec => []CleanPrompt
<1>1. ASSUME ShellInv PROVE CleanPrompt
  <2>1. TypeOK
    <3>1. sh.pc \in Pcs /\ sh.pids \in Seq(Kids) /\ Len(sh.pids) <= kMaxStage
      BY <1>1 DEF ShellInv, Types, Lines, Place
    <3>2. Range(sh.pids) \subseteq Kids
      BY <3>1 DEF Range
    <3>3. \A f \in {sh.in, sh.out, sh.next_in, sh.carried} \ {None} : fd[f] # Nothing
      BY <1>1 DEF ShellInv, Descriptors, Opened, Own
    <3>4. Len(g_fg) <= kMaxFg /\ Range(g_fg) \subseteq Kids \cup {0}
      BY <1>1 DEF ShellInv, Types, Range
    <3>5. \A i \in Pipes : held[i] \in 0 .. kPipeBytes
      BY <1>1 DEF ShellInv, Types
    <3> QED
      BY <3>1, <3>2, <3>3, <3>4, <3>5 DEF TypeOK, Pcs, Idle, Starting
  <2>2. ASSUME sh.pc = "prompt"
        PROVE  /\ \A f \in Fds : fd[f] = IF f \in AtStart THEN Tty ELSE Nothing
               /\ \A p \in Kids : kids[p].live => kids[p].stage = 0
               /\ Range(g_fg) \subseteq {0}
    <3>1. Own(sh) = {} /\ Opened(sh, fd)
      BY <1>1, <2>2 DEF ShellInv, Descriptors, Used
    <3>2. ASSUME NEW f \in Fds PROVE fd[f] = IF f \in AtStart THEN Tty ELSE Nothing
      BY <2>2, <3>1 DEF Opened
    <3>3. /\ \A p \in Kids : ~(kids[p].live /\ kids[p].stage # 0)
          /\ \A k \in DOMAIN g_fg : g_fg[k] = 0
      BY <1>1, <2>2, IdleFacts DEF ShellInv, Idle
    <3> QED
      BY <3>2, <3>3 DEF Range
  <2> QED
    BY <2>1, <2>2 DEF CleanPrompt
<1> QED
  BY <1>1, ShellAlways, PTL

\* Ctrl-C is for every stage of the line that runs, also when stages end, and
\* their pids come back, while the others are started (fg_add, fg_drop).
THEOREM CtrlCReachesAlways == Spec => []CtrlCReaches
<1>1. ASSUME ShellInv PROVE CtrlCReaches
  <2> SUFFICES ASSUME NEW p \in Kids, kids[p].live, kids[p].stage # 0,
                      ~(sh.pc = "parent" /\ p = Last(sh.pids))
               PROVE  p \in Range(g_fg) \/ Len(g_fg) = kMaxFg
    BY DEF CtrlCReaches
  <2>1. (\E k \in DOMAIN g_fg : g_fg[k] = p) \/ Len(g_fg) = kMaxFg
    BY <1>1 DEF ShellInv, Reached, Last
  <2> QED
    BY <2>1 DEF Range
<1> QED
  BY <1>1, ShellAlways, PTL

\* The status && and || go by is what the last stage ended with, in whatever
\* order the stages end, are killed and are waited for (wait_pid, StatusOf),
\* unless two of them had the same pid.
THEOREM StatusKeptAlways == Spec => []StatusKept
<1>1. ASSUME ShellInv PROVE StatusKept
  <2> SUFFICES ASSUME sh.pc = "prompt", sh.pids # <<>>, ~sh.failed, IsInjective(sh.pids)
               PROVE  sh.status = ended
    BY DEF StatusKept
  <2>1. ~sh.background
    BY <1>1 DEF ShellInv, Place
  <2>2. DOMAIN sh.pids = 1 .. Len(sh.pids)
    BY <1>1 DEF ShellInv, Types, Lines
  <2>3. \A j, k \in 1 .. Len(sh.pids) : sh.pids[j] = sh.pids[k] => j = k
    BY <2>2 DEF IsInjective
  <2>4. Counts(sh)
    BY <2>1, <2>3 DEF Counts
  <2> QED
    BY <1>1, <2>4 DEF ShellInv, Told
<1> QED
  BY <1>1, ShellAlways, PTL
=============================================================================
