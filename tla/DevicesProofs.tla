---------------------------- MODULE DevicesProofs ----------------------------
(***************************************************************************)
(* Proofs about the drivers.                                               *)
(*                                                                         *)
(* The IDE controller, for any number of tasks and any length of a call:   *)
(* that a call of programmed i/o which returns EOK has moved all its       *)
(* sectors follows from how far the call and the drive are, each with the  *)
(* other.  Of a DMA transfer it follows only where nothing is late, fails  *)
(* or is an IDENTIFY, IdeQuiet.                                            *)
(*                                                                         *)
(* The floppy disk, for any number of tasks and requests: FdInv follows    *)
(* the one call under fd->lock.  What it needs besides the lock is that    *)
(* the controller never works, nor has an interrupt pending, for anybody   *)
(* but the task in fd->waiter, so that nothing touches the DMA buffer      *)
(* between the copy and the transfer, or the transfer and the copy.        *)
(*                                                                         *)
(* The network, for any number of packets, hosts and descriptors: every    *)
(* operator moves a packet between the places where packets are, and the   *)
(* count of a packet less the places it is in, Lent, says how often it is  *)
(* in nobody's place but in the hands of the thread that works on it.      *)
(* Between two steps nothing is lent and no packet is shared: NetInv.      *)
(***************************************************************************)
EXTENDS Devices, FiniteSetTheorems, FunctionTheorems, SequenceTheorems, TLAPS

IdeOps == {"read", "write", "udma", "identify"}
IdePcs == {"user", "lock", "ready", "block", "woken", "read", "write", "named", "reset"}
IdeWaits == {"block", "woken", "read", "write", "named"}   \* with a command under way
IdeCalls == [op : IdeOps \cup {"none"}, pc : IdePcs, i : Int, n : Int, moved : Int,
             last : {"none", "failed", "done", "short_pio", "short_dma"}]
IdeDrives == [owner : IdeTasks \cup {0}, op : IdeOps \cup {"none", "reset"},
              phase : {"idle", "busy", "drq", "err"}, left : Int]

IdeHalts == {"", "off", "task_unblock", "ide_stop_dma"}
IdeStates ==
  [lock : IdeTasks \cup {0}, waiter : IdeTasks \cup {0}, irq : BOOLEAN,
   call : [IdeTasks -> IdeCalls], drive : IdeDrives, scene : IdeScenes, halt : IdeHalts]

IdeTypes == ide \in IdeStates

\* The holder of the lock is the one task inside, and a command belongs to a
\* task that has given it.
IdeInside ==
  \A t \in IdeTasks :
    /\ ide.call[t].pc \notin {"user", "lock"} <=> ide.lock = t
    /\ ide.drive.owner = t => ide.call[t].pc \in IdeWaits

\* What a task waits for fits its call; nothing is moved before the command.
IdePlace(c) ==
  /\ c.last # "short_pio" /\ (Sure => c.last # "short_dma")
  /\ c.pc # "user" => c.op \in ide.scene /\ c.op \in IdeOps /\ c.n >= 1
  /\ c.pc \in {"lock", "ready"} => c.i = 0 /\ c.moved = 0
  /\ c.pc \in {"ready", "reset"} => c.op # "udma"
  /\ c.pc = "ready" => c.op # "identify"
  /\ c.op = "identify" => c.n = 1
  /\ c.pc \in {"block", "woken"} => c.op \in {"read", "write", "udma"}
  /\ c.pc \in {"read", "write"} => c.op = c.pc
  /\ c.pc = "named" => c.op = "identify"

\* How far a call and the drive are with one command.
IdeProgress(c, d) ==
  /\ d.op = c.op /\ 0 <= c.i /\ c.i < c.n
  /\ c.op \in {"read", "identify"} =>
       c.moved = c.i /\ d.left = c.n - c.i /\ d.phase # "idle"
  /\ c.op = "write" =>
       IF d.phase \in {"busy", "err"} THEN c.moved = c.i /\ d.left = c.n - c.i
       ELSE c.moved = c.i + 1 /\ d.left = c.n - c.i - 1 /\ (d.phase = "idle" <=> d.left = 0)
  /\ c.op = "identify" => c.i = 0
  /\ c.op = "udma" => IF d.phase \in {"busy", "err"} THEN c.moved = 0 /\ d.left = c.n ELSE c.moved = c.n

\* Without late interrupts, errors and IDENTIFY the drive works only for a task
\* that sleeps, and an interrupt that is pending is for it.
IdeQuiet ==
  Sure =>
    /\ ide.drive.phase # "err"
    /\ ide.drive.phase = "busy" => ~ ide.irq /\ \E t \in IdeTasks : ide.call[t].pc = "block"
    /\ ide.irq => \E t \in IdeTasks : ide.call[t].pc = "block"

IdeInv ==
  /\ IdeTypes /\ IdeInside /\ IdeQuiet
  /\ \A t \in IdeTasks : IdePlace(ide.call[t])
  /\ \A t \in IdeTasks : ide.call[t].pc \in IdeWaits =>
                           ide.drive.owner = t /\ IdeProgress(ide.call[t], ide.drive)

LEMMA IdeStart == ASSUME NEW halt \in IdeHalts PROVE IdeInit(halt) => IdeInv
BY IdeAssumption DEF IdeInit, IdeInv, IdeTypes, IdeStates, IdeInside, IdeQuiet, Sure, May, IdePlace, IdeProgress, NoCall,
     IdleDrive, IdeOps, IdePcs, IdeWaits, IdeCalls, IdeDrives

\* A step of task t, or of the drive for it, that makes its call c, keeps the
\* invariant if c and the drive fit each other: the others are out of the lock,
\* or t is and the drive is left alone.
LEMMA OneCallSteps ==
  ASSUME IdeInv, IdeTypes', NEW t \in IdeTasks, NEW c \in IdeCalls,
         ide'.scene = ide.scene, ide'.call = [ide.call EXCEPT ![t] = c],
         ide'.lock = ide.lock \/ {ide'.lock, ide.lock} \subseteq {0, t},
         c.pc \notin {"user", "lock"} <=> ide'.lock = t,
         ide'.drive.owner = t => c.pc \in IdeWaits,
         ide'.drive.owner \in {t, 0, ide.drive.owner},
         ide'.drive = ide.drive \/ ide.lock \in {0, t},
         IdePlace(c), c.pc \in IdeWaits => ide'.drive.owner = t /\ IdeProgress(c, ide'.drive),
         IdeQuiet'
  PROVE  IdeInv'
<1>1. \A u \in IdeTasks : ide'.call[u] = IF u = t THEN c ELSE ide.call[u]
  BY DEF IdeInv, IdeTypes, IdeStates
<1>2. IdeInside'
  BY <1>1, IdeAssumption DEF IdeInv, IdeInside
<1>3. \A u \in IdeTasks : IdePlace(ide.call[u])'
  BY <1>1 DEF IdeInv, IdePlace, Sure, May
<1>4. ASSUME NEW u \in IdeTasks, ide'.call[u].pc \in IdeWaits
      PROVE  ide'.drive.owner = u /\ IdeProgress(ide'.call[u], ide'.drive)
  <2>1. CASE u = t
    BY <1>1, <1>4, <2>1
  <2>2. CASE u # t
    <3>1. ide.call[u].pc \in IdeWaits /\ ide.lock = u
      BY <1>1, <1>4, <2>2 DEF IdeInv, IdeInside, IdeWaits
    <3>2. ide'.drive = ide.drive
      BY <2>2, <3>1, IdeAssumption
    <3> QED
      BY <1>1, <2>2, <3>1, <3>2 DEF IdeInv
  <2> QED
    BY <2>1, <2>2
<1> QED
  BY <1>2, <1>3, <1>4 DEF IdeInv

\* The end of a call, with the sectors moved or with a failure.
LEMMA IdeReturns ==
  ASSUME IdeInv, NEW t \in IdeTasks, ide.lock = t, ide.irq => ~ Sure,
         NEW ret \in {"EOK", "failed"},
         NEW s, s.lock = ide.lock, s.waiter = ide.waiter, s.irq = ide.irq,
         s \in IdeStates,
         s.scene = ide.scene, \A u \in IdeTasks \ {t} : s.call[u] = ide.call[u],
         s.drive.owner \in {0, ide.drive.owner},
         Sure => s.drive.phase \notin {"busy", "err"},
         ret = "EOK" => s.call[t].moved = s.call[t].n \/ (s.call[t].op = "udma" /\ ~ Sure),
         ide' = IdeReturn(s, t, ret)
  PROVE  IdeInv'
<1> DEFINE last == IF ret # "EOK" THEN "failed"
                   ELSE IF s.call[t].moved = s.call[t].n THEN "done" ELSE "short_dma"
           c == [NoCall EXCEPT !.last = last]
<1>0. last \in {"failed", "done", "short_dma"} /\ (last = "short_dma" => ~ Sure)
  OBVIOUS
<1>l. last = IF ret # "EOK" THEN "failed"
             ELSE IF s.call[t].moved = s.call[t].n THEN "done"
             ELSE IF s.call[t].op = "udma" THEN "short_dma" ELSE "short_pio"
  OBVIOUS
<1> HIDE DEF last
<1>1. c \in IdeCalls /\ c.pc = "user" /\ IdePlace(c)
  BY <1>0 DEF NoCall, IdeCalls, IdeOps, IdePcs, IdePlace
<1>2. /\ ide'.lock = 0 /\ ide'.scene = s.scene /\ ide'.irq = s.irq
      /\ ide'.call = [s.call EXCEPT ![t] = c]
      /\ ide'.drive = [s.drive EXCEPT !.owner = IF @ = t THEN 0 ELSE @]
      /\ ide'.waiter = s.waiter /\ ide'.halt = s.halt
  BY <1>l DEF IdeReturn, IdeInv, IdeTypes, IdeStates
<1>3. IdeTypes'
  <2>1. [s.call EXCEPT ![t] = c] \in [IdeTasks -> IdeCalls]
    BY <1>1 DEF IdeStates
  <2>2. [s.drive EXCEPT !.owner = IF @ = t THEN 0 ELSE @] \in IdeDrives
    BY DEF IdeDrives, IdeStates
  <2> QED
    BY <1>l, <1>2, <2>1, <2>2 DEF IdeReturn, IdeTypes, IdeStates
<1>4. ide'.call = [ide.call EXCEPT ![t] = c]
  BY <1>2 DEF IdeInv, IdeTypes, IdeStates
<1>5. ide'.drive.owner # t /\ ide'.drive.owner \in {0, ide.drive.owner}
  BY <1>2, IdeAssumption DEF IdeDrives
<1>6. IdeQuiet'
  <2>1. ide'.drive.phase = s.drive.phase
    BY <1>2 DEF IdeDrives
  <2> QED
    BY <1>2, <2>1 DEF IdeQuiet, Sure, May
<1> HIDE DEF c
<1>7. IdeWaits \subseteq IdePcs \ {"user", "lock"} /\ t # 0
  BY IdeAssumption DEF IdeWaits, IdePcs
<1> QED
  BY <1>1, <1>2, <1>3, <1>4, <1>5, <1>6, <1>7, OneCallSteps

\* task_block keeps the types.
LEMMA BlockTypes ==
  ASSUME NEW t \in IdeTasks, NEW s \in IdeStates, ide' = IdeBlock(s, t)
  PROVE  IdeTypes'
<1>1. [s.call[t] EXCEPT !.pc = "block"] \in IdeCalls
  BY DEF IdeStates, IdeCalls, IdePcs
<1>2. ide' = [s EXCEPT !.waiter = t, !.call = [s.call EXCEPT ![t] = [s.call[t] EXCEPT !.pc = "block"]]]
  BY DEF IdeStates, IdeBlock
<1> QED
  BY ZenonT(60), <1>1, <1>2 DEF IdeStates, IdeTypes

\* With the controller's lock to itself, and not asleep, a task has a drive that
\* is quiet.
LEMMA QuietInside ==
  ASSUME IdeInv, NEW t \in IdeTasks, ide.lock = t \/ ide.lock = 0, ide.call[t].pc # "block",
         Sure
  PROVE  ~ ide.irq /\ ide.drive.phase \notin {"busy", "err"}
<1>1. \A u \in IdeTasks : ide.call[u].pc # "block"
  BY IdeAssumption DEF IdeInv, IdeInside
<1> QED
  BY <1>1 DEF IdeInv, IdeQuiet, Sure, May

\* The start of a call and its way into the lock.
LEMMA IdeBegins ==
  ASSUME IdeInv, NEW t \in IdeTasks
  PROVE  /\ \A op \in IdeOps : Call(t, op) => IdeInv'
         /\ Enter(t) => IdeInv'
<1> USE DEF IdeDo, Pc, May
<1>0. t # 0 /\ ide.call[t] \in IdeCalls
  BY IdeAssumption DEF IdeInv, IdeTypes, IdeStates
<1>1. ASSUME NEW op \in IdeOps, Call(t, op) PROVE IdeInv'
  <2> DEFINE k == IF op = "identify" THEN 1 ELSE SectorNr
             c == [NoCall EXCEPT !.op = op, !.pc = "lock", !.n = k]
  <2>1. c \in IdeCalls /\ IdePlace(c) /\ c.pc = "lock"
    <3>0. op \in ide.scene
      BY <1>1 DEF Call
    <3>1. k \in Int /\ k >= 1 /\ (op = "identify" => k = 1)
      BY IdeAssumption
    <3> HIDE DEF k
    <3>2. c.op = op /\ c.pc = "lock" /\ c.i = 0 /\ c.moved = 0 /\ c.last = "none" /\ c.n = k
      BY DEF NoCall
    <3>3. NoCall \in IdeCalls
      BY DEF NoCall, IdeCalls, IdePcs
    <3>4. c \in IdeCalls
      BY <3>1, <3>3 DEF IdeCalls, IdePcs
    <3> HIDE DEF c
    <3> QED
      BY <3>0, <3>1, <3>2, <3>4 DEF IdePlace
  <2>2. ide' = [ide EXCEPT !.call[t] = c]
    BY <1>1 DEF Call
  <2> HIDE DEF c
  <2>3. IdeTypes'
    BY <2>1, <2>2 DEF IdeInv, IdeTypes, IdeStates
  <2>4. /\ ide'.call = [ide.call EXCEPT ![t] = c] /\ ide'.scene = ide.scene
        /\ ide'.lock = ide.lock /\ ide'.drive = ide.drive /\ ide'.irq = ide.irq
    BY <2>2 DEF IdeInv, IdeTypes, IdeStates
  <2>5. ide.lock # t /\ ide.drive.owner # t /\ ide.call[t].pc = "user"
    BY <1>1 DEF Call, IdeInv, IdeInside, IdeWaits
  <2>6. IdeQuiet'
    BY <2>4, <2>5 DEF IdeInv, IdeTypes, IdeStates, IdeQuiet, Sure, May
  <2>7. "lock" \notin IdeWaits
    BY DEF IdeWaits
  <2> QED
    BY <2>1, <2>3, <2>4, <2>5, <2>6, <2>7, OneCallSteps
<1>2. ASSUME Enter(t) PROVE IdeInv'
  <2>0. ide.lock = 0 /\ ide.call[t].pc = "lock"
    BY <1>2 DEF Enter
  <2>q. Sure => ~ ide.irq /\ ide.drive.phase \notin {"busy", "err"}
    BY <2>0, QuietInside
  <2>p. IdePlace(ide.call[t]) /\ IdeTypes
    BY DEF IdeInv
  <2>1. CASE ide.call[t].op = "udma"
    <3> DEFINE c == [ide.call[t] EXCEPT !.pc = "block"]
               d == [owner |-> t, op |-> "udma", left |-> ide.call[t].n, phase |-> "busy"]
    <3>1. c \in IdeCalls /\ d \in IdeDrives /\ c.pc = "block" /\ IdePlace(c)
      BY <1>0, <2>0, <2>1, <2>p DEF IdeCalls, IdePcs, IdeOps, IdeDrives, IdePlace
    <3>2. IdeProgress(c, d)
      <4>1. /\ c.op = "udma" /\ c.i = 0 /\ c.moved = 0 /\ c.n = ide.call[t].n /\ c.n >= 1
            /\ c.n \in Int /\ (c.op = "identify" => c.n = 1)
        BY <1>0, <2>0, <2>1, <2>p DEF IdePlace, IdeCalls
      <4>2. d.op = "udma" /\ d.phase = "busy" /\ d.left = ide.call[t].n
        OBVIOUS
      <4> HIDE DEF c, d
      <4> QED
        BY <4>1, <4>2 DEF IdeProgress
    <3>3. ide' = [ide EXCEPT !.lock = t, !.drive = d, !.waiter = t, !.call[t].pc = "block"]
      BY <1>2, <2>1, <2>p DEF Enter, IdeBlock, Command, IdeTypes, IdeStates
    <3>4. /\ ide'.call = [ide.call EXCEPT ![t] = c] /\ ide'.scene = ide.scene
          /\ ide'.lock = t /\ ide'.drive = d /\ ide'.irq = ide.irq /\ ide'.waiter = t /\ ide'.halt = ide.halt
      BY <3>3, <2>p DEF IdeTypes, IdeStates
    <3> HIDE DEF c, d
    <3>5. IdeTypes'
      BY ZenonT(60), <3>1, <3>3, <3>4, <2>p DEF IdeTypes, IdeStates
    <3>6. IdeQuiet' /\ d.owner = t
      <4>1. d.owner = t /\ d.phase = "busy"
        BY DEF d
      <4>2. ide'.call[t].pc = "block"
        BY <3>1, <3>4, <2>p DEF IdeTypes, IdeStates
      <4> QED
        BY <4>1, <4>2, <3>4, <2>q DEF IdeQuiet, Sure, May
    <3>7. "block" \in IdeWaits
      BY DEF IdeWaits
    <3> QED
      BY <2>0, <3>1, <3>2, <3>4, <3>5, <3>6, <3>7, OneCallSteps
  <2>2. CASE ide.call[t].op = "identify"
    <3> DEFINE c == [ide.call[t] EXCEPT !.pc = "named"]
               d == [owner |-> t, op |-> "identify", left |-> ide.call[t].n, phase |-> "busy"]
    <3>1. c \in IdeCalls /\ d \in IdeDrives /\ c.pc = "named" /\ IdePlace(c)
      BY <1>0, <2>0, <2>2, <2>p DEF IdeCalls, IdePcs, IdeOps, IdeDrives, IdePlace
    <3>2. IdeProgress(c, d)
      <4>1. /\ c.op = "identify" /\ c.i = 0 /\ c.moved = 0 /\ c.n = ide.call[t].n /\ c.n >= 1
            /\ c.n \in Int /\ (c.op = "identify" => c.n = 1)
        BY <1>0, <2>0, <2>2, <2>p DEF IdePlace, IdeCalls
      <4>2. d.op = "identify" /\ d.phase = "busy" /\ d.left = ide.call[t].n
        OBVIOUS
      <4> HIDE DEF c, d
      <4> QED
        BY <4>1, <4>2 DEF IdeProgress
    <3>3. ide' = [ide EXCEPT !.lock = t, !.drive = d, !.call[t].pc = "named"]
      BY <1>2, <2>2, <2>p DEF Enter, Command, IdeTypes, IdeStates
    <3>4. /\ ide'.call = [ide.call EXCEPT ![t] = c] /\ ide'.scene = ide.scene
          /\ ide'.lock = t /\ ide'.drive = d /\ ide'.irq = ide.irq /\ ide'.waiter = ide.waiter /\ ide'.halt = ide.halt
      BY <3>3, <2>p DEF IdeTypes, IdeStates
    <3>n. ~ Sure
      BY <2>0, <2>2, <2>p DEF IdePlace, Sure
    <3> HIDE DEF c, d
    <3>5. IdeTypes'
      BY ZenonT(60), <3>1, <3>3, <3>4, <2>p DEF IdeTypes, IdeStates
    <3>6. IdeQuiet' /\ d.owner = t
      BY <3>4, <3>n DEF IdeQuiet, Sure, May, d
    <3>7. "named" \in IdeWaits
      BY DEF IdeWaits
    <3> QED
      BY <2>0, <3>1, <3>2, <3>4, <3>5, <3>6, <3>7, OneCallSteps
  <2>3. CASE ide.call[t].op \notin {"udma", "identify"}
    <3> DEFINE c == [ide.call[t] EXCEPT !.pc = "ready"]
    <3>1. c \in IdeCalls /\ c.pc = "ready" /\ IdePlace(c)
      BY <1>0, <2>0, <2>3, <2>p DEF IdeCalls, IdePcs, IdeOps, IdePlace
    <3>3. ide' = [ide EXCEPT !.lock = t, !.call[t].pc = "ready"]
      BY <1>2, <2>3, <2>p DEF Enter, IdeTypes, IdeStates
    <3>4. /\ ide'.call = [ide.call EXCEPT ![t] = c] /\ ide'.scene = ide.scene
          /\ ide'.lock = t /\ ide'.drive = ide.drive /\ ide'.irq = ide.irq /\ ide'.waiter = ide.waiter /\ ide'.halt = ide.halt
      BY <3>3, <2>p DEF IdeTypes, IdeStates
    <3> HIDE DEF c
    <3>5. IdeTypes'
      BY <3>1, <3>3, <3>4, <2>p DEF IdeTypes, IdeStates
    <3>6. IdeQuiet'
      BY <3>4, <2>q DEF IdeQuiet, Sure, May
    <3>7. "ready" \notin IdeWaits /\ ide.drive.owner # t
      BY <2>0 DEF IdeWaits, IdeInv, IdeInside
    <3> QED
      BY <2>0, <3>1, <3>4, <3>5, <3>6, <3>7, OneCallSteps
  <2> QED
    BY <2>1, <2>2, <2>3
<1> QED
  BY <1>1, <1>2

\* The task that holds the lock goes on with its call.
LEMMA IdeGoesOn ==
  ASSUME IdeInv, NEW t \in IdeTasks, ide.lock = t, IdeTypes',
         ide'.scene = ide.scene, ide'.irq = ide.irq, ide'.lock = t,
         \A u \in IdeTasks \ {t} : ide'.call[u] = ide.call[u],
         ide'.call[t].pc \notin {"user", "lock"},
         ide'.call[t].pc \in IdeWaits => ide'.drive.owner = t /\ IdeProgress(ide'.call[t], ide'.drive),
         ide'.call[t].pc \notin IdeWaits => ide'.drive.owner = 0,
         IdePlace(ide'.call[t]),
         IdeQuiet'
  PROVE  IdeInv'
<1>1. ide'.call = [ide.call EXCEPT ![t] = ide'.call[t]] /\ ide'.call[t] \in IdeCalls
  BY DEF IdeInv, IdeTypes, IdeStates
<1>2. ide'.drive.owner \in {t, 0}
  OBVIOUS
<1>3. ide'.drive.owner = t => ide'.call[t].pc \in IdeWaits
  BY IdeAssumption
<1> QED
  BY <1>1, <1>2, <1>3, OneCallSteps

\* Of an interrupt, or of the drive with a command that no task waits for.
LEMMA NoCallSteps ==
  ASSUME IdeInv, IdeTypes', ide'.call = ide.call, ide'.lock = ide.lock, ide'.scene = ide.scene,
         ide'.drive.owner = ide.drive.owner, ide'.drive = ide.drive \/ ide.drive.owner = 0, IdeQuiet'
  PROVE  IdeInv'
<1>1. IdeInside'
  BY DEF IdeInv, IdeInside
<1>2. \A t \in IdeTasks : IdePlace(ide.call[t])'
  BY DEF IdeInv, IdePlace, Sure, May
<1>3. \A t \in IdeTasks : ide.call[t].pc \in IdeWaits => ide'.drive = ide.drive
  BY IdeAssumption DEF IdeInv
<1> QED
  BY <1>1, <1>2, <1>3 DEF IdeInv

\* An assertion that fails.
LEMMA HaltSteps ==
  ASSUME IdeInv, NEW halt \in IdeHalts, ide' = [ide EXCEPT !.halt = halt]
  PROVE  IdeInv'
<1>0. ide \in IdeStates
  BY DEF IdeInv, IdeTypes
<1>1. /\ ide' \in IdeStates /\ ide'.call = ide.call /\ ide'.lock = ide.lock /\ ide'.scene = ide.scene
      /\ ide'.drive = ide.drive /\ ide'.irq = ide.irq
  BY <1>0 DEF IdeStates
<1>2. IdeQuiet' /\ IdeTypes'
  BY <1>1 DEF IdeInv, IdeQuiet, Sure, May, IdeTypes
<1> QED
  BY <1>1, <1>2, NoCallSteps

\* task_block returns EOK.
LEMMA IdeWoken ==
  ASSUME IdeInv, NEW t \in IdeTasks, Woken(t)
  PROVE  IdeInv'
<1>1. ide.call[t].pc = "woken" /\ ide.call[t] \in IdeCalls /\ ide.lock = t /\ t # 0
  BY IdeAssumption DEF Woken, Pc, IdeInv, IdeInside, IdeTypes, IdeStates
<1>2. IdePlace(ide.call[t]) /\ IdeProgress(ide.call[t], ide.drive) /\ ide.drive.owner = t /\ IdeTypes
  BY <1>1 DEF IdeInv, IdeWaits
<1>3. Sure => ~ ide.irq /\ ide.drive.phase \notin {"busy", "err"}
  BY <1>1, QuietInside
<1>4. CASE ide.call[t].op = "udma"
  <2>1. ide' = IdeReturn(ide, t, "EOK") \/ ide' = [ide EXCEPT !.halt = "ide_stop_dma"]
    BY <1>4 DEF Woken, IdeDo
  <2>2. ide.call[t].moved = ide.call[t].n \/ ~ Sure
    BY <1>1, <1>2, <1>3, <1>4 DEF IdePlace, IdeProgress
  <2>3. CASE ide' = IdeReturn(ide, t, "EOK")
    BY <1>1, <1>2, <1>3, <1>4, <2>2, <2>3, IdeReturns DEF IdeTypes, IdeStates
  <2>4. CASE ide' = [ide EXCEPT !.halt = "ide_stop_dma"]
    <3>1. "ide_stop_dma" \in IdeHalts
      BY DEF IdeHalts
    <3> QED
      BY <2>4, <3>1, HaltSteps
  <2> QED
    BY <2>1, <2>3, <2>4
<1>5. CASE ide.call[t].op # "udma"
  <2>1. ide' = [ide EXCEPT !.call[t].pc = ide.call[t].op]
    BY <1>5 DEF Woken, IdeDo
  <2>2. ide.call[t].op \in {"read", "write"}
    BY <1>1, <1>2, <1>5 DEF IdePlace
  <2>3. /\ ide'.lock = ide.lock /\ ide'.scene = ide.scene /\ ide'.irq = ide.irq
        /\ ide'.drive = ide.drive
        /\ \A u \in IdeTasks \ {t} : ide'.call[u] = ide.call[u]
        /\ ide'.call[t].pc = ide.call[t].op /\ ide'.call[t].op = ide.call[t].op
        /\ ide'.call[t].i = ide.call[t].i /\ ide'.call[t].n = ide.call[t].n
        /\ ide'.call[t].moved = ide.call[t].moved /\ ide'.call[t].last = ide.call[t].last
    BY <1>2, <2>1 DEF IdeTypes, IdeStates, IdeCalls
  <2>4. IdeTypes'
    <3>1. [ide.call[t] EXCEPT !.pc = ide.call[t].op] \in IdeCalls
      BY <1>1, <2>2 DEF IdeCalls, IdePcs
    <3>2. ide' = [ide EXCEPT !.call = [ide.call EXCEPT ![t] = [ide.call[t] EXCEPT !.pc = ide.call[t].op]]]
      BY <1>2, <2>1 DEF IdeTypes, IdeStates
    <3> QED
      BY <1>2, <3>1, <3>2 DEF IdeTypes, IdeStates
  <2>5. IdePlace(ide'.call[t])
    BY <1>1, <1>2, <2>2, <2>3 DEF IdePlace
  <2>6. IdeProgress(ide'.call[t], ide'.drive)
    BY <1>2, <2>3 DEF IdeProgress
  <2>7. IdeQuiet'
    BY <1>3, <2>3 DEF IdeQuiet, Sure, May
  <2>8. ide'.call[t].pc \notin {"user", "lock"} /\ ide'.call[t].pc \in IdeWaits
    BY <2>2, <2>3 DEF IdeWaits
  <2> QED
    BY <1>1, <1>2, <2>3, <2>4, <2>5, <2>6, <2>7, <2>8, IdeGoesOn
<1> QED
  BY <1>4, <1>5

\* ide_busy_wait ends well.
LEMMA IdeReady ==
  ASSUME IdeInv, NEW t \in IdeTasks, Ready(t)
  PROVE  IdeInv'
<1>1. /\ ide.call[t] \in IdeCalls /\ ide.lock = t /\ t # 0
      /\ IdePlace(ide.call[t]) /\ IdeTypes
      /\ ide.call[t].pc \in {"ready", "read", "write", "named", "reset"}
  BY IdeAssumption DEF Ready, IdeBusyWait, Pc, IdeInv, IdeInside, IdeTypes, IdeStates
<1>2. ide.drive.phase \in {"idle", "drq"} /\ (ide.call[t].pc = "read" => ide.drive.phase = "drq")
  BY <1>1 DEF Ready, IdeBusyWait, Pc, IdeTypes, IdeStates, IdeDrives
<1>3. Sure => ~ ide.irq /\ ide.drive.phase \notin {"busy", "err"}
  BY <1>1, QuietInside
<1>4. ide.call[t].pc \in IdeWaits => IdeProgress(ide.call[t], ide.drive) /\ ide.drive.owner = t
  BY DEF IdeInv
<1>5. CASE ide.call[t].pc = "ready"
  <2>1. ide.call[t].op \in {"read", "write"}
    BY <1>1, <1>5 DEF IdePlace, IdeOps
  <2> DEFINE r == Command(ide, t)
             s == IF ide.call[t].op = "write" THEN WriteSector(r, t) ELSE r
  <2>2. /\ r \in IdeStates /\ r.lock = t /\ r.scene = ide.scene /\ r.irq = ide.irq /\ r.call = ide.call
        /\ r.drive.owner = t /\ r.drive.op = ide.call[t].op /\ r.drive.left = ide.call[t].n
        /\ r.drive.phase = IF ide.call[t].op = "write" THEN "drq" ELSE "busy"
    BY SMTT(60), <1>1, <2>1 DEF Command, IdeTypes, IdeStates, IdeDrives, IdeCalls, IdeOps
  <2>3. ide' = IdeBlock(s, t)
    BY <1>1, <1>5, <2>2 DEF Ready, IdeDo, Pc
  <2> HIDE DEF r
  <2>4. /\ s \in IdeStates /\ s.lock = t /\ s.scene = ide.scene /\ s.irq = ide.irq /\ s.call = ide.call
        /\ s.drive.owner = t /\ s.drive.op = ide.call[t].op /\ s.drive.left = ide.call[t].n
        /\ s.drive.phase = "busy"
    BY <2>1, <2>2 DEF WriteSector, IdeStates, IdeDrives
  <2> HIDE DEF s
  <2>5. /\ ide'.lock = t /\ ide'.scene = ide.scene /\ ide'.irq = ide.irq /\ ide'.drive = s.drive
        /\ \A u \in IdeTasks \ {t} : ide'.call[u] = ide.call[u]
        /\ ide'.call[t].pc = "block" /\ ide'.call[t].op = ide.call[t].op
        /\ ide'.call[t].i = ide.call[t].i /\ ide'.call[t].n = ide.call[t].n
        /\ ide'.call[t].moved = ide.call[t].moved /\ ide'.call[t].last = ide.call[t].last
    BY <1>1, <2>3, <2>4 DEF IdeBlock, IdeStates, IdeCalls
  <2>6. IdeTypes'
    BY <1>1, <2>3, <2>4, BlockTypes
  <2>7. IdePlace(ide'.call[t])
    BY <1>1, <1>5, <2>1, <2>5 DEF IdePlace
  <2>8. IdeProgress(ide'.call[t], ide'.drive)
    BY <1>1, <1>5, <2>1, <2>4, <2>5 DEF IdePlace, IdeProgress, IdeCalls
  <2>9. IdeQuiet' /\ "block" \in IdeWaits
    BY <1>3, <2>4, <2>5 DEF IdeQuiet, Sure, May, IdeWaits
  <2> QED
    BY <1>1, <2>4, <2>5, <2>6, <2>7, <2>8, <2>9, IdeGoesOn
<1>6. CASE ide.call[t].pc \in {"read", "named"}
  <2> DEFINE s == ReadSector(ide, t)
  <2>1. /\ ide.call[t].op \in {"read", "identify"} /\ ide.drive.phase = "drq" /\ ide.drive.owner = t
        /\ ide.call[t].moved = ide.call[t].i /\ ide.drive.left = ide.call[t].n - ide.call[t].i
        /\ ide.call[t].pc = "named" => ide.call[t].n = 1 /\ ide.call[t].i = 0
    BY <1>1, <1>2, <1>4, <1>6 DEF IdePlace, IdeProgress, IdeWaits
  <2>2. s \in IdeStates /\ s.lock = t /\ s.scene = ide.scene /\ s.irq = ide.irq /\ s.waiter = ide.waiter
    <3>1. ide.call[t].moved + 1 \in Int /\ ide.drive.left - 1 \in Int
      BY <1>1 DEF IdeTypes, IdeStates, IdeCalls, IdeDrives
    <3>2. ide \in IdeStates
      BY <1>1 DEF IdeTypes
    <3> QED
      BY ZenonT(60), <1>1, <2>1, <3>1, <3>2 DEF ReadSector, IdeStates, IdeCalls, IdeDrives
  <2>3. /\ \A u \in IdeTasks \ {t} : s.call[u] = ide.call[u]
        /\ s.call[t].pc = ide.call[t].pc /\ s.call[t].op = ide.call[t].op
        /\ s.call[t].i = ide.call[t].i /\ s.call[t].n = ide.call[t].n
        /\ s.call[t].moved = ide.call[t].moved + 1 /\ s.call[t].last = ide.call[t].last
        /\ s.drive.owner = t /\ s.drive.op = ide.drive.op /\ s.drive.left = ide.drive.left - 1
        /\ s.drive.phase = IF ide.drive.left = 1 THEN "idle" ELSE "busy"
    BY ZenonT(60), <1>1, <2>1 DEF ReadSector, IdeTypes, IdeStates, IdeCalls, IdeDrives
  <2> HIDE DEF s
  <2>4. CASE ide' = IdeReturn(s, t, "EOK") /\ ide.call[t].i + 1 = ide.call[t].n
    <3>1. s.call[t].moved = s.call[t].n /\ ide.drive.left = 1
      BY <1>1, <2>1, <2>3, <2>4 DEF IdeCalls
    <3> QED
      BY <1>1, <1>3, <2>1, <2>2, <2>3, <2>4, <3>1, IdeReturns
  <2>5. CASE ide' = IdeBlock(NextSector(s, t), t) /\ ide.call[t].i + 1 # ide.call[t].n /\ ide.call[t].pc = "read"
    <3> DEFINE r == NextSector(s, t)
    <3>1. r \in IdeStates
      BY SMTT(60), <2>2 DEF NextSector, IdeStates, IdeCalls
    <3>2. /\ r.lock = t /\ r.scene = ide.scene /\ r.irq = ide.irq /\ r.drive = s.drive
          /\ \A u \in IdeTasks \ {t} : r.call[u] = ide.call[u]
          /\ r.call[t].op = ide.call[t].op
          /\ r.call[t].i = ide.call[t].i + 1 /\ r.call[t].n = ide.call[t].n
          /\ r.call[t].moved = ide.call[t].moved + 1 /\ r.call[t].last = ide.call[t].last
      BY <2>2, <2>3 DEF NextSector, IdeStates, IdeCalls
    <3>3. ide' = IdeBlock(r, t)
      BY <2>5
    <3> HIDE DEF r
    <3>4. /\ ide'.lock = t /\ ide'.scene = ide.scene /\ ide'.irq = ide.irq /\ ide'.drive = s.drive
          /\ \A u \in IdeTasks \ {t} : ide'.call[u] = ide.call[u]
          /\ ide'.call[t].pc = "block" /\ ide'.call[t].op = ide.call[t].op
          /\ ide'.call[t].i = ide.call[t].i + 1 /\ ide'.call[t].n = ide.call[t].n
          /\ ide'.call[t].moved = ide.call[t].moved + 1 /\ ide'.call[t].last = ide.call[t].last
      BY <3>1, <3>2, <3>3 DEF IdeBlock, IdeStates, IdeCalls
    <3>5. IdeTypes'
      BY <3>1, <3>3, BlockTypes
    <3>6. ide.call[t].op = "read"
      BY <1>1, <2>5 DEF IdePlace
    <3>7. IdePlace(ide'.call[t])
      BY <1>1, <2>5, <3>4, <3>6 DEF IdePlace
    <3>8. IdeProgress(ide'.call[t], ide'.drive) /\ ide'.drive.phase = "busy"
      <4>1. IdeProgress(ide.call[t], ide.drive)
        BY <1>4, <2>5 DEF IdeWaits
      <4>2. ide.call[t].i \in Int /\ ide.call[t].n \in Int /\ ide.call[t].moved \in Int
        BY <1>1 DEF IdeCalls
      <4> QED
        BY <2>1, <2>3, <2>5, <3>4, <3>6, <4>1, <4>2 DEF IdeProgress
    <3>9. IdeQuiet' /\ "block" \in IdeWaits
      BY <1>3, <3>4, <3>8 DEF IdeQuiet, Sure, May, IdeWaits
    <3> QED
      BY <1>1, <2>3, <3>4, <3>5, <3>7, <3>8, <3>9, IdeGoesOn
  <2>6. ide.call[t].pc = "named" => ide.call[t].i + 1 = ide.call[t].n
    BY <2>1
  <2>7. CASE ide.call[t].pc = "named"
    <3>1. ide' = IdeReturn(s, t, "EOK")
      BY <2>7 DEF Ready, IdeDo, Pc, Identified, s
    <3> QED
      BY <2>4, <2>6, <2>7, <3>1
  <2>8. CASE ide.call[t].pc = "read"
    <3>1. ide' = ReadOn(ide, t)
      BY <2>8 DEF Ready, IdeDo, Pc
    <3> QED
      BY <2>4, <2>5, <2>8, <3>1 DEF ReadOn, s
  <2> QED
    BY <1>6, <2>7, <2>8
<1>7. CASE ide.call[t].pc = "write"
  <2>1. ide' = WriteOn(ide, t)
    BY <1>7 DEF Ready, IdeDo, Pc
  <2>2. /\ ide.call[t].op = "write" /\ ide.drive.owner = t /\ ide.drive.op = "write"
        /\ ide.call[t].i \in Int /\ ide.call[t].n \in Int /\ ide.call[t].i >= 0 /\ ide.call[t].i < ide.call[t].n
        /\ ide.call[t].moved = ide.call[t].i + 1 /\ ide.drive.left = ide.call[t].n - ide.call[t].i - 1
        /\ ide.drive.phase = "idle" <=> ide.drive.left = 0
    BY <1>1, <1>2, <1>4, <1>7 DEF IdePlace, IdeProgress, IdeWaits, IdeCalls
  <2>3. CASE ide.call[t].i + 1 = ide.call[t].n
    <3>1. ide' = IdeReturn(ide, t, "EOK")
      BY <2>1, <2>3 DEF WriteOn
    <3>2. ide.call[t].moved = ide.call[t].n
      BY <2>2, <2>3
    <3> QED
      BY <1>1, <1>3, <3>1, <3>2, IdeReturns DEF IdeTypes
  <2>4. CASE ide.call[t].i + 1 # ide.call[t].n
    <3> DEFINE s == NextSector(ide, t)
               r == WriteSector(s, t)
    <3>1. ide.drive.phase = "drq"
      BY <1>2, <2>2, <2>4
    <3>2. /\ s \in IdeStates /\ s.lock = t /\ s.scene = ide.scene /\ s.irq = ide.irq /\ s.drive = ide.drive
          /\ \A u \in IdeTasks \ {t} : s.call[u] = ide.call[u]
          /\ s.call[t].op = ide.call[t].op
          /\ s.call[t].i = ide.call[t].i + 1 /\ s.call[t].n = ide.call[t].n
          /\ s.call[t].moved = ide.call[t].moved /\ s.call[t].last = ide.call[t].last
      <4>1. ide \in IdeStates
        BY <1>1 DEF IdeTypes
      <4>2. s \in IdeStates
        BY SMTT(60), <2>2, <4>1 DEF NextSector, IdeStates, IdeCalls
      <4> QED
        BY SMTT(60), <1>1, <4>1, <4>2 DEF NextSector, IdeStates, IdeCalls
    <3>3. ide' = IdeBlock(r, t)
      BY <2>1, <2>4 DEF WriteOn
    <3> HIDE DEF s
    <3>4. /\ r \in IdeStates /\ r.lock = t /\ r.scene = ide.scene /\ r.irq = ide.irq /\ r.call = s.call
          /\ r.drive.owner = t /\ r.drive.op = "write" /\ r.drive.left = ide.drive.left
          /\ r.drive.phase = "busy"
      BY <2>2, <3>1, <3>2 DEF WriteSector, IdeStates, IdeDrives
    <3> HIDE DEF r
    <3>5. /\ ide'.lock = t /\ ide'.scene = ide.scene /\ ide'.irq = ide.irq /\ ide'.drive = r.drive
          /\ \A u \in IdeTasks \ {t} : ide'.call[u] = ide.call[u]
          /\ ide'.call[t].pc = "block" /\ ide'.call[t].op = "write"
          /\ ide'.call[t].i = ide.call[t].i + 1 /\ ide'.call[t].n = ide.call[t].n
          /\ ide'.call[t].moved = ide.call[t].moved /\ ide'.call[t].last = ide.call[t].last
      BY <2>2, <3>2, <3>3, <3>4 DEF IdeBlock, IdeStates, IdeCalls
    <3>6. IdeTypes'
      BY <3>3, <3>4, BlockTypes
    <3>7. IdePlace(ide'.call[t])
      BY <1>1, <1>7, <2>2, <3>5 DEF IdePlace
    <3>8. IdeProgress(ide'.call[t], ide'.drive)
      BY <2>2, <2>4, <3>4, <3>5 DEF IdeProgress
    <3>9. IdeQuiet' /\ "block" \in IdeWaits
      BY <1>3, <3>4, <3>5 DEF IdeQuiet, Sure, May, IdeWaits
    <3> QED
      BY <1>1, <3>4, <3>5, <3>6, <3>7, <3>8, <3>9, IdeGoesOn
  <2> QED
    BY <2>3, <2>4
<1>9. CASE ide.call[t].pc = "reset"
  <2>1. ide' = IdeReturn(ide, t, "failed")
    BY <1>9 DEF Ready, IdeDo, Pc, IdeFailed
  <2> QED
    BY <1>1, <1>3, <2>1, IdeReturns DEF IdeTypes, IdeStates
<1> QED
  BY <1>1, <1>5, <1>6, <1>7, <1>9
\* ide_busy_wait sees an error, or the time is over.
LEMMA IdeGivesUp ==
  ASSUME IdeInv, NEW t \in IdeTasks
  PROVE  /\ Reset(t) => IdeInv'
         /\ IdeTimeout(t) => IdeInv'
<1>0. ide.call[t] \in IdeCalls /\ t # 0 /\ IdePlace(ide.call[t]) /\ ide \in IdeStates
  BY IdeAssumption DEF IdeInv, IdeTypes, IdeStates
<1>1. ASSUME Reset(t) PROVE IdeInv'
  <2>1. /\ ide.call[t].pc \in {"ready", "read", "write", "named"} /\ ide.drive.phase = "err"
        /\ ide' = [ide EXCEPT !.call[t].pc = "reset",
                              !.drive = [IdleDrive EXCEPT !.op = "reset", !.phase = "busy"]]
    BY <1>1 DEF Reset, Pc, IdeDo
  <2>2. ide.lock = t /\ ~ Sure
    BY <1>0, <2>1 DEF IdeInv, IdeInside, IdeQuiet, Sure, May
  <2> DEFINE d == [IdleDrive EXCEPT !.op = "reset", !.phase = "busy"]
  <2>d. d \in IdeDrives /\ d.owner = 0
    <3>1. IdleDrive \in IdeDrives /\ IdleDrive.owner = 0
      BY DEF IdleDrive, IdeDrives
    <3> QED
      BY <3>1 DEF IdeDrives
  <2>3. ide' = [ide EXCEPT !.call[t].pc = "reset", !.drive = d]
    BY <2>1
  <2> HIDE DEF d
  <2>4. /\ ide' \in IdeStates /\ ide'.lock = t /\ ide'.scene = ide.scene /\ ide'.irq = ide.irq
        /\ ide'.drive.owner = 0
        /\ \A u \in IdeTasks \ {t} : ide'.call[u] = ide.call[u]
        /\ ide'.call[t].pc = "reset" /\ ide'.call[t].op = ide.call[t].op
        /\ ide'.call[t].n = ide.call[t].n /\ ide'.call[t].last = ide.call[t].last
    BY ZenonT(60), <1>0, <2>d, <2>2, <2>3 DEF IdeStates, IdeCalls, IdePcs
  <2>5. IdePlace(ide'.call[t])
    <3>1. ide.call[t].op # "udma"
      BY <1>0, <2>1 DEF IdePlace
    <3> QED
      BY <1>0, <2>1, <2>4, <3>1 DEF IdePlace
  <2>6. IdeQuiet' /\ "reset" \notin IdeWaits /\ IdeTypes'
    BY <2>2, <2>4 DEF IdeQuiet, Sure, May, IdeWaits, IdeTypes
  <2> QED
    BY <2>2, <2>4, <2>5, <2>6, IdeGoesOn
<1>2. ASSUME IdeTimeout(t) PROVE IdeInv'
  <2>1. /\ "late" \in ide.scene /\ ide' = IdeReturn(ide, t, "failed")
        /\ ide.call[t].pc \in {"block", "ready", "read", "write", "named", "reset"}
    BY <1>2 DEF IdeTimeout, May, Pc, IdeDo, IdeFailed
  <2>2. ide.lock = t /\ ~ Sure
    BY <1>0, <2>1 DEF IdeInv, IdeInside, IdeStates, Sure, May
  <2> QED
    BY <1>0, <2>1, <2>2, IdeReturns
<1> QED
  BY <1>1, <1>2

\* ide_handler.
LEMMA IdeInterrupts ==
  ASSUME IdeInv, IdeInterrupt
  PROVE  IdeInv'
<1> DEFINE s == [ide EXCEPT !.irq = FALSE, !.waiter = 0]
<1>0. ide \in IdeStates
  BY DEF IdeInv, IdeTypes
<1>1. /\ ide.irq
      /\ \/ ide' = s
         \/ ide.waiter # 0 /\ ide.call[ide.waiter].pc = "block" /\ ide' = [s EXCEPT !.call[ide.waiter].pc = "woken"]
         \/ ide' = [ide EXCEPT !.halt = "task_unblock"]
  BY DEF IdeInterrupt, IdeDo, Pc
<1>2. CASE ide' = s
  <2>1. /\ ide' \in IdeStates /\ ide'.call = ide.call /\ ide'.lock = ide.lock /\ ide'.scene = ide.scene
        /\ ide'.drive = ide.drive /\ ide'.irq = FALSE
    BY <1>0, <1>2 DEF IdeStates
  <2>2. IdeQuiet' /\ IdeTypes'
    BY <1>1, <2>1 DEF IdeInv, IdeQuiet, Sure, May, IdeTypes
  <2> QED
    BY <2>1, <2>2, NoCallSteps
<1>3. ASSUME NEW t \in IdeTasks, t = ide.waiter,
             ide.call[t].pc = "block", ide' = [s EXCEPT !.call[t].pc = "woken"]
      PROVE  IdeInv'
  <2>0. ide.call[t] \in IdeCalls /\ IdePlace(ide.call[t])
    BY <1>0 DEF IdeInv, IdeStates
  <2>1. /\ ide' \in IdeStates /\ ide'.lock = ide.lock /\ ide'.scene = ide.scene
        /\ ide'.drive = ide.drive /\ ide'.irq = FALSE
        /\ \A u \in IdeTasks \ {t} : ide'.call[u] = ide.call[u]
        /\ ide'.call[t].pc = "woken" /\ ide'.call[t].op = ide.call[t].op
        /\ ide'.call[t].i = ide.call[t].i /\ ide'.call[t].n = ide.call[t].n
        /\ ide'.call[t].moved = ide.call[t].moved /\ ide'.call[t].last = ide.call[t].last
    BY ZenonT(60), <1>0, <1>3, <2>0 DEF IdeStates, IdeCalls, IdePcs
  <2>2. IdePlace(ide'.call[t])
    BY <1>3, <2>0, <2>1 DEF IdePlace
  <2>3. ide.drive.owner = t /\ IdeProgress(ide.call[t], ide.drive) /\ ide.lock = t
    BY <1>3 DEF IdeInv, IdeWaits, IdeInside
  <2>4. IdeProgress(ide'.call[t], ide'.drive)
    BY <2>1, <2>3 DEF IdeProgress
  <2>5. IdeQuiet' /\ IdeTypes' /\ "woken" \in IdeWaits
    BY <1>1, <2>1 DEF IdeInv, IdeQuiet, Sure, May, IdeTypes, IdeWaits
  <2>6. ide'.call = [ide.call EXCEPT ![t] = ide'.call[t]] /\ ide'.call[t] \in IdeCalls
    BY <1>0, <2>1 DEF IdeStates
  <2>7. ide'.lock = t
    BY <2>1, <2>3
  <2> QED
    BY <2>1, <2>2, <2>3, <2>4, <2>5, <2>6, <2>7, OneCallSteps
<1>4. CASE ide' = [ide EXCEPT !.halt = "task_unblock"]
  <2>1. "task_unblock" \in IdeHalts
    BY DEF IdeHalts
  <2> QED
    BY <1>4, <2>1, HaltSteps
<1>5. ide.waiter # 0 => ide.waiter \in IdeTasks
  BY <1>0 DEF IdeStates
<1> QED
  BY <1>1, <1>2, <1>3, <1>4, <1>5

\* The drive goes on with the command of task t, or fails.
LEMMA CommandSteps ==
  ASSUME IdeInv, IdeTypes', NEW t \in IdeTasks, ide.drive.owner = t, ide'.drive.owner = t,
         ide'.lock = ide.lock, ide'.scene = ide.scene,
         \A u \in IdeTasks \ {t} : ide'.call[u] = ide.call[u],
         ide'.call[t].pc = ide.call[t].pc, ide'.call[t].op = ide.call[t].op,
         ide'.call[t].i = ide.call[t].i, ide'.call[t].n = ide.call[t].n,
         ide'.call[t].last = ide.call[t].last,
         IdeProgress(ide'.call[t], ide'.drive), IdeQuiet'
  PROVE  IdeInv'
<1>1. ide.call[t].pc \in IdeWaits /\ ide.lock = t /\ IdePlace(ide.call[t])
  BY DEF IdeInv, IdeInside, IdeWaits
<1>2. IdePlace(ide'.call[t])
  BY <1>1 DEF IdePlace, IdeWaits
<1>3. ide'.call = [ide.call EXCEPT ![t] = ide'.call[t]] /\ ide'.call[t] \in IdeCalls
  BY DEF IdeInv, IdeTypes, IdeStates
<1>4. ide'.call[t].pc \notin {"user", "lock"}
  BY <1>1 DEF IdeWaits
<1> QED
  BY <1>1, <1>2, <1>3, <1>4, OneCallSteps

LEMMA IdeDriveSteps ==
  ASSUME IdeInv
  PROVE  /\ DriveFails => IdeInv'
         /\ DriveWorks => IdeInv'
<1>0. ide \in IdeStates
  BY DEF IdeInv, IdeTypes
<1>1. ASSUME DriveFails PROVE IdeInv'
  <2>1. /\ "fail" \in ide.scene /\ ide.drive.phase = "busy"
        /\ ide' = [ide EXCEPT !.drive.phase = "err", !.irq = TRUE]
    BY <1>1 DEF DriveFails, May, IdeDo
  <2>2. /\ ide' \in IdeStates /\ ide'.call = ide.call /\ ide'.lock = ide.lock /\ ide'.scene = ide.scene
        /\ ide'.drive.owner = ide.drive.owner /\ ide'.drive.op = ide.drive.op
        /\ ide'.drive.left = ide.drive.left /\ ide'.drive.phase = "err"
    BY <1>0, <2>1 DEF IdeStates, IdeDrives
  <2>3. ~ Sure
    BY <2>1 DEF Sure, May
  <2>4. IdeQuiet' /\ IdeTypes'
    BY <2>2, <2>3 DEF IdeQuiet, Sure, May, IdeTypes
  <2>5. CASE ide.drive.owner = 0
    BY <2>2, <2>4, <2>5, NoCallSteps
  <2>6. ASSUME NEW t \in IdeTasks, ide.drive.owner = t PROVE IdeInv'
    <3>1. ide.call[t].pc \in IdeWaits /\ IdeProgress(ide.call[t], ide.drive) /\ IdePlace(ide.call[t])
      BY <2>6 DEF IdeInv, IdeInside
    <3>2. IdeProgress(ide'.call[t], ide'.drive)
      BY <2>1, <2>2, <3>1 DEF IdeProgress
    <3> QED
      BY <2>2, <2>4, <2>6, <3>2, CommandSteps
  <2> QED
    BY <1>0, <2>5, <2>6 DEF IdeStates, IdeDrives
<1>2. ASSUME DriveWorks PROVE IdeInv'
  <2> DEFINE done == IF ide.drive.op = "udma" THEN ide.drive.left ELSE 1
             irq == ide.drive.op # "reset" \/ ide.irq
             phase == IF ide.drive.op \in {"read", "identify"} THEN "drq"
                      ELSE IF ide.drive.op = "reset" THEN "idle"
                      ELSE IF done = ide.drive.left THEN "idle" ELSE "drq"
             left == IF ide.drive.op \in {"read", "identify", "reset"} THEN ide.drive.left
                     ELSE ide.drive.left - done
  <2>0. ide.drive.phase = "busy" /\ ide.drive \in IdeDrives
    BY <1>0, <1>2 DEF DriveWorks, IdeStates
  <2> DEFINE s == [ide EXCEPT !.irq = irq]
             u == [s EXCEPT !.drive.left = left, !.drive.phase = phase]
             moves == ide.drive.op \notin {"read", "identify", "reset"}
  <2>a. ide' = IF ide.drive.owner = 0 \/ ~ moves THEN u
               ELSE [u EXCEPT !.call[ide.drive.owner].moved = @ + done]
    BY ZenonT(60), <1>0, <1>2 DEF DriveWorks, IdeDo, IdeStates, IdeDrives
  <2>b. left \in Int /\ done \in Int /\ phase \in {"idle", "busy", "drq", "err"} /\ irq \in BOOLEAN
    BY <1>0, <2>0 DEF IdeStates, IdeDrives
  <2> HIDE DEF left, done, phase, irq
  <2>c. /\ u \in IdeStates /\ u.lock = ide.lock /\ u.scene = ide.scene /\ u.irq = irq /\ u.call = ide.call
        /\ u.drive.owner = ide.drive.owner /\ u.drive.op = ide.drive.op
        /\ u.drive.left = left /\ u.drive.phase = phase
    BY ZenonT(60), <1>0, <2>0, <2>b DEF IdeStates, IdeDrives
  <2> HIDE DEF u
  <2>1. /\ ide' \in IdeStates /\ ide'.lock = ide.lock /\ ide'.scene = ide.scene /\ ide'.irq = irq
        /\ ide'.drive.owner = ide.drive.owner /\ ide'.drive.op = ide.drive.op
        /\ ide'.drive.left = left /\ ide'.drive.phase = phase
        /\ ide.drive.owner = 0 => ide'.call = ide.call
    <3>1. CASE ide' = u
      BY <2>c, <3>1
    <3>2. CASE ide' = [u EXCEPT !.call[ide.drive.owner].moved = @ + done] /\ ide.drive.owner # 0
      <4>1. ide.drive.owner \in IdeTasks
        BY <2>0, <3>2 DEF IdeDrives
      <4>2. u.call[ide.drive.owner].moved + done \in Int
        BY <2>b, <2>c, <4>1 DEF IdeStates, IdeCalls
      <4> DEFINE c == [u.call[ide.drive.owner] EXCEPT !.moved = @ + done]
      <4>3. c \in IdeCalls
        BY <2>c, <4>1, <4>2 DEF IdeStates, IdeCalls
      <4>4. ide' = [u EXCEPT !.call = [u.call EXCEPT ![ide.drive.owner] = c]]
        BY <2>c, <3>2 DEF IdeStates
      <4> HIDE DEF c
      <4> QED
        BY <2>c, <3>2, <4>1, <4>3, <4>4 DEF IdeStates
    <3> QED
      BY <2>a, <3>1, <3>2
  <2>2. ASSUME NEW t \in IdeTasks, ide.drive.owner = t
        PROVE  /\ \A w \in IdeTasks \ {t} : ide'.call[w] = ide.call[w]
               /\ ide'.call[t].pc = ide.call[t].pc /\ ide'.call[t].op = ide.call[t].op
               /\ ide'.call[t].i = ide.call[t].i /\ ide'.call[t].n = ide.call[t].n
               /\ ide'.call[t].last = ide.call[t].last
               /\ ide'.call[t].moved = IF moves THEN ide.call[t].moved + done ELSE ide.call[t].moved
    <3>1. ide' = IF ~ moves THEN u ELSE [u EXCEPT !.call[t].moved = @ + done]
      BY <2>2, <2>a, IdeAssumption
    <3> HIDE DEF moves
    <3> QED
      BY <2>c, <3>1 DEF IdeStates, IdeCalls
  <2>3. phase \in {"idle", "drq"}
    BY DEF phase
  <2>4. \A t \in IdeTasks : ide'.call[t].pc = ide.call[t].pc
    BY <1>0, <2>1, <2>2 DEF IdeStates, IdeDrives
  <2>5. IdeQuiet' /\ IdeTypes'
    BY <2>0, <2>1, <2>3, <2>4 DEF IdeInv, IdeQuiet, Sure, May, IdeTypes
  <2>6. CASE ide.drive.owner = 0
    BY <2>1, <2>5, <2>6, NoCallSteps
  <2>7. ASSUME NEW t \in IdeTasks, ide.drive.owner = t PROVE IdeInv'
    <3>1. ide.call[t].pc \in IdeWaits /\ IdeProgress(ide.call[t], ide.drive) /\ IdePlace(ide.call[t])
      BY <2>7 DEF IdeInv, IdeInside
    <3>2. ide.call[t] \in IdeCalls /\ ide.call[t].op \in IdeOps
      BY <1>0, <3>1 DEF IdePlace, IdeWaits, IdeStates
    <3>3. IdeProgress(ide'.call[t], ide'.drive)
      <4>1. CASE ide.call[t].op \in {"read", "identify"}
        <5>1. ~ moves /\ left = ide.drive.left /\ phase = "drq"
          BY <3>1, <4>1 DEF left, phase, IdeProgress
        <5> QED
          BY <2>1, <2>2, <2>7, <3>1, <4>1, <5>1 DEF IdeProgress
      <4>2. CASE ide.call[t].op = "write"
        <5>1. moves /\ done = 1 /\ left = ide.drive.left - 1
              /\ phase = IF ide.drive.left = 1 THEN "idle" ELSE "drq"
          BY <3>1, <4>2 DEF left, phase, done, IdeProgress
        <5>2. ide.drive.left = ide.call[t].n - ide.call[t].i /\ ide.call[t].moved = ide.call[t].i
          BY <2>0, <3>1, <4>2 DEF IdeProgress
        <5>3. ide.call[t].n \in Int /\ ide.call[t].i \in Int /\ ide'.call[t].moved = ide.call[t].i + 1
          BY <2>2, <2>7, <3>2, <5>1, <5>2 DEF IdeCalls
        <5> HIDE DEF moves
        <5> QED
          BY <2>1, <2>2, <2>7, <3>1, <4>2, <5>1, <5>2, <5>3 DEF IdeProgress
      <4>3. CASE ide.call[t].op = "udma"
        <5>1. moves /\ done = ide.drive.left /\ phase = "idle"
          BY <3>1, <4>3 DEF phase, done, IdeProgress
        <5>2. ide.drive.left = ide.call[t].n /\ ide.call[t].moved = 0 /\ ide.call[t].n \in Int
          BY <2>0, <3>1, <3>2, <4>3 DEF IdeProgress, IdeCalls
        <5>3. ide'.call[t].moved = ide.call[t].n
          BY <2>2, <2>7, <5>1, <5>2
        <5> HIDE DEF moves
        <5> QED
          BY <2>1, <2>2, <2>7, <3>1, <4>3, <5>1, <5>3 DEF IdeProgress
      <4> QED
        BY <3>2, <4>1, <4>2, <4>3 DEF IdeOps
    <3> QED
      BY <2>1, <2>2, <2>5, <2>7, <3>3, CommandSteps
  <2> QED
    BY <1>0, <2>6, <2>7 DEF IdeStates, IdeDrives
<1> QED
  BY <1>1, <1>2

\* However the calls of the tasks, the interrupts, the timeouts and the work of
\* the drive are ordered, a call of programmed i/o that returns EOK has moved its
\* sectors (ide_pio_read, ide_pio_write); one of DMA has where nothing is late,
\* fails or is left behind by ide_identify, and is promised nothing where
\* something is, as ide_udma_read and ide_udma_write return EOK whatever woke them.
THEOREM TransfersDone == Spec => []TransferDone
<1>1. Init => IdeInv
  <2>1. "" \in IdeHalts /\ "off" \in IdeHalts
    BY DEF IdeHalts
  <2> QED
    BY <2>1, IdeStart DEF Init
<1>2. IdeInv /\ [Next]_<<ide, fd, net>> => IdeInv'
  <2> SUFFICES ASSUME IdeInv, [Next]_<<ide, fd, net>> PROVE IdeInv'
    OBVIOUS
  <2>1. CASE IdeInterrupt
    BY <2>1, IdeInterrupts
  <2>2. CASE DriveWorks \/ DriveFails
    BY <2>2, IdeDriveSteps
  <2>3. ASSUME NEW t \in IdeTasks, Enter(t) PROVE IdeInv'
    BY <2>3, IdeBegins
  <2>4. ASSUME NEW t \in IdeTasks, Woken(t) PROVE IdeInv'
    BY <2>4, IdeWoken
  <2>5. ASSUME NEW t \in IdeTasks, Ready(t) PROVE IdeInv'
    BY <2>5, IdeReady
  <2>6. ASSUME NEW t \in IdeTasks, Reset(t) \/ IdeTimeout(t) PROVE IdeInv'
    BY <2>6, IdeGivesUp
  <2>7. ASSUME NEW t \in IdeTasks, NEW op \in IdeOps, Call(t, op) PROVE IdeInv'
    BY <2>7, IdeBegins
  <2>8. CASE UNCHANGED ide
    BY <2>8 DEF IdeInv, IdeTypes, IdeInside, IdeQuiet, Sure, May, IdePlace
  <2> QED
    BY <2>1, <2>2, <2>3, <2>4, <2>5, <2>6, <2>7, <2>8 DEF Next, IdeNext, IdeOps
<1>3. IdeInv => TransferDone
  BY DEF IdeInv, IdePlace, TransferDone
<1> QED
  BY <1>1, <1>2, <1>3, PTL DEF Spec
-----------------------------------------------------------------------------
(* The floppy disk.                                                        *)

FdPcs == {"user", "lock", "spin", "seek", "sought", "transfer", "done"}
FdCells == Nat \X Nat
FdData == {<< >>} \cup UNION {[0 .. n - 1 -> FdCells] : n \in Nat}
FdCalls == [pc : FdPcs, mode : {"read", "write"}, lba : Nat, count : Nat, left : Nat, at : Nat, buf : FdData]
FdHalts == {"", "off", "fd_wait", "fd_wait timed out", "fd_read", "seek failed", "timer_update"}
FdTimer == {"none", "armed", "freed", "gone"}
FdStates ==
  [lock : FdTasks \cup {0}, waiter : FdTasks \cup {0}, irq : BOOLEAN, motor : {"on", "off", "delay"},
   track : Int, timer : FdTimer, owner : FdTasks \cup {0}, buf : FdData,
   disk : [Lbas -> FdCells], job : {"none", "seek", "transfer"}, ok : BOOLEAN,
   call : [FdTasks -> FdCalls], wrong : SUBSET {"inside", "across"}, halt : FdHalts]

\* What a call asks for, until it returns; inside a cylinder it takes a single
\* transfer.
FdAsked(c) ==
  /\ <<c.lba, c.count>> \in Requests /\ c.lba + c.count <= FdSectors
  /\ Inside(c) => c.at = c.lba /\ c.left = c.count

\* fd->buf holds the data of a write.
FdFilled(s, c, t) == Inside(c) /\ c.mode = "write" => s.buf = [i \in 0 .. c.count - 1 |-> <<t, i>>]

\* The command has moved what it should, between the disk and fd->buf.
FdResult(s, c, t) ==
  Inside(c) => IF c.mode = "read" THEN s.buf = [i \in 0 .. c.count - 1 |-> s.disk[c.lba + i]]
               ELSE \A i \in 0 .. c.count - 1 : s.disk[c.lba + i] = <<t, i>>

FdCallRight(s, t) ==
  LET c == s.call[t]
  IN  /\ c.pc # "user" => FdAsked(c)
      /\ c.pc \in {"seek", "sought", "transfer"} => FdFilled(s, c, t)
      /\ c.pc \in {"seek", "transfer"} <=> s.waiter = t
      /\ c.pc = "done" \/ (c.pc = "transfer" /\ s.irq) => (s.ok => FdResult(s, c, t))

FdHeld(s) == \A t \in FdTasks : s.call[t].pc \notin {"user", "lock"} <=> s.lock = t

\* The controller works, or has an interrupt pending, for the one that waits.
FdWorking(s) ==
  /\ s.waiter = 0 => s.job = "none" /\ ~ s.irq
  /\ s.waiter # 0 => (s.job = "none" <=> s.irq) /\ (s.job # "none" => s.job = s.call[s.waiter].pc)

FdInv(s) ==
  /\ s \in FdStates /\ "inside" \notin s.wrong
  /\ FdHeld(s) /\ FdWorking(s)
  /\ \A t \in FdTasks : FdCallRight(s, t)

\* The call of t has the drive and the controller rests.
FdAlone(s, t) ==
  /\ s \in FdStates /\ "inside" \notin s.wrong /\ s.lock = t
  /\ \A u \in FdTasks \ {t} : s.call[u].pc \in {"user", "lock"} /\ (s.call[u].pc = "lock" => FdAsked(s.call[u]))
  /\ s.waiter = 0 /\ s.job = "none" /\ ~ s.irq
FdTurn(s, t) == FdAlone(s, t) /\ FdAsked(s.call[t])

LEMMA FdNumbers ==
  /\ 0 \notin FdTasks /\ FdTasks \subseteq Nat /\ Lbas \subseteq Nat /\ FdSectors \in Int
  /\ \A c \in FdCalls : FdAsked(c) =>
       /\ Piece(c) \in Nat /\ c.count \in 1 .. 255 /\ Track(c.at) \in Int
       /\ Inside(c) => Piece(c) = c.count
       /\ \A i \in 0 .. c.count - 1 : c.lba + i \in Lbas
<1>1. 0 \notin FdTasks /\ FdTasks \subseteq Nat
  BY FdAssumption
<1>2. ASSUME NEW q \in Requests PROVE q \in Nat \X (1 .. 255) /\ q[1] \in Nat /\ q[2] \in 1 .. 255
  BY FdAssumption
<1>3. Lbas \subseteq Nat /\ FdSectors \in Int
  BY FdAssumption DEF Lbas, FdSectors
<1>4. ASSUME NEW c \in FdCalls, FdAsked(c)
      PROVE  /\ Piece(c) \in Nat /\ c.count \in 1 .. 255 /\ Track(c.at) \in Int
             /\ Inside(c) => Piece(c) = c.count
             /\ \A i \in 0 .. c.count - 1 : c.lba + i \in Lbas
  <2>1. <<c.lba, c.count>> \in Requests /\ c.lba + c.count <= FdSectors /\ c.at \in Nat
    BY <1>4 DEF FdAsked, FdCalls
  <2>2. c.lba \in Nat /\ c.count \in 1 .. 255
    BY <1>2, <2>1
  <2>3. Cylinder \in Nat \ {0} /\ c.at % Cylinder \in 0 .. Cylinder - 1
    BY <2>1, FdAssumption
  <2>4. PICK r \in 0 .. Cylinder - 1 : r = c.at % Cylinder
    BY <2>3
  <2>5. Piece(c) = Min({c.count, Cylinder - r})
    BY <2>4 DEF Piece
  <2>6. Min({c.count, Cylinder - r}) \in {c.count, Cylinder - r}
        /\ (c.count <= Cylinder - r => Min({c.count, Cylinder - r}) = c.count)
    BY <2>2, <2>3, <2>4 DEF Min
  <2>7. Piece(c) \in Nat
    BY <2>2, <2>3, <2>4, <2>5, <2>6
  <2>8. Inside(c) => Piece(c) = c.count
    <3> SUFFICES ASSUME Inside(c) PROVE Piece(c) = c.count
      OBVIOUS
    <3>1. c.at = c.lba
      BY <1>4 DEF FdAsked
    <3>2. r + c.count <= Cylinder
      BY <2>4, <3>1 DEF Inside
    <3> QED
      BY <2>2, <2>3, <2>4, <2>5, <2>6, <3>2
  <2>9. Track(c.at) \in Int
    BY <2>1, <2>3 DEF Track
  <2>10. \A i \in 0 .. c.count - 1 : c.lba + i \in Lbas
    BY <1>3, <2>1, <2>2 DEF Lbas
  <2> QED
    BY <2>2, <2>7, <2>8, <2>9, <2>10
<1> QED
  BY <1>1, <1>3, <1>4

\* What is in a DMA buffer.
LEMMA FdCellOf == ASSUME NEW b \in FdData, NEW i \in DOMAIN b PROVE b[i] \in FdCells
<1>1. CASE b = << >>
  BY <1>1
<1>2. ASSUME NEW n \in Nat, b \in [0 .. n - 1 -> FdCells] PROVE b[i] \in FdCells
  BY <1>2
<1> QED
  BY <1>1, <1>2 DEF FdData

\* fd_wait, behind a command for the call.
LEMMA FdWaits ==
  ASSUME NEW s, NEW t \in FdTasks, FdTurn(s, t), NEW job \in {"seek", "transfer"}, FdFilled(s, s.call[t], t)
  PROVE  FdInv(FdWait(s, t, job))
<1> DEFINE c == [s.call[t] EXCEPT !.pc = job]
           n == [s EXCEPT !.waiter = t, !.job = job, !.call[t].pc = job]
<1>1. FdWait(s, t, job) = n
  BY FdNumbers DEF FdWait, FdTurn, FdAlone
<1>2. s \in FdStates /\ s.call \in [FdTasks -> FdCalls] /\ s.call[t] \in FdCalls
  BY DEF FdTurn, FdAlone, FdStates
<1>3. c \in FdCalls /\ c.pc = job /\ c.mode = s.call[t].mode /\ c.lba = s.call[t].lba
      /\ c.count = s.call[t].count /\ c.left = s.call[t].left /\ c.at = s.call[t].at
  BY <1>2 DEF FdCalls, FdPcs
<1>4. n = [[s EXCEPT !.waiter = t, !.job = job] EXCEPT !.call = [s.call EXCEPT ![t] = c]]
  BY <1>2 DEF FdStates
<1> HIDE DEF c, n
<1>5. /\ n \in FdStates /\ n.call[t] = c /\ (\A u \in FdTasks \ {t} : n.call[u] = s.call[u])
      /\ n.waiter = t /\ n.job = job /\ n.irq = s.irq /\ n.lock = s.lock /\ n.wrong = s.wrong
      /\ n.buf = s.buf /\ n.disk = s.disk /\ n.ok = s.ok
  BY <1>2, <1>3, <1>4 DEF FdStates
<1>6. FdHeld(n) /\ FdWorking(n)
  BY <1>3, <1>5, FdNumbers DEF FdTurn, FdAlone, FdHeld, FdWorking
<1>7. FdCallRight(n, t)
  BY <1>3, <1>5 DEF FdCallRight, FdTurn, FdAlone, FdAsked, FdFilled, Inside
<1>8. \A u \in FdTasks \ {t} : FdCallRight(n, u)
  BY <1>5 DEF FdCallRight, FdTurn, FdAlone
<1> QED
  BY <1>1, <1>5, <1>6, <1>7, <1>8 DEF FdInv, FdTurn, FdAlone

\* fd_transfer up to its first sleep.
LEMMA FdSeeks ==
  ASSUME NEW s, NEW t \in FdTasks, FdTurn(s, t)
  PROVE  FdInv(Seek(s, t))
<1> DEFINE c == s.call[t]
           n == Piece(c)
           d == [i \in 0 .. n - 1 |-> <<t, i>>]
           u == IF c.mode = "read" THEN s ELSE [s EXCEPT !.buf = d]
<1>1. s \in FdStates /\ c \in FdCalls /\ FdAsked(c)
  BY DEF FdTurn, FdAlone, FdStates
<1>2. n \in Nat /\ (Inside(c) => n = c.count)
  BY SMTT(60), <1>1, FdNumbers
<1>3. d \in FdData
  <2>1. d \in [0 .. n - 1 -> FdCells]
    BY <1>2, FdNumbers DEF FdCells
  <2> QED
    BY <1>2, <2>1 DEF FdData
<1>4. Seek(s, t) = IF s.track = Track(c.at) THEN FdWait(u, t, "transfer") ELSE FdWait(u, t, "seek")
  BY DEF Seek
<1>5. Inside(c) => d = [i \in 0 .. c.count - 1 |-> <<t, i>>]
  BY <1>2
<1> HIDE DEF d
<1>6. /\ u \in FdStates /\ u.call = s.call /\ u.lock = s.lock /\ u.wrong = s.wrong /\ u.waiter = s.waiter
      /\ u.job = s.job /\ u.irq = s.irq /\ (c.mode # "read" => u.buf = d)
  BY <1>1, <1>3 DEF FdStates
<1> HIDE DEF u
<1>7. FdTurn(u, t)
  BY <1>6 DEF FdTurn, FdAlone
<1>8. FdFilled(u, u.call[t], t)
  BY <1>5, <1>6 DEF FdFilled
<1> QED
  BY <1>4, <1>7, <1>8, FdWaits

\* fd_motor_on and what follows.
LEMMA FdMotorOn ==
  ASSUME NEW s, NEW t \in FdTasks, FdTurn(s, t)
  PROVE  FdInv(MotorOn(s, t))
<1>1. s \in FdStates /\ s.call \in [FdTasks -> FdCalls] /\ s.call[t] \in FdCalls
  BY DEF FdTurn, FdAlone, FdStates
<1>2. CASE s.motor = "off"
  <2> DEFINE c == [s.call[t] EXCEPT !.pc = "spin"]
             n == [s EXCEPT !.motor = "on", !.call[t].pc = "spin"]
  <2>1. MotorOn(s, t) = n
    BY <1>2 DEF MotorOn
  <2>2. c \in FdCalls /\ c.pc = "spin" /\ c.lba = s.call[t].lba
        /\ c.count = s.call[t].count /\ c.left = s.call[t].left /\ c.at = s.call[t].at
    BY <1>1 DEF FdCalls, FdPcs
  <2>3. n = [[s EXCEPT !.motor = "on"] EXCEPT !.call = [s.call EXCEPT ![t] = c]]
    BY <1>1 DEF FdStates
  <2> HIDE DEF c, n
  <2>4. /\ n \in FdStates /\ n.call[t] = c /\ (\A u \in FdTasks \ {t} : n.call[u] = s.call[u])
        /\ n.waiter = s.waiter /\ n.job = s.job /\ n.irq = s.irq /\ n.lock = s.lock /\ n.wrong = s.wrong
    BY <1>1, <2>2, <2>3 DEF FdStates
  <2>5. FdHeld(n) /\ FdWorking(n)
    BY <2>2, <2>4 DEF FdTurn, FdAlone, FdHeld, FdWorking
  <2>6. FdCallRight(n, t)
    BY <2>2, <2>4, FdNumbers DEF FdCallRight, FdTurn, FdAlone, FdAsked, Inside
  <2>7. \A u \in FdTasks \ {t} : FdCallRight(n, u)
    BY <2>4, FdNumbers DEF FdCallRight, FdTurn, FdAlone
  <2> QED
    BY <2>1, <2>4, <2>5, <2>6, <2>7 DEF FdInv, FdTurn, FdAlone
<1>3. CASE s.motor # "off"
  <2> DEFINE n == [s EXCEPT !.motor = "on"]
  <2>1. /\ n \in FdStates /\ n.call = s.call /\ n.lock = s.lock /\ n.wrong = s.wrong /\ n.waiter = s.waiter
        /\ n.job = s.job /\ n.irq = s.irq
    BY <1>1 DEF FdStates
  <2>2. MotorOn(s, t) = Seek(n, t)
    BY <1>3 DEF MotorOn
  <2> HIDE DEF n
  <2>3. FdTurn(n, t)
    BY <2>1 DEF FdTurn, FdAlone
  <2> QED
    BY <2>2, <2>3, FdSeeks
<1> QED
  BY <1>2, <1>3

\* The end of fd_read and fd_write.
LEMMA FdReturns ==
  ASSUME NEW s, NEW t \in FdTasks, FdAlone(s, t), NEW ok \in BOOLEAN,
         ok /\ Inside(s.call[t]) => Moved(s, s.call[t], t)
  PROVE  FdInv(FdReturn(s, t, ok))
<1> DEFINE r == FdReturn(s, t, ok)
           w == IF ok /\ ~ Moved(s, s.call[t], t)
                THEN s.wrong \cup {IF Inside(s.call[t]) THEN "inside" ELSE "across"} ELSE s.wrong
<1>1. s \in FdStates /\ s.call \in [FdTasks -> FdCalls]
  BY DEF FdAlone, FdStates
<1>2. FdIdle \in FdCalls /\ FdIdle.pc = "user"
  BY DEF FdIdle, FdCalls, FdPcs, FdData
<1>3. w \in SUBSET {"inside", "across"} /\ "inside" \notin w
  <2>1. s.wrong \in SUBSET {"inside", "across"} /\ "inside" \notin s.wrong
    BY DEF FdAlone, FdStates
  <2> QED
    BY <2>1
<1> DEFINE m == MotorOff(s, t)
<1>4. m \in FdStates /\ m.call = s.call /\ m.wrong = s.wrong /\ m.waiter = s.waiter /\ m.job = s.job
      /\ m.irq = s.irq
  <2> DEFINE u == [s EXCEPT !.motor = IF @ = "on" THEN "delay" ELSE @]
  <2>1. u \in FdStates /\ u.call = s.call /\ u.wrong = s.wrong /\ u.waiter = s.waiter /\ u.job = s.job
        /\ u.irq = s.irq
    BY ZenonT(60), <1>1 DEF FdStates
  <2>2. m = CASE u.timer = "none"               -> [u EXCEPT !.timer = "armed", !.owner = t]
              [] u.timer \in {"armed", "freed"} -> [u EXCEPT !.timer = "armed"]
              [] OTHER                          -> [u EXCEPT !.halt = "timer_update"]
    BY DEF MotorOff
  <2> HIDE DEF u, m
  <2>3. \/ m = [[u EXCEPT !.timer = "armed"] EXCEPT !.owner = t]
        \/ m = [u EXCEPT !.timer = "armed"]
        \/ m = [u EXCEPT !.halt = "timer_update"]
    BY <2>2
  <2>4. "armed" \in FdTimer /\ "timer_update" \in FdHalts /\ t \in FdTasks \cup {0}
    BY DEF FdTimer, FdHalts
  <2> QED
    BY ZenonT(60), <2>1, <2>3, <2>4 DEF FdStates
<1>5. r = [m EXCEPT !.lock = 0, !.call[t] = FdIdle, !.ok = TRUE, !.wrong = w]
  <2>1. m.wrong = s.wrong
    BY <1>4
  <2> QED
    BY <2>1 DEF FdReturn
<1> HIDE DEF m, r, w
<1>6. r = [m EXCEPT !.lock = 0, !.call = [m.call EXCEPT ![t] = FdIdle], !.ok = TRUE, !.wrong = w]
  BY <1>1, <1>4, <1>5 DEF FdStates
<1>7. /\ r \in FdStates /\ r.wrong = w /\ r.lock = 0 /\ r.waiter = s.waiter /\ r.job = s.job /\ r.irq = s.irq
      /\ r.call = [s.call EXCEPT ![t] = FdIdle]
  BY <1>1, <1>2, <1>3, <1>4, <1>6 DEF FdStates
<1>8. \A u \in FdTasks : r.call[u] = IF u = t THEN FdIdle ELSE s.call[u]
  BY <1>1, <1>7
<1>9. FdHeld(r) /\ FdWorking(r)
  BY <1>2, <1>7, <1>8, FdNumbers DEF FdAlone, FdHeld, FdWorking
<1>10. ASSUME NEW u \in FdTasks PROVE FdCallRight(r, u)
  <2>1. CASE u = t
    BY <1>2, <1>7, <1>8, <2>1, FdNumbers DEF FdCallRight, FdAlone
  <2>2. CASE u # t
    <3>1. PICK c \in FdCalls : c = s.call[u] /\ r.call[u] = c
      BY <1>1, <1>8, <2>2
    <3>2. c.pc \in {"user", "lock"} /\ (c.pc = "lock" => FdAsked(c)) /\ r.waiter # u
      BY <1>7, <2>2, <3>1, FdNumbers DEF FdAlone
    <3> QED
      BY <3>1, <3>2 DEF FdCallRight
  <2> QED
    BY <2>1, <2>2
<1> QED
  BY <1>3, <1>7, <1>9, <1>10 DEF FdInv, r

\* Who has the lock and does not wait is alone with the drive.
LEMMA FdAloneWhen ==
  ASSUME FdInv(fd), NEW t \in FdTasks, FdPc(t) \in {"spin", "sought", "done"}
  PROVE  FdTurn(fd, t)
<1>1. fd.lock = t /\ fd.waiter # t
  BY DEF FdInv, FdHeld, FdCallRight, FdPc
<1>2. ASSUME NEW u \in FdTasks \ {t} PROVE fd.call[u].pc \in {"user", "lock"} /\ fd.waiter # u
  BY <1>1 DEF FdInv, FdHeld, FdCallRight
<1>3. fd.waiter = 0
  BY <1>1, <1>2 DEF FdInv, FdStates
<1> QED
  BY <1>1, <1>2, <1>3 DEF FdInv, FdTurn, FdAlone, FdWorking, FdCallRight, FdPc

LEMMA FdEnters == ASSUME FdInv(fd), NEW t \in FdTasks, FdEnter(t) PROVE FdInv(fd)'
<1> DEFINE s == [fd EXCEPT !.lock = t]
<1>1. fd' = MotorOn(s, t)
  BY DEF FdEnter, FdDo
<1>2. fd \in FdStates /\ FdPc(t) = "lock" /\ fd.lock = 0
  BY DEF FdEnter, FdInv
<1>3. s \in FdStates /\ s.lock = t /\ s.call = fd.call /\ s.wrong = fd.wrong /\ s.waiter = fd.waiter
      /\ s.job = fd.job /\ s.irq = fd.irq
  BY <1>2 DEF FdStates
<1>4. \A u \in FdTasks : fd.call[u].pc \in {"user", "lock"} /\ fd.waiter # u
  BY <1>2, FdNumbers DEF FdInv, FdHeld, FdCallRight
<1>5. fd.waiter = 0
  BY <1>2, <1>4 DEF FdStates
<1> HIDE DEF s
<1>6. FdTurn(s, t)
  BY <1>2, <1>3, <1>4, <1>5 DEF FdInv, FdTurn, FdAlone, FdCallRight, FdWorking, FdPc
<1>7. FdInv(MotorOn(s, t))
  BY <1>6, FdMotorOn
<1> QED
  BY <1>1, <1>7

\* A step that only halts.
LEMMA FdStops == ASSUME FdInv(fd), NEW halt \in FdHalts, fd' = [fd EXCEPT !.halt = halt] PROVE FdInv(fd)'
<1>1. /\ fd' \in FdStates /\ fd'.call = fd.call
      /\ fd'.lock = fd.lock /\ fd'.wrong = fd.wrong /\ fd'.waiter = fd.waiter /\ fd'.job = fd.job
      /\ fd'.irq = fd.irq /\ fd'.disk = fd.disk /\ fd'.buf = fd.buf /\ fd'.ok = fd.ok
  BY DEF FdInv, FdStates
<1> QED
  BY <1>1 DEF FdInv, FdHeld, FdWorking, FdCallRight, FdFilled, FdResult

LEMMA FdGoesOn == ASSUME FdInv(fd), NEW t \in FdTasks, Spun(t) \/ Sought(t) PROVE FdInv(fd)'
<1>1. CASE Spun(t)
  <2>1. fd' = Seek(fd, t) /\ FdTurn(fd, t)
    BY <1>1, FdAloneWhen DEF Spun, FdDo
  <2> QED
    BY <2>1, FdSeeks
<1>2. CASE Sought(t) /\ fd.ok
  <2>1. fd' = FdWait(fd, t, "transfer") /\ FdTurn(fd, t) /\ FdFilled(fd, fd.call[t], t)
    BY <1>2, FdAloneWhen DEF Sought, FdDo, FdInv, FdCallRight, FdPc
  <2> QED
    BY <2>1, FdWaits
<1>3. CASE Sought(t) /\ ~ fd.ok
  <2>1. fd' = [fd EXCEPT !.halt = "seek failed"]
    BY <1>3 DEF Sought, FdDo
  <2>2. "seek failed" \in FdHalts
    BY DEF FdHalts
  <2> QED
    BY <2>1, <2>2, FdStops
<1> QED
  BY <1>1, <1>2, <1>3

LEMMA FdEnds == ASSUME FdInv(fd), NEW t \in FdTasks, Done(t) PROVE FdInv(fd)'
<1> DEFINE c == fd.call[t]
<1>1. c.pc = "done" /\ FdTurn(fd, t) /\ fd \in FdStates /\ c \in FdCalls /\ FdAsked(c)
  BY FdAloneWhen DEF Done, FdPc, FdTurn, FdAlone, FdStates
<1>2. CASE ~ fd.ok
  <2>1. fd' = FdReturn(fd, t, FALSE)
    BY <1>2 DEF Done, FdDo
  <2> QED
    BY <1>1, <2>1, FdReturns DEF FdTurn
<1>3. CASE fd.ok
  <2>1. FdResult(fd, c, t)
    BY <1>1, <1>3 DEF FdInv, FdCallRight
  <2>2. /\ Piece(c) \in Nat /\ c.count \in Nat /\ c.lba \in Nat /\ c.at \in Nat /\ c.left \in Nat
        /\ Inside(c) => Piece(c) = c.count /\ c.left = c.count
    BY <1>1, FdNumbers DEF FdAsked, FdCalls
  <2>3. PICK l \in Nat, a \in Nat : l = (c.left - Piece(c)) % 256 /\ a = c.at + Piece(c)
    BY <2>2
  <2>4. PICK b \in FdData : b = IF c.mode = "read" THEN fd.buf ELSE c.buf
    BY <1>1 DEF FdStates, FdCalls
  <2> DEFINE d == [c EXCEPT !.left = l, !.at = a, !.buf = b]
             s == [fd EXCEPT !.call[t] = d]
  <2>5. fd' = IF d.left = 0 THEN FdReturn(s, t, TRUE) ELSE Seek(s, t)
    <3>1. d = [c EXCEPT !.left = (@ - Piece(c)) % 256, !.at = @ + Piece(c),
                        !.buf = IF c.mode = "read" THEN fd.buf ELSE @]
      BY <2>3, <2>4
    <3> QED
      BY <1>3, <3>1 DEF Done, FdDo
  <2>6. /\ d \in FdCalls /\ d.left = l /\ d.mode = c.mode /\ d.lba = c.lba /\ d.count = c.count
        /\ d.buf = b /\ d.pc = c.pc
    <3>1. c \in FdCalls
      BY <1>1
    <3> HIDE DEF c
    <3> QED
      BY <3>1 DEF FdCalls
  <2>7. Inside(d) = Inside(c)
    BY <2>6 DEF Inside
  <2> HIDE DEF d
  <2>8. s = [fd EXCEPT !.call = [fd.call EXCEPT ![t] = d]]
    BY <1>1 DEF FdStates
  <2> HIDE DEF s
  <2>9. /\ s \in FdStates /\ s.call[t] = d /\ (\A u \in FdTasks \ {t} : s.call[u] = fd.call[u])
        /\ s.lock = fd.lock /\ s.wrong = fd.wrong /\ s.waiter = fd.waiter /\ s.job = fd.job /\ s.irq = fd.irq
        /\ s.disk = fd.disk
    BY <1>1, <2>6, <2>8 DEF FdStates
  <2>10. FdAlone(s, t)
    BY <1>1, <2>9 DEF FdTurn, FdAlone
  <2>11. CASE l = 0
    <3>1. Inside(s.call[t]) => Moved(s, s.call[t], t)
      <4> SUFFICES ASSUME Inside(c) PROVE Moved(s, d, t)
        BY <2>7, <2>9
      <4>1. ASSUME NEW i \in 0 .. c.count - 1
            PROVE  IF c.mode = "read" THEN i \in DOMAIN b /\ b[i] = fd.disk[c.lba + i]
                   ELSE fd.disk[c.lba + i] = <<t, i>>
        BY <2>1, <2>4 DEF FdResult
      <4> QED
        BY <2>6, <2>9, <4>1 DEF Moved
    <3>2. FdInv(FdReturn(s, t, TRUE))
      BY <2>10, <3>1, FdReturns
    <3> QED
      BY <2>5, <2>6, <2>11, <3>2
  <2>12. CASE l # 0
    <3>1. ~ Inside(c)
      BY <2>2, <2>3, <2>12
    <3>2. FdAsked(d)
      BY <1>1, <2>6, <2>7, <3>1 DEF FdAsked
    <3>3. FdTurn(s, t)
      BY <2>9, <2>10, <3>2 DEF FdTurn
    <3>4. FdInv(Seek(s, t))
      BY <3>3, FdSeeks
    <3> QED
      BY <2>5, <2>6, <2>12, <3>4
  <2> QED
    BY <2>11, <2>12
<1> QED
  BY <1>1, <1>2, <1>3 DEF FdStates

LEMMA FdCalled ==
  ASSUME FdInv(fd), NEW t \in FdTasks, NEW mode \in {"read", "write"}, NEW q \in Requests, FdCall(t, mode, q)
  PROVE  FdInv(fd)'
<1> DEFINE d == [FdIdle EXCEPT !.pc = "lock", !.mode = mode, !.lba = q[1], !.at = q[1], !.count = q[2], !.left = q[2]]
<1>1. q \in Requests /\ q = <<q[1], q[2]>> /\ q[1] \in Nat /\ q[2] \in Nat
  BY FdAssumption
<1>0. CASE q[1] + q[2] >= FdSectors
  <2>1. fd' = [fd EXCEPT !.halt = "fd_read"] /\ "fd_read" \in FdHalts
    BY <1>0 DEF FdCall, FdDo, FdHalts
  <2> QED
    BY <2>1, FdStops
<1> SUFFICES ASSUME ~ (q[1] + q[2] >= FdSectors) PROVE FdInv(fd)'
  BY <1>0
<1>2. FdPc(t) = "user" /\ fd' = [fd EXCEPT !.call[t] = d]
  BY DEF FdCall, FdDo
<1>3. PICK l \in Nat, n \in Nat : l = q[1] /\ n = q[2]
  BY <1>1
<1>4. FdIdle \in FdCalls
  BY DEF FdIdle, FdCalls, FdPcs, FdData
<1>5. d \in FdCalls /\ d.pc = "lock" /\ FdAsked(d)
  <2>1. d = [FdIdle EXCEPT !.pc = "lock", !.mode = mode, !.lba = l, !.at = l, !.count = n, !.left = n]
    BY <1>3
  <2> HIDE DEF d
  <2>2. /\ d \in FdCalls /\ d.pc = "lock" /\ d.lba = l /\ d.count = n /\ d.at = l /\ d.left = n
    BY <1>3, <1>4, <2>1 DEF FdCalls, FdPcs
  <2> QED
    BY <1>1, <1>3, <2>2, FdNumbers DEF FdAsked
<1> HIDE DEF d
<1>6. fd \in FdStates /\ fd.call \in [FdTasks -> FdCalls]
  BY DEF FdInv, FdStates
<1>7. fd' = [fd EXCEPT !.call = [fd.call EXCEPT ![t] = d]]
  BY <1>2, <1>6 DEF FdStates
<1>8. /\ fd' \in FdStates /\ fd'.call[t] = d /\ (\A u \in FdTasks \ {t} : fd'.call[u] = fd.call[u])
      /\ fd'.lock = fd.lock /\ fd'.wrong = fd.wrong /\ fd'.waiter = fd.waiter /\ fd'.job = fd.job
      /\ fd'.irq = fd.irq /\ fd'.disk = fd.disk /\ fd'.buf = fd.buf /\ fd'.ok = fd.ok
  BY <1>5, <1>6, <1>7 DEF FdStates
<1>9. fd.waiter # t /\ fd.lock # t
  BY <1>2 DEF FdInv, FdCallRight, FdHeld, FdPc
<1>10. FdHeld(fd)' /\ FdWorking(fd)'
  BY <1>5, <1>6, <1>8, <1>9 DEF FdInv, FdHeld, FdWorking, FdStates
<1>11. ASSUME NEW u \in FdTasks PROVE FdCallRight(fd, u)'
  <2>1. CASE u = t
    BY <1>5, <1>8, <1>9, <2>1 DEF FdCallRight
  <2>2. CASE u # t
    <3>1. FdCallRight(fd, u) /\ fd'.call[u] = fd.call[u]
      BY <1>8, <2>2 DEF FdInv
    <3> DEFINE c == fd.call[u]
    <3>2. FdFilled(fd', c, u) = FdFilled(fd, c, u)
      BY <1>8 DEF FdFilled
    <3>3. FdResult(fd', c, u) = FdResult(fd, c, u)
      BY <1>8 DEF FdResult
    <3> QED
      BY <1>8, <3>1, <3>2, <3>3 DEF FdCallRight
  <2> QED
    BY <2>1, <2>2
<1> QED
  BY <1>8, <1>10, <1>11 DEF FdInv

\* fd_handler: the one that waits goes on.
LEMMA FdInterrupts == ASSUME FdInv(fd), FdInterrupt PROVE FdInv(fd)'
<1>1. fd \in FdStates /\ fd.irq /\ fd.call \in [FdTasks -> FdCalls]
  BY DEF FdInterrupt, FdInv, FdStates
<1>2. fd.waiter \in FdTasks /\ fd.waiter # 0 /\ fd.job = "none"
  BY <1>1 DEF FdInv, FdWorking, FdStates
<1>3. PICK t \in FdTasks : t = fd.waiter
  BY <1>2
<1> DEFINE p == IF fd.call[t].pc = "seek" THEN "sought" ELSE "done"
           c == [fd.call[t] EXCEPT !.pc = p]
<1>4. fd' = [fd EXCEPT !.irq = FALSE, !.waiter = 0,
               !.call = [u \in FdTasks |-> IF u # fd.waiter THEN fd.call[u] ELSE [fd.call[u] EXCEPT !.pc = p]]]
  BY <1>3 DEF FdInterrupt, FdDo
<1>5. fd' = [fd EXCEPT !.irq = FALSE, !.waiter = 0, !.call = [fd.call EXCEPT ![t] = c]]
  <2>1. [u \in FdTasks |-> IF u # fd.waiter THEN fd.call[u] ELSE [fd.call[u] EXCEPT !.pc = p]]
          = [fd.call EXCEPT ![t] = c]
    BY <1>1, <1>3
  <2> QED
    BY <1>4, <2>1
<1>6. c \in FdCalls /\ c.pc = p /\ c.mode = fd.call[t].mode /\ c.lba = fd.call[t].lba
      /\ c.count = fd.call[t].count /\ c.left = fd.call[t].left /\ c.at = fd.call[t].at
  BY <1>1 DEF FdCalls, FdPcs
<1> HIDE DEF c
<1>7. /\ fd' \in FdStates /\ fd'.call[t] = c /\ (\A u \in FdTasks \ {t} : fd'.call[u] = fd.call[u])
      /\ fd'.lock = fd.lock /\ fd'.wrong = fd.wrong /\ fd'.waiter = 0 /\ fd'.job = "none"
      /\ ~ fd'.irq /\ fd'.disk = fd.disk /\ fd'.buf = fd.buf /\ fd'.ok = fd.ok
  BY <1>1, <1>2, <1>5, <1>6 DEF FdStates
<1>8. fd.call[t].pc \in {"seek", "transfer"} /\ fd.lock = t
  BY <1>3 DEF FdInv, FdCallRight, FdHeld
<1>9. FdHeld(fd)' /\ FdWorking(fd)'
  BY <1>6, <1>7, <1>8 DEF FdInv, FdHeld, FdWorking
<1>10. ASSUME NEW u \in FdTasks PROVE FdCallRight(fd, u)'
  <2>1. CASE u = t
    <3> DEFINE o == fd.call[t]
    <3>1. Inside(c) = Inside(o)
      BY <1>6 DEF Inside
    <3>2. FdAsked(o) /\ FdFilled(fd, o, t) /\ (o.pc = "transfer" /\ fd.ok => FdResult(fd, o, t))
      BY <1>1, <1>8 DEF FdInv, FdCallRight
    <3>3. FdAsked(c)
      BY <1>6, <3>1, <3>2 DEF FdAsked
    <3>4. FdFilled(fd', c, t)
      BY <1>6, <1>7, <3>1, <3>2 DEF FdFilled
    <3>5. o.pc = "transfer" /\ fd.ok => FdResult(fd', c, t)
      BY <1>6, <1>7, <3>1, <3>2 DEF FdResult
    <3>6. c.pc = "sought" \/ (c.pc = "done" /\ o.pc = "transfer")
      BY <1>6, <1>8
    <3> QED
      BY <1>7, <2>1, <3>3, <3>4, <3>5, <3>6, FdNumbers DEF FdCallRight
  <2>2. CASE u # t
    <3>1. fd.call[u].pc \in {"user", "lock"}
      BY <1>8, <2>2 DEF FdInv, FdHeld
    <3> QED
      BY <1>7, <2>2, <3>1, FdNumbers DEF FdInv, FdCallRight
  <2> QED
    BY <2>1, <2>2
<1> QED
  BY <1>7, <1>9, <1>10 DEF FdInv

\* The controller does what the waiting call asked for.
LEMMA FdWorks == ASSUME FdInv(fd), NEW ok \in BOOLEAN, Works(ok) PROVE FdInv(fd)'
<1>1. fd \in FdStates /\ fd.waiter # 0 /\ fd.job # "none" /\ fd.call \in [FdTasks -> FdCalls]
  BY DEF Works, FdInv, FdStates
<1>2. PICK t \in FdTasks : t = fd.waiter
  BY <1>1 DEF FdStates
<1> DEFINE c == fd.call[t]
<1>3. c \in FdCalls /\ FdAsked(c) /\ fd.job = c.pc /\ c.pc \in {"seek", "transfer"} /\ FdFilled(fd, c, t)
      /\ fd.lock = t
  BY <1>1, <1>2 DEF FdInv, FdCallRight, FdWorking, FdHeld
<1>4. /\ Piece(c) \in Nat /\ c.count \in Nat /\ c.lba \in Nat /\ c.at \in Nat /\ Track(c.at) \in Int
      /\ Inside(c) => Piece(c) = c.count /\ c.at = c.lba
      /\ \A i \in 0 .. c.count - 1 : c.lba + i \in Lbas
  <2>1. c.count \in Nat /\ c.lba \in Nat /\ c.at \in Nat
    BY <1>3 DEF FdCalls
  <2>2. Inside(c) => c.at = c.lba
    BY <1>3 DEF FdAsked
  <2> HIDE DEF c
  <2> QED
    BY <1>3, <2>1, <2>2, FdNumbers
<1>5. PICK reads \in BOOLEAN : reads = (fd.job = "transfer" /\ c.mode = "read" /\ ok)
  OBVIOUS
<1>6. PICK writes \in BOOLEAN : writes = (fd.job = "transfer" /\ c.mode = "write" /\ ok)
  OBVIOUS
<1> DEFINE n     == Piece(c)
           track == IF fd.job = "seek" /\ ok THEN Track(c.at) ELSE fd.track
           buf   == IF reads THEN [i \in 0 .. n - 1 |-> fd.disk[c.at + i]] ELSE fd.buf
           disk  == IF writes
                    THEN [l \in Lbas |-> IF l - c.at \in DOMAIN fd.buf THEN fd.buf[l - c.at] ELSE fd.disk[l]]
                    ELSE fd.disk
<1>7. DOMAIN fd.disk = Lbas /\ fd.disk \in [Lbas -> FdCells] /\ fd.buf \in FdData
  BY SMTT(60), <1>1 DEF FdStates
<1>8. fd' = [fd EXCEPT !.irq = TRUE, !.job = "none", !.ok = ok, !.track = track, !.buf = buf, !.disk = disk]
  <2>1. fd' = [fd EXCEPT !.irq = TRUE, !.job = "none", !.ok = ok,
                !.track = IF fd.job = "seek" /\ ok THEN Track(c.at) ELSE @,
                !.buf = IF fd.job = "transfer" /\ c.mode = "read" /\ ok
                        THEN [i \in 0 .. Piece(c) - 1 |-> fd.disk[c.at + i]] ELSE @,
                !.disk = IF fd.job = "transfer" /\ c.mode = "write" /\ ok
                         THEN [l \in DOMAIN @ |-> IF l - c.at \in DOMAIN fd.buf THEN fd.buf[l - c.at] ELSE @[l]]
                         ELSE @]
    BY <1>2 DEF Works, FdDo
  <2> QED
    BY <1>5, <1>6, <1>7, <2>1
<1>9. writes /\ Inside(c) => fd.buf = [i \in 0 .. c.count - 1 |-> <<t, i>>]
  BY <1>3, <1>6 DEF FdFilled
<1>10. track \in Int
  BY <1>1, <1>4 DEF FdStates
<1>11. buf \in FdData
  <2>1. CASE reads
    <3>1. c.at + n <= FdSectors
      BY <1>2, <1>5, <2>1 DEF Works
    <3>2. \A i \in 0 .. n - 1 : c.at + i \in Lbas
      BY <1>4, <3>1, FdNumbers DEF Lbas
    <3>3. \A i \in 0 .. n - 1 : fd.disk[c.at + i] \in FdCells
      BY <1>7, <3>2
    <3>4. PICK k \in Nat : k = n
      BY <1>4
    <3>5. buf \in [0 .. k - 1 -> FdCells]
      BY <2>1, <3>3, <3>4
    <3> HIDE DEF buf
    <3> QED
      BY <3>5 DEF FdData
  <2>2. CASE ~ reads
    BY <1>1, <2>2 DEF FdStates
  <2> QED
    BY <2>1, <2>2
<1>12. disk \in [Lbas -> FdCells]
  <2>1. CASE writes
    <3>1. \A l \in Lbas : l - c.at \in DOMAIN fd.buf => fd.buf[l - c.at] \in FdCells
      BY <1>7, FdCellOf
    <3> QED
      BY <1>7, <2>1, <3>1
  <2>2. CASE ~ writes
    BY <1>7, <2>2
  <2> QED
    BY <2>1, <2>2
<1>13. ok /\ c.pc = "transfer" /\ Inside(c) =>
         IF c.mode = "read" THEN buf = [i \in 0 .. c.count - 1 |-> fd.disk[c.lba + i]] /\ disk = fd.disk
         ELSE \A i \in 0 .. c.count - 1 : disk[c.lba + i] = <<t, i>>
  <2> SUFFICES ASSUME ok, c.pc = "transfer", Inside(c)
               PROVE  IF c.mode = "read" THEN buf = [i \in 0 .. c.count - 1 |-> fd.disk[c.lba + i]] /\ disk = fd.disk
                      ELSE \A i \in 0 .. c.count - 1 : disk[c.lba + i] = <<t, i>>
    OBVIOUS
  <2>1. c.mode \in {"read", "write"} /\ n = c.count /\ c.at = c.lba
    BY <1>3, <1>4 DEF FdCalls
  <2>2. CASE c.mode = "read"
    BY <1>3, <1>5, <1>6, <2>1, <2>2
  <2>3. CASE c.mode = "write"
    <3>1. writes
      BY <1>3, <1>6, <2>3
    <3>2. ASSUME NEW i \in 0 .. c.count - 1 PROVE disk[c.lba + i] = <<t, i>>
      <4>1. PICK l \in Lbas : l = c.lba + i
        BY <1>4
      <4>2. l - c.at = i
        BY <1>4, <2>1, <4>1
      <4>3. DOMAIN fd.buf = 0 .. c.count - 1 /\ fd.buf[i] = <<t, i>>
        BY <1>9, <3>1
      <4>4. disk[l] = <<t, i>>
        BY <3>1, <4>2, <4>3
      <4> HIDE DEF disk
      <4> QED
        BY <4>1, <4>4
    <3> QED
      BY <2>3, <3>2
  <2> QED
    BY <2>1, <2>2, <2>3
<1>14. c.mode = "write" => buf = fd.buf
  BY <1>5
<1> HIDE DEF track, buf, disk
<1>15. /\ fd' \in FdStates /\ fd'.call = fd.call
       /\ fd'.lock = fd.lock /\ fd'.wrong = fd.wrong /\ fd'.waiter = fd.waiter /\ fd'.job = "none"
       /\ fd'.irq = TRUE /\ fd'.disk = disk /\ fd'.buf = buf /\ fd'.ok = ok
  BY <1>1, <1>8, <1>10, <1>11, <1>12 DEF FdStates
<1>16. FdHeld(fd)' /\ FdWorking(fd)'
  BY <1>1, <1>15 DEF FdInv, FdHeld, FdWorking
<1>17. ASSUME NEW u \in FdTasks PROVE FdCallRight(fd, u)'
  <2>1. CASE u = t
    <3>1. FdFilled(fd', c, t)
      BY <1>3, <1>14, <1>15 DEF FdFilled
    <3>2. ok /\ c.pc = "transfer" => FdResult(fd', c, t)
      BY <1>13, <1>15 DEF FdResult
    <3> QED
      BY <1>2, <1>3, <1>15, <2>1, <3>1, <3>2 DEF FdCallRight
  <2>2. CASE u # t
    <3>1. fd.call[u].pc \in {"user", "lock"}
      BY <1>3, <2>2 DEF FdInv, FdHeld
    <3> QED
      BY <1>15, <2>2, <3>1 DEF FdInv, FdCallRight
  <2> QED
    BY <2>1, <2>2
<1> QED
  BY <1>15, <1>16, <1>17 DEF FdInv

\* The timer of the motor, and what only halts.
LEMMA FdTimers ==
  ASSUME FdInv(fd), MotorTimeout \/ FdTimeout \/ TimerGone \/ \E t \in FdTasks : FdExit(t)
  PROVE  FdInv(fd)'
<1>1. /\ fd' \in FdStates /\ fd'.call = fd.call
      /\ fd'.lock = fd.lock /\ fd'.wrong = fd.wrong /\ fd'.waiter = fd.waiter /\ fd'.job = fd.job
      /\ fd'.irq = fd.irq /\ fd'.disk = fd.disk /\ fd'.buf = fd.buf /\ fd'.ok = fd.ok
  <2>1. fd \in FdStates
    BY DEF FdInv
  <2>2. "fd_wait timed out" \in FdHalts /\ "none" \in FdTimer /\ "freed" \in FdTimer /\ "gone" \in FdTimer
    BY DEF FdHalts, FdTimer
  <2>3. \/ fd' = [fd EXCEPT !.motor = "off", !.timer = "none"]
        \/ fd' = [fd EXCEPT !.halt = "fd_wait timed out"]
        \/ fd' = [fd EXCEPT !.timer = "freed"]
        \/ fd' = [fd EXCEPT !.timer = "gone"]
    BY DEF MotorTimeout, FdTimeout, TimerGone, FdExit, FdDo
  <2> QED
    BY ZenonT(60), <2>1, <2>2, <2>3 DEF FdStates
<1> QED
  BY <1>1 DEF FdInv, FdHeld, FdWorking, FdCallRight, FdFilled, FdResult

LEMMA FdStart == ASSUME NEW halt \in FdHalts, FdInit(halt) PROVE FdInv(fd)
<1>1. FdIdle \in FdCalls /\ FdIdle.pc = "user"
  BY DEF FdIdle, FdCalls, FdPcs, FdData
<1>2. << >> \in FdData
  BY DEF FdData
<1>3. fd \in FdStates
  <2>1. /\ fd.lock = 0 /\ fd.waiter = 0 /\ fd.irq = FALSE /\ fd.motor = "off" /\ fd.track = 0 /\ fd.timer = "none"
        /\ fd.owner = 0 /\ fd.buf = << >> /\ fd.disk = [l \in Lbas |-> <<0, 0>>] /\ fd.job = "none" /\ fd.ok = TRUE
        /\ fd.call = [t \in FdTasks |-> FdIdle] /\ fd.wrong = {} /\ fd.halt = halt
        /\ fd = [lock |-> fd.lock, waiter |-> fd.waiter, irq |-> fd.irq, motor |-> fd.motor,
                 track |-> fd.track, timer |-> fd.timer, owner |-> fd.owner,
                 buf |-> fd.buf, disk |-> fd.disk, job |-> fd.job, ok |-> fd.ok,
                 call |-> fd.call, wrong |-> fd.wrong, halt |-> fd.halt]
    BY DEF FdInit
  <2>2. fd.call \in [FdTasks -> FdCalls] /\ fd.disk \in [Lbas -> FdCells] /\ fd.track \in Int
    BY <1>1, <2>1 DEF FdCells
  <2>3. fd.timer \in FdTimer
    BY <2>1 DEF FdTimer
  <2> QED
    BY <1>2, <2>1, <2>2, <2>3 DEF FdStates
<1>4. \A t \in FdTasks : fd.call[t] = FdIdle
  BY DEF FdInit
<1>5. fd.lock = 0 /\ fd.waiter = 0 /\ fd.job = "none" /\ ~ fd.irq /\ "inside" \notin fd.wrong
  BY DEF FdInit
<1> QED
  BY <1>1, <1>3, <1>4, <1>5, FdNumbers DEF FdInv, FdHeld, FdWorking, FdCallRight

\* A call of the floppy disk for sectors of one cylinder that returns well has
\* read what is on the disk or written its own data, although all calls share
\* one DMA buffer and sleep between the copy and the transfer: for any number
\* of tasks, whatever the other calls ask for, and whatever has become of the
\* timer of the motor.
THEOREM FloppyIsExact == Spec => []FloppyExact
<1>1. Init => FdInv(fd)
  <2>1. "" \in FdHalts /\ "off" \in FdHalts
    BY DEF FdHalts
  <2> QED
    BY <2>1, FdStart DEF Init
<1>2. FdInv(fd) /\ [Next]_<<ide, fd, net>> => FdInv(fd)'
  <2> SUFFICES ASSUME FdInv(fd), [Next]_<<ide, fd, net>> PROVE FdInv(fd)'
    OBVIOUS
  <2>1. CASE FdInterrupt
    BY <2>1, FdInterrupts
  <2>2. CASE Works(TRUE) \/ Works(FALSE)
    BY <2>2, FdWorks
  <2>3. CASE MotorTimeout \/ FdTimeout \/ TimerGone \/ \E t \in FdTasks : FdExit(t)
    BY <2>3, FdTimers
  <2>4. ASSUME NEW t \in FdTasks, FdEnter(t) PROVE FdInv(fd)'
    BY <2>4, FdEnters
  <2>5. ASSUME NEW t \in FdTasks, Spun(t) \/ Sought(t) PROVE FdInv(fd)'
    BY <2>5, FdGoesOn
  <2>6. ASSUME NEW t \in FdTasks, Done(t) PROVE FdInv(fd)'
    BY <2>6, FdEnds
  <2>7. ASSUME NEW t \in FdTasks, NEW mode \in {"read", "write"}, NEW q \in Requests, FdCall(t, mode, q)
        PROVE  FdInv(fd)'
    BY <2>7, FdCalled
  <2>8. CASE UNCHANGED fd
    <3>1. fd' = [fd EXCEPT !.halt = fd.halt] /\ fd.halt \in FdHalts
      BY <2>8 DEF FdInv, FdStates
    <3> QED
      BY <3>1, FdStops
  <2> QED
    BY <2>1, <2>2, <2>3, <2>4, <2>5, <2>6, <2>7, <2>8 DEF Next, FdNext
<1>3. FdInv(fd) => FloppyExact
  BY DEF FdInv, FloppyExact
<1> QED
  BY <1>1, <1>2, <1>3, PTL DEF Spec
-----------------------------------------------------------------------------
\* A packet that is in one place, counted.
One(c, b) == IF c = b THEN 1 ELSE 0

\* What is appended is counted.
LEMMA TimesConcat ==
  ASSUME NEW S, NEW q \in Seq(S), NEW r \in Seq(S), NEW b
  PROVE  /\ Times(q, b) \in Nat
         /\ Times(q \o r, b) = Times(q, b) + Times(r, b)
<1> DEFINE A == {i \in 1 .. Len(q) : q[i] = b}
           B == {i \in 1 .. Len(r) : r[i] = b}
           C == {i \in (Len(q) + 1) .. Len(q) + Len(r) : r[i - Len(q)] = b}
           F == [i \in B |-> i + Len(q)]
<1>1. /\ Len(q) \in Nat /\ Len(r) \in Nat /\ DOMAIN q = 1 .. Len(q) /\ DOMAIN r = 1 .. Len(r)
      /\ q \o r \in Seq(S) /\ Len(q \o r) = Len(q) + Len(r)
      /\ DOMAIN (q \o r) = 1 .. Len(q) + Len(r)
      /\ \A i \in 1 .. Len(q) + Len(r) : (q \o r)[i] = IF i <= Len(q) THEN q[i] ELSE r[i - Len(q)]
  OBVIOUS
<1>2. IsFiniteSet(A) /\ IsFiniteSet(B) /\ IsFiniteSet(C)
  <2>1. IsFiniteSet(1 .. Len(q)) /\ IsFiniteSet(1 .. Len(r)) /\ IsFiniteSet((Len(q) + 1) .. Len(q) + Len(r))
    BY <1>1, FS_Interval
  <2>2. A \in SUBSET (1 .. Len(q)) /\ B \in SUBSET (1 .. Len(r)) /\ C \in SUBSET ((Len(q) + 1) .. Len(q) + Len(r))
    OBVIOUS
  <2> QED BY <2>1, <2>2, FS_Subset
<1>3. {i \in DOMAIN (q \o r) : (q \o r)[i] = b} = A \cup C /\ A \cap C = {}
  BY <1>1
<1>4. F \in Bijection(B, C)
  <2>1. ASSUME NEW i \in B PROVE i + Len(q) \in C
    BY <1>1
  <2>2. ASSUME NEW i \in C PROVE i - Len(q) \in B /\ (i - Len(q)) + Len(q) = i
    <3>1. i \in (Len(q) + 1) .. Len(q) + Len(r) /\ r[i - Len(q)] = b
      OBVIOUS
    <3>2. i - Len(q) \in 1 .. Len(r) /\ (i - Len(q)) + Len(q) = i
      BY <1>1, <3>1
    <3> QED BY <3>1, <3>2
  <2>3. F \in [B -> C]
    BY <2>1
  <2>4. \A i, j \in B : F[i] = F[j] => i = j
    BY <1>1
  <2>5. \A i \in C : \E j \in B : F[j] = i
    BY <2>2
  <2> QED BY <2>3, <2>4, <2>5, Fun_IsBij
<1>5. Cardinality(B) = Cardinality(C)
  BY <1>2, <1>4, FS_Bijection DEF ExistsBijection
<1>6. Cardinality(A \cup C) = Cardinality(A) + Cardinality(C)
  <2>1. Cardinality(A) \in Nat /\ Cardinality(C) \in Nat
    BY <1>2, FS_CardinalityType
  <2>2. Cardinality(A \cap C) = 0
    BY <1>3, FS_EmptySet
  <2> HIDE DEF A, C
  <2>3. Cardinality(A \cup C) = Cardinality(A) + Cardinality(C) - Cardinality(A \cap C)
    BY <1>2, FS_Union
  <2> QED BY <2>1, <2>2, <2>3
<1>7. Times(q, b) = Cardinality(A) /\ Times(r, b) = Cardinality(B)
  BY <1>1 DEF Times
<1>8. Times(q \o r, b) = Cardinality(A \cup C)
  BY <1>3 DEF Times
<1> QED BY <1>2, <1>5, <1>6, <1>7, <1>8, FS_CardinalityType

\* What is in a list of nothing, and of one packet.
LEMMA TimesOf ==
  ASSUME NEW S, NEW c \in S, NEW b
  PROVE  Times(<< >>, b) = 0 /\ Times(<<c>>, b) = One(c, b)
<1>1. {i \in DOMAIN << >> : << >>[i] = b} = {}
  <2>1. << >> \in Seq(S) /\ Len(<< >>) = 0
    OBVIOUS
  <2>2. ASSUME NEW q \in Seq(S), Len(q) = 0 PROVE {i \in DOMAIN q : q[i] = b} = {}
    BY <2>2
  <2> QED BY Zenon, <2>1, <2>2
<1>2. {i \in DOMAIN <<c>> : <<c>>[i] = b} = IF c = b THEN {1} ELSE {}
  <2>1. DOMAIN <<c>> = {1} /\ <<c>>[1] = c
    OBVIOUS
  <2> QED BY <2>1
<1> QED BY <1>1, <1>2, FS_EmptySet, FS_Singleton DEF Times, One

\* What is at the head, and what is in front.
LEMMA TimesSplit ==
  ASSUME NEW S, NEW q \in Seq(S), NEW b, NEW n \in 0 .. Len(q)
  PROVE  /\ q # << >> => Times(q, b) = One(Head(q), b) + Times(Tail(q), b)
         /\ SubSeq(q, 1, n) \in Seq(S) /\ Len(SubSeq(q, 1, n)) = n
         /\ SubSeq(q, n + 1, Len(q)) \in Seq(S) /\ Len(SubSeq(q, n + 1, Len(q))) = Len(q) - n
         /\ Times(q, b) = Times(SubSeq(q, 1, n), b) + Times(SubSeq(q, n + 1, Len(q)), b)
<1>1. ASSUME q # << >> PROVE Times(q, b) = One(Head(q), b) + Times(Tail(q), b)
  <2>1. Head(q) \in S /\ Tail(q) \in Seq(S) /\ q = <<Head(q)>> \o Tail(q)
    BY <1>1
  <2>2. <<Head(q)>> \in Seq(S)
    BY <2>1
  <2>3. Times(<<Head(q)>> \o Tail(q), b) = Times(<<Head(q)>>, b) + Times(Tail(q), b)
    BY <2>1, <2>2, TimesConcat
  <2>4. Times(<<Head(q)>>, b) = One(Head(q), b)
    BY <2>1, TimesOf
  <2>5. Times(<<Head(q)>> \o Tail(q), b) = Times(q, b)
    BY <2>1
  <2> QED BY <2>3, <2>4, <2>5
<1> DEFINE f == SubSeq(q, 1, n)
           g == SubSeq(q, n + 1, Len(q))
<1>2. f \in Seq(S) /\ Len(f) = n /\ g \in Seq(S) /\ Len(g) = Len(q) - n
  <2>1. \A i \in 1 .. n : i \in 1 .. Len(q)
    OBVIOUS
  <2>2. f \in Seq(S) /\ Len(f) = IF 1 <= n THEN n - 1 + 1 ELSE 0
    BY SubSeqProperties
  <2>3. g \in Seq(S) /\ Len(g) = IF n + 1 <= Len(q) THEN Len(q) - (n + 1) + 1 ELSE 0
    <3>1. n + 1 \in Int /\ Len(q) \in Int /\ \A i \in n + 1 .. Len(q) : q[i] \in S
      OBVIOUS
    <3> QED BY SMTT(60), <3>1, SubSeqProperties
  <2> QED BY <2>2, <2>3
<1>3. q = f \o g
  <2>1. SubSeq(q, 1, Len(q)) = q
    BY SubSeqFull
  <2>2. f \o g = SubSeq(q, 1, Len(q))
    <3>1. 1 \in 1 .. Len(q) + 1 /\ n \in 1 - 1 .. Len(q) /\ Len(q) \in n .. Len(q)
      OBVIOUS
    <3> QED BY Zenon, <3>1, ConcatAdjacentSubSeq
  <2> QED BY Zenon, <2>1, <2>2
<1> HIDE DEF f, g
<1>4. Times(f \o g, b) = Times(f, b) + Times(g, b)
  BY <1>2, TimesConcat
<1>5. Times(f \o g, b) = Times(q, b)
  BY Zenon, <1>3
<1>6. Times(q, b) = Times(f, b) + Times(g, b)
  BY <1>4, <1>5
<1> QED BY Zenon, <1>1, <1>2, <1>6 DEF f, g

\* What is at the head is counted once more than in the rest.
LEMMA TimesHead ==
  ASSUME NEW S, NEW q \in Seq(S), q # << >>, NEW b
  PROVE  Times(q, b) = One(Head(q), b) + Times(Tail(q), b)
<1>1. 0 \in 0 .. Len(q)
  OBVIOUS
<1> QED BY <1>1, TimesSplit

\* A packet that is in a list is there at least once, and once in a list in
\* which nothing is twice.
LEMMA TimesRange ==
  ASSUME NEW S, NEW q \in Seq(S), NEW b
  PROVE  /\ b \in Range(q) <=> Times(q, b) > 0
         /\ IsInjective(q) => Times(q, b) = IF b \in Range(q) THEN 1 ELSE 0
<1> DEFINE A == {i \in DOMAIN q : q[i] = b}
<1>1. IsFiniteSet(A)
  <2>1. Len(q) \in Nat /\ DOMAIN q = 1 .. Len(q)
    OBVIOUS
  <2>2. IsFiniteSet(1 .. Len(q))
    BY <2>1, FS_Interval
  <2> QED BY <2>1, <2>2, FS_Subset
<1>2. Cardinality(A) \in Nat /\ (Cardinality(A) = 0 <=> A = {})
  BY <1>1, FS_CardinalityType, FS_EmptySet
<1>3. b \in Range(q) <=> A # {}
  BY DEF Range
<1>4. ASSUME IsInjective(q), NEW i \in A PROVE A = {i}
  BY <1>4 DEF IsInjective
<1>5. Times(q, b) = Cardinality(A)
  BY DEF Times
<1>6. ASSUME IsInjective(q), b \in Range(q) PROVE Cardinality(A) = 1
  BY <1>3, <1>4, <1>6, FS_Singleton
<1> HIDE DEF A
<1> QED BY <1>2, <1>3, <1>5, <1>6

NetDescs == [buf : Bufs \cup {0}, done : BOOLEAN]
TxRing == 0 .. TxNr - 1
\* A descriptor of the transmit ring is written.
LEMMA SendingChanges ==
  ASSUME NEW tx \in [TxRing -> NetDescs], NEW i \in TxRing,
         NEW new \in [TxRing -> NetDescs], \A j \in TxRing : j # i => new[j] = tx[j], NEW b
  PROVE  /\ Sending(tx, b) \in Nat
         /\ Sending(new, b) = Sending(tx, b) - One(tx[i].buf, b) + One(new[i].buf, b)
<1> DEFINE A == {j \in (TxRing) \ {i} : tx[j].buf = b}
           B(c) == IF c = b THEN {i} ELSE {}
<1>1. IsFiniteSet(A) /\ i \notin A
  <2>1. IsFiniteSet(TxRing)
    BY NetAssumption, FS_Interval DEF TxRing
  <2> QED BY <2>1, FS_Subset
<1>2. {j \in DOMAIN tx : tx[j].buf = b} = A \cup B(tx[i].buf)
  OBVIOUS
<1>3. {j \in DOMAIN new : new[j].buf = b} = A \cup B(new[i].buf)
  OBVIOUS
<1>4. ASSUME NEW c PROVE Cardinality(A \cup B(c)) = Cardinality(A) + One(c, b)
  <2>1. CASE c = b
    BY <1>1, <2>1, FS_AddElement DEF One
  <2>2. CASE c # b
    <3>1. A \cup B(c) = A
      BY <2>2
    <3> QED BY <1>1, <2>2, <3>1, FS_CardinalityType DEF One
  <2> QED BY <2>1, <2>2
<1>5. Cardinality(A) \in Nat
  BY <1>1, FS_CardinalityType
<1>6. Sending(tx, b) = Cardinality(A) + One(tx[i].buf, b)
  BY <1>2, <1>4 DEF Sending
<1>7. Sending(new, b) = Cardinality(A) + One(new[i].buf, b)
  BY <1>3, <1>4 DEF Sending
<1>8. \A c : One(c, b) \in {0, 1}
  BY DEF One
<1> HIDE DEF A
<1> QED BY <1>5, <1>6, <1>7, <1>8

\* The queue of one host is changed.
LEMMA WaitsChanges ==
  ASSUME NEW arp, \A k \in Near : arp[k].queue \in Seq(Bufs), NEW h \in Near,
         NEW new, \A k \in Near : new[k].queue \in Seq(Bufs) /\ (k # h => new[k].queue = arp[k].queue),
         NEW b
  PROVE  /\ Waits(arp, b) \in Nat /\ Times(arp[h].queue, b) <= Waits(arp, b)
         /\ Waits(new, b) = Waits(arp, b) - Times(arp[h].queue, b) + Times(new[h].queue, b)
<1> DEFINE At(q) == {i \in DOMAIN q : q[i] = b}
           Part(a, k) == {k} \X {i \in DOMAIN a[k].queue : a[k].queue[i] = b}
           Rest == UNION {Part(arp, k) : k \in Near \ {h}}
<1>1. ASSUME NEW q \in Seq(Bufs), NEW k PROVE IsFiniteSet({k} \X At(q)) /\ Cardinality({k} \X At(q)) = Times(q, b)
  <2>1. IsFiniteSet(At(q))
    <3>1. Len(q) \in Nat /\ DOMAIN q = 1 .. Len(q)
      OBVIOUS
    <3>2. IsFiniteSet(1 .. Len(q))
      BY <3>1, FS_Interval
    <3> QED BY <3>1, <3>2, FS_Subset
  <2>2. IsFiniteSet({k}) /\ Cardinality({k}) = 1
    BY FS_Singleton
  <2>3. Cardinality(At(q)) \in Nat /\ Cardinality(At(q)) = Times(q, b)
    BY <2>1, FS_CardinalityType DEF Times
  <2> HIDE DEF At
  <2>4. IsFiniteSet({k} \X At(q)) /\ Cardinality({k} \X At(q)) = Cardinality({k}) * Cardinality(At(q))
    BY <2>1, <2>2, FS_Product
  <2> QED BY <2>2, <2>3, <2>4
<1>2. IsFiniteSet(Rest)
  <2>1. \A k \in Near \ {h} : IsFiniteSet(Part(arp, k))
    BY <1>1
  <2>2. IsFiniteSet(Near \ {h})
    BY NetAssumption, FS_Subset
  <2> HIDE DEF Part
  <2>3. IsFiniteSet({Part(arp, k) : k \in Near \ {h}})
    <3> DEFINE f == [k \in Near \ {h} |-> Part(arp, k)]
               T == {Part(arp, k) : k \in Near \ {h}}
    <3>1. f \in [Near \ {h} -> T] /\ \A t \in T : \E k \in Near \ {h} : f[k] = t
      OBVIOUS
    <3> HIDE DEF f, T
    <3>2. f \in Surjection(Near \ {h}, T)
      BY <3>1, Fun_IsSurj
    <3>3. IsFiniteSet(T)
      BY <2>2, <3>2, FS_Surjection DEF ExistsSurjection
    <3> QED BY <3>3 DEF T
  <2> QED BY <2>1, <2>3, FS_UNION
<1>3. ASSUME NEW a, \A k \in Near : a[k].queue \in Seq(Bufs) /\ (k # h => a[k].queue = arp[k].queue)
      PROVE  Waits(a, b) = Cardinality(Rest) + Times(a[h].queue, b)
  <2>1. UNION {Part(a, k) : k \in Near} = Rest \cup Part(a, h)
    BY <1>3
  <2>2. Rest \cap Part(a, h) = {}
    OBVIOUS
  <2>3. Waits(a, b) = Cardinality(Rest \cup Part(a, h))
    BY Zenon, <2>1 DEF Waits
  <2>4. IsFiniteSet(Part(a, h)) /\ Cardinality(Part(a, h)) = Times(a[h].queue, b)
    BY <1>1, <1>3
  <2> HIDE DEF Part, Rest
  <2>5. Cardinality(Rest \cup Part(a, h)) = Cardinality(Rest) + Cardinality(Part(a, h)) - Cardinality(Rest \cap Part(a, h))
    BY <1>2, <2>4, FS_Union
  <2>6. Cardinality(Rest \cap Part(a, h)) = 0
    BY <2>2, FS_EmptySet
  <2>7. Cardinality(Rest) \in Nat /\ Cardinality(Part(a, h)) \in Nat
    BY <1>2, <2>4, FS_CardinalityType
  <2> QED BY <2>3, <2>4, <2>5, <2>6, <2>7
<1>4. Cardinality(Rest) \in Nat
  BY <1>2, FS_CardinalityType
<1>7. Times(arp[h].queue, b) \in Nat /\ Times(new[h].queue, b) \in Nat
  BY TimesConcat
<1> HIDE DEF Rest
<1>5. Waits(arp, b) = Cardinality(Rest) + Times(arp[h].queue, b)
  BY <1>3
<1>6. Waits(new, b) = Cardinality(Rest) + Times(new[h].queue, b)
  BY <1>3
<1> QED BY <1>4, <1>5, <1>6, <1>7

NetEntries == [there : BOOLEAN, life : Int, age : Int, retry : Int, used : BOOLEAN, queue : Seq(Bufs)]
NetKinds == {"none", "request", "reply", "answer", "ping"} \cup UNION Traffic
NetMsgs == [kind : NetKinds, host : Near \cup Far \cup {0}]
NetHalts == {"", "off"}
NetStates ==
  [traffic : SUBSET UNION Traffic, count : [Bufs -> Nat], msg : [Bufs -> NetMsgs],
   rx : Seq(Bufs), filled : Nat, rxq : Seq(Bufs), txq : Seq(Bufs),
   tx : [TxRing -> NetDescs], cur : TxRing, tdh : TxRing,
   icr : SUBSET {"tx", "rx"}, waiter : BOOLEAN, neti : {"run", "wait"}, neto : {"run", "wait", "block"},
   out : Bufs \cup {0}, arp : [Near -> NetEntries], halt : NetHalts]
\* Nothing waits for a host that has no entry.
NetTyped(s) == s \in NetStates /\ \A h \in Near : ~ s.arp[h].there => s.arp[h].queue = << >>

\* In how many places a packet is, and how often it is counted beyond that:
\* once for whoever works on it.
Held(s, b) == Times(s.rx, b) + Times(s.rxq, b) + Times(s.txq, b) + Sending(s.tx, b) + Waits(s.arp, b) + One(s.out, b)
Lent(s, b) == s.count[b] - Held(s, b)

\* What the threads do not touch.
NetQuiet(s, e) ==
  /\ e.traffic = s.traffic /\ e.rx = s.rx /\ e.filled = s.filled /\ e.tx = s.tx /\ e.cur = s.cur
  /\ e.tdh = s.tdh /\ e.icr = s.icr /\ e.waiter = s.waiter /\ e.out = s.out /\ e.halt = s.halt
  /\ s.neto = "block" => e.neto = "block"
\* From s to e, b is lent n times more, and no packet comes to be shared.
NetMoves(s, e, b, n) ==
  /\ NetTyped(e) /\ NetQuiet(s, e)
  /\ \A c \in Bufs : /\ Lent(e, c) = Lent(s, c) + IF c = b THEN n ELSE 0
                     /\ e.count[c] <= s.count[c] \/ e.count[c] <= 1

\* What is counted is a number.
LEMMA HeldNat ==
  ASSUME NEW s \in NetStates, NEW b
  PROVE  /\ Times(s.rx, b) \in Nat /\ Times(s.rxq, b) \in Nat /\ Times(s.txq, b) \in Nat
         /\ Sending(s.tx, b) \in Nat /\ Waits(s.arp, b) \in Nat /\ One(s.out, b) \in Nat
         /\ Held(s, b) \in Nat
<1>1. Times(s.rx, b) \in Nat /\ Times(s.rxq, b) \in Nat /\ Times(s.txq, b) \in Nat
  BY TimesConcat DEF NetStates
<1>2. Sending(s.tx, b) \in Nat
  <2>1. 0 \in TxRing /\ s.tx \in [TxRing -> NetDescs] /\ s.tx[0] \in NetDescs
    BY NetAssumption DEF NetStates, TxRing
  <2> QED BY <2>1, SendingChanges
<1>3. Waits(s.arp, b) \in Nat
  <2>1. \A k \in Near : s.arp[k].queue \in Seq(Bufs)
    BY DEF NetStates, NetEntries
  <2> QED BY <2>1, NetAssumption, WaitsChanges
<1>4. One(s.out, b) \in Nat
  BY DEF One
<1> QED BY <1>1, <1>2, <1>3, <1>4 DEF Held

\* A component is written.
LEMMA NetWrites ==
  ASSUME NEW s \in NetStates
  PROVE  /\ \A v \in [Bufs -> Nat] : [s EXCEPT !.count = v] \in NetStates
         /\ \A v \in [Bufs -> NetMsgs] : [s EXCEPT !.msg = v] \in NetStates
         /\ \A v \in Seq(Bufs) : [s EXCEPT !.rx = v] \in NetStates
         /\ \A v \in Seq(Bufs) : [s EXCEPT !.rxq = v] \in NetStates
         /\ \A v \in Seq(Bufs) : [s EXCEPT !.txq = v] \in NetStates
         /\ \A v \in Nat : [s EXCEPT !.filled = v] \in NetStates
         /\ \A v \in {"run", "wait"} : [s EXCEPT !.neti = v] \in NetStates
         /\ \A v \in {"run", "wait", "block"} : [s EXCEPT !.neto = v] \in NetStates
         /\ \A v \in [Near -> NetEntries] : [s EXCEPT !.arp = v] \in NetStates
         /\ \A v \in [TxRing -> NetDescs] : [s EXCEPT !.tx = v] \in NetStates
         /\ \A v \in TxRing : [s EXCEPT !.cur = v] \in NetStates /\ [s EXCEPT !.tdh = v] \in NetStates
         /\ \A v \in SUBSET {"tx", "rx"} : [s EXCEPT !.icr = v] \in NetStates
         /\ \A v \in BOOLEAN : [s EXCEPT !.waiter = v] \in NetStates
         /\ \A v \in Bufs \cup {0} : [s EXCEPT !.out = v] \in NetStates
BY ZenonT(60) DEF NetStates

\* One move follows another.
LEMMA MovesTwice ==
  ASSUME NEW s \in NetStates, NEW b, NEW n \in Int, NEW m \in Int,
         NEW u, NetMoves(s, u, b, n), NEW e, NetMoves(u, e, b, m)
  PROVE  NetMoves(s, e, b, n + m)
<1>1. NetTyped(e) /\ NetQuiet(s, e)
  BY DEF NetMoves, NetQuiet
<1>2. ASSUME NEW c \in Bufs
      PROVE  /\ Lent(e, c) = Lent(s, c) + IF c = b THEN n + m ELSE 0
             /\ e.count[c] <= s.count[c] \/ e.count[c] <= 1
  <2>1. u \in NetStates /\ e \in NetStates
    BY DEF NetMoves, NetTyped
  <2>2. s.count[c] \in Nat /\ u.count[c] \in Nat /\ e.count[c] \in Nat
    BY <2>1 DEF NetStates
  <2>3. Lent(s, c) \in Int
    BY <2>2, HeldNat DEF Lent
  <2>4. /\ Lent(u, c) = Lent(s, c) + IF c = b THEN n ELSE 0
        /\ u.count[c] <= s.count[c] \/ u.count[c] <= 1
        /\ Lent(e, c) = Lent(u, c) + IF c = b THEN m ELSE 0
        /\ e.count[c] <= u.count[c] \/ e.count[c] <= 1
    BY DEF NetMoves
  <2> QED BY <2>2, <2>3, <2>4
<1> QED BY <1>1, <1>2 DEF NetMoves

\* A free packet is taken.
LEMMA PbufGets ==
  ASSUME NEW s \in NetStates, Free(s) # {}
  PROVE  /\ PbufGet(s).b \in Bufs /\ s.count[PbufGet(s).b] = 0
         /\ PbufGet(s).s = [s EXCEPT !.count[PbufGet(s).b] = 1]
<1>1. PbufGet(s).b \in Free(s)
  BY DEF PbufGet
<1> QED BY <1>1 DEF PbufGet, Free

\* Packets are put into the queue of neto.
LEMMA NetOutputs ==
  ASSUME NEW s, NetTyped(s), NEW q \in Seq(Bufs)
  PROVE  LET e == NetifOutput(s, q)
         IN /\ NetTyped(e) /\ NetQuiet(s, e) /\ e.count = s.count
            /\ \A c \in Bufs : Held(e, c) = Held(s, c) + Times(q, c)
<1> DEFINE e == NetifOutput(s, q)
           woken == IF s.neto = "wait" /\ q # << >> THEN "run" ELSE s.neto
<1>1. e = [[s EXCEPT !.txq = @ \o q] EXCEPT !.neto = woken] /\ s \in NetStates
  BY DEF NetifOutput, NetTyped
<1>2. e \in NetStates /\ e.txq = s.txq \o q /\ e.neto = woken
  <2>1. s.txq \o q \in Seq(Bufs) /\ woken \in {"run", "wait", "block"}
    BY <1>1 DEF NetStates
  <2> DEFINE u == [s EXCEPT !.txq = @ \o q]
  <2>2. u \in NetStates /\ u.txq = s.txq \o q
    <3>1. u = [s EXCEPT !.txq = s.txq \o q]
      OBVIOUS
    <3>2. [s EXCEPT !.txq = s.txq \o q].txq = s.txq \o q
      BY <1>1 DEF NetStates
    <3> QED BY Zenon, <1>1, <2>1, <3>1, <3>2, NetWrites
  <2> HIDE DEF u
  <2>3. [u EXCEPT !.neto = woken].txq = u.txq /\ [u EXCEPT !.neto = woken].neto = woken
    BY <2>2 DEF NetStates
  <2>4. [u EXCEPT !.neto = woken] \in NetStates
    BY Zenon, <2>1, <2>2, NetWrites
  <2> QED BY Zenon, <1>1, <2>2, <2>3, <2>4 DEF u
<1>3. /\ e.traffic = s.traffic /\ e.rx = s.rx /\ e.filled = s.filled /\ e.tx = s.tx /\ e.cur = s.cur
      /\ e.tdh = s.tdh /\ e.icr = s.icr /\ e.waiter = s.waiter /\ e.out = s.out /\ e.halt = s.halt
      /\ e.rxq = s.rxq /\ e.arp = s.arp /\ e.count = s.count
  BY <1>1 DEF NetStates
<1> HIDE DEF e
<1>4. NetTyped(e)
  BY <1>2, <1>3 DEF NetTyped
<1>5. ASSUME NEW c \in Bufs PROVE Held(e, c) = Held(s, c) + Times(q, c)
  <2>1. Times(s.txq \o q, c) = Times(s.txq, c) + Times(q, c) /\ Times(q, c) \in Nat
    BY <1>1, TimesConcat DEF NetStates
  <2>2. Held(e, c) = Times(s.rx, c) + Times(s.rxq, c) + Times(s.txq \o q, c) + Sending(s.tx, c) + Waits(s.arp, c) + One(s.out, c)
    BY <1>2, <1>3 DEF Held
  <2>3. Held(s, c) = Times(s.rx, c) + Times(s.rxq, c) + Times(s.txq, c) + Sending(s.tx, c) + Waits(s.arp, c) + One(s.out, c)
    BY DEF Held
  <2>4. /\ Times(s.rx, c) \in Nat /\ Times(s.rxq, c) \in Nat /\ Times(s.txq, c) \in Nat
        /\ Sending(s.tx, c) \in Nat /\ Waits(s.arp, c) \in Nat /\ One(s.out, c) \in Nat
    BY <1>1, HeldNat
  <2> QED BY <2>1, <2>2, <2>3, <2>4
<1>6. NetQuiet(s, e)
  BY <1>2, <1>3 DEF NetQuiet
<1> QED BY <1>3, <1>4, <1>5, <1>6 DEF e

\* One lent packet is put somewhere.
LEMMA MovesOut ==
  ASSUME NEW s, NetTyped(s), NEW e, NetTyped(e), NetQuiet(s, e), e.count = s.count, NEW b,
         \A c \in Bufs : Held(e, c) = Held(s, c) + One(b, c)
  PROVE  NetMoves(s, e, b, -1)
<1> SUFFICES ASSUME NEW c \in Bufs
             PROVE  /\ Lent(e, c) = Lent(s, c) + IF c = b THEN -1 ELSE 0
                    /\ e.count[c] <= s.count[c] \/ e.count[c] <= 1
  BY DEF NetMoves
<1>1. s.count[c] \in Nat /\ Held(s, c) \in Nat
  BY HeldNat DEF NetTyped, NetStates
<1> QED BY <1>1 DEF Lent, One

\* Nothing is put anywhere.
LEMMA MovesNone ==
  ASSUME NEW s, NetTyped(s), NEW e, NetTyped(e), NetQuiet(s, e), e.count = s.count,
         \A c \in Bufs : Held(e, c) = Held(s, c), NEW b
  PROVE  NetMoves(s, e, b, 0)
<1> SUFFICES ASSUME NEW c \in Bufs
             PROVE  /\ Lent(e, c) = Lent(s, c) + IF c = b THEN 0 ELSE 0
                    /\ e.count[c] <= s.count[c] \/ e.count[c] <= 1
  BY DEF NetMoves
<1>1. s.count[c] \in Nat /\ Held(s, c) \in Nat
  BY HeldNat DEF NetTyped, NetStates
<1> QED BY <1>1 DEF Lent

\* A packet is written, and put into the queue of neto.
LEMMA EthOutputs ==
  ASSUME NEW s, NetTyped(s), NEW b \in Bufs, NEW msg \in NetMsgs
  PROVE  NetMoves(s, EthOutput(s, b, msg), b, -1)
<1> DEFINE u == [s EXCEPT !.msg[b] = msg]
           e == EthOutput(s, b, msg)
<1>1. s \in NetStates /\ s.msg \in [Bufs -> NetMsgs]
  BY DEF NetTyped, NetStates
<1>2. u = [s EXCEPT !.msg = [s.msg EXCEPT ![b] = msg]]
  BY <1>1 DEF NetStates
<1>3. u \in NetStates
  <2>1. [s.msg EXCEPT ![b] = msg] \in [Bufs -> NetMsgs]
    BY <1>1
  <2> QED BY Zenon, <1>1, <1>2, <2>1, NetWrites
<1>4. /\ u.traffic = s.traffic /\ u.rx = s.rx /\ u.filled = s.filled /\ u.tx = s.tx /\ u.cur = s.cur
      /\ u.tdh = s.tdh /\ u.icr = s.icr /\ u.waiter = s.waiter /\ u.out = s.out /\ u.halt = s.halt
      /\ u.rxq = s.rxq /\ u.txq = s.txq /\ u.arp = s.arp /\ u.count = s.count /\ u.neto = s.neto
  BY <1>1 DEF NetStates
<1> HIDE DEF u
<1>5. NetTyped(u) /\ NetQuiet(s, u) /\ \A c \in Bufs : Held(u, c) = Held(s, c)
  BY <1>3, <1>4 DEF NetTyped, NetQuiet, Held
<1>6. <<b>> \in Seq(Bufs) /\ e = NetifOutput(u, <<b>>)
  BY DEF EthOutput, u
<1>7. /\ NetTyped(e) /\ NetQuiet(u, e) /\ e.count = u.count
      /\ \A c \in Bufs : Held(e, c) = Held(u, c) + Times(<<b>>, c)
  BY Zenon, <1>5, <1>6, NetOutputs
<1>8. \A c \in Bufs : Times(<<b>>, c) = One(b, c)
  BY TimesOf
<1> HIDE DEF e
<1>9. NetQuiet(s, e) /\ e.count = s.count
  BY <1>4, <1>5, <1>7 DEF NetQuiet
<1>10. \A c \in Bufs : Held(e, c) = Held(s, c) + One(b, c)
  BY <1>5, <1>7, <1>8
<1> QED BY <1>7, <1>9, <1>10, MovesOut DEF e

\* An entry of the ARP cache is written.
LEMMA ArpWrites ==
  ASSUME NEW s, NetTyped(s), NEW h \in Near, NEW x \in NetEntries, ~ x.there => x.queue = << >>
  PROVE  LET e == [s EXCEPT !.arp[h] = x]
         IN /\ NetTyped(e) /\ NetQuiet(s, e) /\ e.count = s.count /\ e.arp[h] = x
            /\ \A k \in Near : k # h => e.arp[k] = s.arp[k]
            /\ \A c \in Bufs : Held(e, c) = Held(s, c) - Times(s.arp[h].queue, c) + Times(x.queue, c)
<1> DEFINE e == [s EXCEPT !.arp[h] = x]
           arp == [s.arp EXCEPT ![h] = x]
<1>1. s \in NetStates /\ s.arp \in [Near -> NetEntries]
  BY DEF NetTyped, NetStates
<1>2. e = [s EXCEPT !.arp = arp] /\ arp \in [Near -> NetEntries]
  BY <1>1 DEF NetStates
<1>3. e \in NetStates
  BY Zenon, <1>1, <1>2, NetWrites
<1>4. /\ e.traffic = s.traffic /\ e.rx = s.rx /\ e.filled = s.filled /\ e.tx = s.tx /\ e.cur = s.cur
      /\ e.tdh = s.tdh /\ e.icr = s.icr /\ e.waiter = s.waiter /\ e.out = s.out /\ e.halt = s.halt
      /\ e.rxq = s.rxq /\ e.txq = s.txq /\ e.arp = arp /\ e.count = s.count /\ e.neto = s.neto
  BY <1>1 DEF NetStates
<1>5. arp[h] = x /\ \A k \in Near : k # h => arp[k] = s.arp[k]
  BY <1>1
<1> HIDE DEF e, arp
<1>6. NetTyped(e) /\ NetQuiet(s, e)
  BY <1>3, <1>4, <1>5 DEF NetTyped, NetQuiet
<1>7. ASSUME NEW c \in Bufs PROVE Held(e, c) = Held(s, c) - Times(s.arp[h].queue, c) + Times(x.queue, c)
  <2>1. \A k \in Near : s.arp[k].queue \in Seq(Bufs)
    BY <1>1 DEF NetEntries
  <2>8. \A k \in Near : arp[k].queue \in Seq(Bufs) /\ (k # h => arp[k].queue = s.arp[k].queue)
    BY <1>1, <1>2, <1>5 DEF NetEntries
  <2>2. Waits(arp, c) = Waits(s.arp, c) - Times(s.arp[h].queue, c) + Times(arp[h].queue, c)
    <3> DEFINE a == s.arp
    <3>1. (\A k \in Near : a[k].queue \in Seq(Bufs)) /\ \A k \in Near : arp[k].queue \in Seq(Bufs) /\ (k # h => arp[k].queue = a[k].queue)
      BY <2>1, <2>8
    <3> HIDE DEF a
    <3>2. Waits(arp, c) = Waits(a, c) - Times(a[h].queue, c) + Times(arp[h].queue, c)
      BY <3>1, WaitsChanges
    <3> QED BY <3>2 DEF a
  <2>3. Held(e, c) = Times(s.rx, c) + Times(s.rxq, c) + Times(s.txq, c) + Sending(s.tx, c) + Waits(arp, c) + One(s.out, c)
    BY <1>4 DEF Held
  <2>4. Held(s, c) = Times(s.rx, c) + Times(s.rxq, c) + Times(s.txq, c) + Sending(s.tx, c) + Waits(s.arp, c) + One(s.out, c)
    BY DEF Held
  <2>5. /\ Times(s.rx, c) \in Nat /\ Times(s.rxq, c) \in Nat /\ Times(s.txq, c) \in Nat
        /\ Sending(s.tx, c) \in Nat /\ Waits(s.arp, c) \in Nat /\ One(s.out, c) \in Nat
    BY <1>1, HeldNat
  <2>6. Times(s.arp[h].queue, c) \in Nat /\ Times(x.queue, c) \in Nat
    BY <2>1, TimesConcat DEF NetEntries
  <2>7. arp[h].queue = x.queue
    BY <1>5
  <2> QED BY SMTT(60), <2>2, <2>3, <2>4, <2>5, <2>6, <2>7
<1> QED BY <1>4, <1>5, <1>6, <1>7 DEF e

\* A packet that is free gets out of the list of free ones.
LEMMA FreeTaken ==
  ASSUME NEW s, NetTyped(s), Free(s) # {}
  PROVE  LET g == PbufGet(s)
         IN g.b \in Bufs /\ s.count[g.b] = 0 /\ NetMoves(s, g.s, g.b, 1)
<1> DEFINE b == PbufGet(s).b
           e == PbufGet(s).s
<1>1. s \in NetStates /\ b \in Bufs /\ s.count[b] = 0 /\ e = [s EXCEPT !.count[b] = 1]
  BY PbufGets DEF NetTyped
<1> HIDE DEF b, e
<1>2. e = [s EXCEPT !.count = [s.count EXCEPT ![b] = 1]] /\ [s.count EXCEPT ![b] = 1] \in [Bufs -> Nat]
  BY <1>1 DEF NetStates
<1>3. e \in NetStates
  <2>1. s \in NetStates
    BY <1>1
  <2>2. [s.count EXCEPT ![b] = 1] \in [Bufs -> Nat]
    BY <1>2
  <2>3. [s EXCEPT !.count = [s.count EXCEPT ![b] = 1]] \in NetStates
    BY Zenon, <2>1, <2>2, NetWrites
  <2> QED BY Zenon, <1>2, <2>3
<1>4. /\ e.traffic = s.traffic /\ e.rx = s.rx /\ e.filled = s.filled /\ e.tx = s.tx /\ e.cur = s.cur
      /\ e.tdh = s.tdh /\ e.icr = s.icr /\ e.waiter = s.waiter /\ e.out = s.out /\ e.halt = s.halt
      /\ e.rxq = s.rxq /\ e.txq = s.txq /\ e.arp = s.arp /\ e.neto = s.neto
      /\ e.count = [s.count EXCEPT ![b] = 1]
  BY <1>1 DEF NetStates
<1>5. NetTyped(e) /\ NetQuiet(s, e) /\ \A c \in Bufs : Held(e, c) = Held(s, c)
  BY <1>3, <1>4 DEF NetTyped, NetQuiet, Held
<1>6. ASSUME NEW c \in Bufs
      PROVE  /\ Lent(e, c) = Lent(s, c) + IF c = b THEN 1 ELSE 0
             /\ e.count[c] <= s.count[c] \/ e.count[c] <= 1
  <2>1. s.count[c] \in Nat /\ Held(s, c) \in Nat /\ s.count \in [Bufs -> Nat]
    BY <1>1, HeldNat DEF NetStates
  <2> QED BY <1>1, <1>4, <1>5, <2>1 DEF Lent
<1>7. NetMoves(s, e, b, 1)
  BY <1>5, <1>6 DEF NetMoves
<1> QED BY <1>1, <1>7 DEF b, e

\* An entry is written.
LEMMA EntryWrites ==
  ASSUME NEW x \in NetEntries
  PROVE  /\ \A v \in BOOLEAN : [x EXCEPT !.there = v] \in NetEntries /\ [x EXCEPT !.used = v] \in NetEntries
         /\ \A v \in Int : /\ [x EXCEPT !.life = v] \in NetEntries
                           /\ [x EXCEPT !.age = v] \in NetEntries
                           /\ [x EXCEPT !.retry = v] \in NetEntries
         /\ \A v \in Seq(Bufs) : [x EXCEPT !.queue = v] \in NetEntries
BY ZenonT(60) DEF NetEntries

\* Nothing waits in an entry that is not there.
LEMMA NoEntryTyped == NoEntry \in NetEntries /\ ~ NoEntry.there /\ NoEntry.queue = << >>
<1>1. << >> \in Seq(Bufs) /\ Delay \in Int
  BY NetAssumption
<1> QED BY <1>1 DEF NoEntry, NetEntries

\* A packet of a known kind is a packet.
LEMMA MsgTyped == ASSUME NEW k \in NetKinds, NEW h \in Near \cup Far \cup {0} PROVE Packet(k, h) \in NetMsgs
BY DEF Packet, NetMsgs

\* The cache is asked: nothing moves, and the host has an entry.
LEMMA ArpLooksUp ==
  ASSUME NEW s, NetTyped(s), NEW h \in Near
  PROVE  LET u == ArpLookup(s, h)
         IN /\ NetTyped(u) /\ NetQuiet(s, u) /\ u.count = s.count /\ u.arp[h].there
            /\ \A c \in Bufs : Held(u, c) = Held(s, c)
<1> DEFINE x == [NoEntry EXCEPT !.there = TRUE, !.used = TRUE,
                                !.age = IF "query" \in Lossy THEN 0 - 1 ELSE Delay]
<1>1. CASE s.arp[h].there
  BY <1>1 DEF ArpLookup, NetQuiet
<1>2. CASE ~ s.arp[h].there
  <2>1. x \in NetEntries /\ x.there /\ x.queue = << >>
    <3>1. NoEntry \in NetEntries /\ NoEntry.queue = << >>
      BY NoEntryTyped
    <3> DEFINE y == [NoEntry EXCEPT !.there = TRUE]
               z == [y EXCEPT !.used = TRUE]
               a == IF "query" \in Lossy THEN 0 - 1 ELSE Delay
    <3>2. y \in NetEntries /\ y.there /\ y.queue = << >>
      BY <3>1, EntryWrites DEF NetEntries
    <3>3. z \in NetEntries /\ z.there /\ z.queue = << >>
      <4> HIDE DEF y
      <4> QED BY <3>2, EntryWrites DEF NetEntries
    <3>4. a \in Int
      BY NetAssumption
    <3>5. x = [z EXCEPT !.age = a]
      BY <3>1 DEF NetEntries
    <3> HIDE DEF x, z, a
    <3> QED BY <3>3, <3>4, <3>5, EntryWrites DEF NetEntries
  <2>2. ArpLookup(s, h) = [s EXCEPT !.arp[h] = x]
    BY <1>2 DEF ArpLookup
  <2> HIDE DEF x
  <2> DEFINE u == [s EXCEPT !.arp[h] = x]
  <2>3. /\ NetTyped(u) /\ NetQuiet(s, u) /\ u.count = s.count /\ u.arp[h] = x
        /\ \A c \in Bufs : Held(u, c) = Held(s, c) - Times(s.arp[h].queue, c) + Times(x.queue, c)
    BY <2>1, ArpWrites
  <2> HIDE DEF u
  <2>4. s.arp[h].queue = << >>
    BY <1>2 DEF NetTyped
  <2>5. \A c \in Bufs : Times(<< >>, c) = 0
    BY TimesOf
  <2>6. \A c \in Bufs : Held(s, c) \in Nat
    BY HeldNat DEF NetTyped
  <2>7. \A c \in Bufs : Held(u, c) = Held(s, c)
    BY <2>1, <2>3, <2>4, <2>5, <2>6
  <2> QED BY <2>1, <2>2, <2>3, <2>7 DEF u
<1> QED BY <1>1, <1>2

\* A request is sent in a packet of its own.
LEMMA ArpQueries ==
  ASSUME NEW s, NetTyped(s), NEW h \in Near, s.arp[h].there, Free(s) # {}, NEW b
  PROVE  NetMoves(s, ArpQuery(s, h), b, 0)
<1>1. CASE s.arp[h].age < Delay
  <2>1. NetQuiet(s, s) /\ ArpQuery(s, h) = s
    BY <1>1 DEF NetQuiet, ArpQuery
  <2> QED BY <2>1, MovesNone
<1>2. CASE ~ s.arp[h].age < Delay
  <2> DEFINE x == [s.arp[h] EXCEPT !.age = 0, !.retry = @ + 1]
             u == [s EXCEPT !.arp[h] = x]
             g == PbufGet(u)
             e == EthOutput(g.s, g.b, Packet("request", h))
  <2>1. x \in NetEntries /\ x.there /\ x.queue = s.arp[h].queue
    <3> DEFINE o == s.arp[h]
               y == [o EXCEPT !.age = 0]
    <3>1. o \in NetEntries /\ o.there
      BY DEF NetTyped, NetStates
    <3>2. x = [y EXCEPT !.retry = o.retry + 1] /\ o.retry + 1 \in Int
      BY <3>1 DEF NetEntries
    <3> HIDE DEF o, x
    <3>3. y \in NetEntries /\ y.there /\ y.queue = o.queue
      BY <3>1, EntryWrites DEF NetEntries
    <3> HIDE DEF y
    <3>4. x \in NetEntries /\ x.there /\ x.queue = o.queue
      BY <3>2, <3>3, EntryWrites DEF NetEntries
    <3> QED BY <3>4 DEF o
  <2>2. ArpQuery(s, h) = e
    <3>1. u = [s EXCEPT !.arp[h].age = 0, !.arp[h].retry = @ + 1]
      BY DEF NetTyped, NetStates, NetEntries
    <3> HIDE DEF u
    <3> QED BY <1>2, <3>1 DEF ArpQuery, Then
  <2>3. /\ NetTyped(u) /\ NetQuiet(s, u) /\ u.count = s.count
        /\ \A c \in Bufs : Held(u, c) = Held(s, c)
    <3> HIDE DEF x
    <3>1. /\ NetTyped(u) /\ NetQuiet(s, u) /\ u.count = s.count
          /\ \A c \in Bufs : Held(u, c) = Held(s, c) - Times(s.arp[h].queue, c) + Times(x.queue, c)
      BY <2>1, ArpWrites
    <3>2. \A c \in Bufs : Held(s, c) \in Nat /\ Times(s.arp[h].queue, c) \in Nat
      BY HeldNat, TimesConcat DEF NetTyped, NetStates, NetEntries
    <3> HIDE DEF u
    <3> QED BY <2>1, <3>1, <3>2
  <2> HIDE DEF u, x
  <2>4. g.b \in Bufs /\ NetMoves(u, g.s, g.b, 1)
    <3>1. Free(u) # {}
      BY <2>3 DEF Free
    <3> QED BY <2>3, <3>1, FreeTaken
  <2> HIDE DEF g
  <2>5. NetMoves(g.s, e, g.b, -1)
    <3>1. Packet("request", h) \in NetMsgs
      <4>1. "request" \in NetKinds
        BY DEF NetKinds
      <4> QED BY Zenon, <4>1, MsgTyped
    <3>2. NetTyped(g.s)
      BY <2>4 DEF NetMoves
    <3> QED BY <2>4, <3>1, <3>2, EthOutputs
  <2> HIDE DEF e
  <2>6. NetMoves(s, u, g.b, 0)
    BY <2>3, MovesNone
  <2>7. s \in NetStates
    BY DEF NetTyped
  <2>8. NetMoves(s, g.s, g.b, 0 + 1)
    BY <2>4, <2>6, <2>7, MovesTwice
  <2>9. NetMoves(s, e, g.b, 1 + -1)
    BY <2>5, <2>7, <2>8, MovesTwice
  <2> QED BY <2>2, <2>9 DEF NetMoves
<1> QED BY <1>1, <1>2

\* What waited for an address goes to neto.
LEMMA ArpRefreshes ==
  ASSUME NEW s, NetTyped(s), NEW h, NEW b
  PROVE  NetMoves(s, ArpRefresh(s, h), b, 0)
<1>1. CASE h \notin Near
  <2>1. NetQuiet(s, s) /\ ArpRefresh(s, h) = s
    BY <1>1 DEF NetQuiet, ArpRefresh
  <2> QED BY <2>1, MovesNone
<1>2. CASE h \in Near
  <2> DEFINE u == ArpLookup(s, h)
             x == [u.arp[h] EXCEPT !.life = Life, !.retry = 0, !.used = FALSE, !.queue = << >>]
             v == [u EXCEPT !.arp[h] = x]
             q == u.arp[h].queue
             e == NetifOutput(v, q)
  <2>1. ArpRefresh(s, h) = e
    BY <1>2 DEF ArpRefresh, Then
  <2>2. /\ NetTyped(u) /\ NetQuiet(s, u) /\ u.count = s.count /\ u.arp[h].there
        /\ \A c \in Bufs : Held(u, c) = Held(s, c)
    BY <1>2, ArpLooksUp
  <2> HIDE DEF u
  <2>3. x \in NetEntries /\ x.there /\ x.queue = << >> /\ q \in Seq(Bufs)
    <3> DEFINE o == u.arp[h]
               y == [o EXCEPT !.life = Life]
               z == [y EXCEPT !.retry = 0]
               w == [z EXCEPT !.used = FALSE]
    <3>1. o \in NetEntries /\ o.there /\ q \in Seq(Bufs) /\ << >> \in Seq(Bufs) /\ Life \in Int /\ 0 \in Int
      BY <1>2, <2>2, NetAssumption DEF NetTyped, NetStates, NetEntries
    <3>2. x = [w EXCEPT !.queue = << >>]
      BY <3>1 DEF NetEntries
    <3> HIDE DEF o, x
    <3>3. y \in NetEntries /\ y.there
      BY <3>1, EntryWrites DEF NetEntries
    <3> HIDE DEF y
    <3>4. z \in NetEntries /\ z.there
      BY <3>1, <3>3, EntryWrites DEF NetEntries
    <3> HIDE DEF z
    <3>5. w \in NetEntries /\ w.there
      BY <3>1, <3>4, EntryWrites DEF NetEntries
    <3> HIDE DEF w
    <3>6. x \in NetEntries /\ x.there /\ x.queue = << >>
      BY <3>1, <3>2, <3>5, EntryWrites DEF NetEntries
    <3> QED BY <3>1, <3>6
  <2> HIDE DEF x
  <2>4. /\ NetTyped(v) /\ NetQuiet(u, v) /\ v.count = u.count
        /\ \A c \in Bufs : Held(v, c) = Held(u, c) - Times(q, c) + Times(x.queue, c)
    BY <1>2, <2>2, <2>3, ArpWrites
  <2> HIDE DEF v
  <2>5. /\ NetTyped(e) /\ NetQuiet(v, e) /\ e.count = v.count
        /\ \A c \in Bufs : Held(e, c) = Held(v, c) + Times(q, c)
    BY <2>3, <2>4, NetOutputs
  <2>6. \A c \in Bufs : Times(q, c) \in Nat /\ Times(x.queue, c) = 0 /\ Held(s, c) \in Nat
    BY <2>3, TimesConcat, TimesOf, HeldNat DEF NetTyped
  <2> HIDE DEF e, q
  <2>7. NetQuiet(s, e) /\ e.count = s.count
    BY <2>2, <2>4, <2>5 DEF NetQuiet
  <2>8. \A c \in Bufs : Held(e, c) = Held(s, c)
    BY <2>2, <2>4, <2>5, <2>6
  <2> QED BY <2>1, <2>5, <2>7, <2>8, MovesNone
<1> QED BY <1>1, <1>2

\* A packet goes out by itself, or waits for the address.
LEMMA ArpEthOutputs ==
  ASSUME NEW s, NetTyped(s), Free(s) # {}, NEW b \in Bufs, NEW host
  PROVE  NetMoves(s, ArpEthOutput(s, b, host), b, -1)
<1> DEFINE h == Query(host)
           u == ArpLookup(s, h)
           o == u.arp[h]
<1>1. h \in Near
  BY NetAssumption DEF Query
<1> HIDE DEF h
<1>2. /\ NetTyped(u) /\ NetQuiet(s, u) /\ u.count = s.count /\ u.arp[h].there
      /\ \A c \in Bufs : Held(u, c) = Held(s, c)
  BY <1>1, ArpLooksUp
<1> HIDE DEF u
<1>3. o \in NetEntries /\ o.there
  BY <1>1, <1>2 DEF NetTyped, NetStates
<1>4. \A c \in Bufs : Held(s, c) \in Nat /\ Times(o.queue, c) \in Nat
  BY <1>3, HeldNat, TimesConcat DEF NetTyped, NetEntries
<1>5. <<b>> \in Seq(Bufs) /\ \A c \in Bufs : Times(<<b>>, c) = One(b, c) /\ One(b, c) \in Nat
  BY TimesOf DEF One
<1>6. CASE o.life > 0
  <2> DEFINE x == [o EXCEPT !.used = TRUE]
             v == [u EXCEPT !.arp[h] = x]
             e == NetifOutput(v, <<b>>)
  <2>1. x \in NetEntries /\ x.there /\ x.queue = o.queue
    <3> HIDE DEF o
    <3> QED BY <1>3, EntryWrites DEF NetEntries
  <2>2. ArpEthOutput(s, b, host) = e
    <3>1. v = [u EXCEPT !.arp[h].used = TRUE]
      BY DEF NetTyped, NetStates, NetEntries
    <3> HIDE DEF v
    <3> QED BY <1>6, <3>1 DEF ArpEthOutput, Then, h, u
  <2> HIDE DEF x, o
  <2>3. /\ NetTyped(v) /\ NetQuiet(u, v) /\ v.count = u.count
        /\ \A c \in Bufs : Held(v, c) = Held(u, c) - Times(o.queue, c) + Times(x.queue, c)
    BY <1>1, <1>2, <2>1, ArpWrites DEF o
  <2> HIDE DEF v
  <2>4. /\ NetTyped(e) /\ NetQuiet(v, e) /\ e.count = v.count
        /\ \A c \in Bufs : Held(e, c) = Held(v, c) + Times(<<b>>, c)
    BY <1>5, <2>3, NetOutputs
  <2> HIDE DEF e
  <2>5. NetQuiet(s, e) /\ e.count = s.count
    BY <1>2, <2>3, <2>4 DEF NetQuiet
  <2>6. ASSUME NEW c \in Bufs PROVE Held(e, c) = Held(s, c) + One(b, c)
    BY <1>2, <1>4, <1>5, <2>1, <2>3, <2>4
  <2> QED BY <2>2, <2>4, <2>5, <2>6, MovesOut
<1>7. CASE ~ o.life > 0
  <2> DEFINE x == [o EXCEPT !.queue = o.queue \o <<b>>]
             v == [u EXCEPT !.arp[h] = x]
  <2>1. x \in NetEntries /\ x.there /\ x.queue = o.queue \o <<b>> /\ o.queue \in Seq(Bufs)
    <3> HIDE DEF o
    <3>1. o.queue \in Seq(Bufs) /\ o.queue \o <<b>> \in Seq(Bufs)
      BY <1>3, <1>5 DEF NetEntries
    <3> QED BY <1>3, <3>1, EntryWrites DEF NetEntries
  <2>2. ArpEthOutput(s, b, host) = ArpQuery(v, h)
    <3>1. v = [u EXCEPT !.arp[h].queue = @ \o <<b>>]
      BY DEF NetTyped, NetStates, NetEntries
    <3> HIDE DEF v
    <3> QED BY <1>7, <3>1 DEF ArpEthOutput, Then, h, u
  <2> HIDE DEF x, o
  <2>3. /\ NetTyped(v) /\ NetQuiet(u, v) /\ v.count = u.count /\ v.arp[h] = x
        /\ \A c \in Bufs : Held(v, c) = Held(u, c) - Times(o.queue, c) + Times(x.queue, c)
    <3>1. /\ NetTyped(v) /\ NetQuiet(u, v) /\ v.count = u.count /\ v.arp[h] = x
          /\ \A c \in Bufs : Held(v, c) = Held(u, c) - Times(u.arp[h].queue, c) + Times(x.queue, c)
      <4>1. x \in NetEntries /\ x.there /\ NetTyped(u)
        BY <1>2, <2>1
      <4> QED BY <1>1, <4>1, ArpWrites
    <3> QED BY <3>1 DEF o
  <2> HIDE DEF v
  <2>4. NetQuiet(s, v) /\ v.count = s.count /\ Free(v) # {}
    BY <1>2, <2>3 DEF NetQuiet, Free
  <2>5. ASSUME NEW c \in Bufs PROVE Held(v, c) = Held(s, c) + One(b, c)
    <3>1. Times(o.queue \o <<b>>, c) = Times(o.queue, c) + Times(<<b>>, c)
      <4>1. o.queue \in Seq(Bufs) /\ <<b>> \in Seq(Bufs)
        BY <1>5, <2>1
      <4> QED BY <4>1, TimesConcat
    <3>2. x.queue = o.queue \o <<b>>
      BY <2>1
    <3> QED BY SMTT(60), <1>2, <1>4, <1>5, <2>3, <3>1, <3>2
  <2>6. NetMoves(s, v, b, -1)
    BY <2>3, <2>4, <2>5, MovesOut
  <2>7. NetMoves(v, ArpQuery(v, h), b, 0)
    <3>1. v.arp[h].there
      BY <2>1, <2>3
    <3>2. NetTyped(v) /\ Free(v) # {}
      BY <2>3, <2>4
    <3> QED BY Zenon, <1>1, <3>1, <3>2, ArpQueries
  <2>8. s \in NetStates
    BY DEF NetTyped
  <2>9. NetMoves(s, ArpQuery(v, h), b, -1 + 0)
    BY <2>6, <2>7, <2>8, MovesTwice
  <2> QED BY <2>2, <2>9
<1> QED BY <1>6, <1>7

\* A packet is counted once more.
CountUp(s, b) == [s EXCEPT !.count[b] = @ + 1]
LEMMA CountsUp ==
  ASSUME NEW s, NetTyped(s), NEW b \in Bufs
  PROVE  LET e == CountUp(s, b)
         IN /\ NetTyped(e) /\ NetQuiet(s, e) /\ e.count[b] = s.count[b] + 1 /\ e.msg = s.msg
            /\ \A c \in Bufs : c # b => e.count[c] = s.count[c]
            /\ \A c \in Bufs : Lent(e, c) = Lent(s, c) + IF c = b THEN 1 ELSE 0
<1> DEFINE e == CountUp(s, b)
<1>1. s \in NetStates /\ s.count \in [Bufs -> Nat]
  BY DEF NetTyped, NetStates
<1>2. e = [s EXCEPT !.count = [s.count EXCEPT ![b] = @ + 1]] /\ [s.count EXCEPT ![b] = @ + 1] \in [Bufs -> Nat]
  BY <1>1 DEF NetStates, CountUp
<1>3. e \in NetStates
  <2>1. [s.count EXCEPT ![b] = @ + 1] \in [Bufs -> Nat]
    BY <1>2
  <2>2. [s EXCEPT !.count = [s.count EXCEPT ![b] = @ + 1]] \in NetStates
    BY Zenon, <1>1, <2>1, NetWrites
  <2> QED BY Zenon, <1>2, <2>2
<1>4. /\ e.traffic = s.traffic /\ e.rx = s.rx /\ e.filled = s.filled /\ e.tx = s.tx /\ e.cur = s.cur
      /\ e.tdh = s.tdh /\ e.icr = s.icr /\ e.waiter = s.waiter /\ e.out = s.out /\ e.halt = s.halt
      /\ e.rxq = s.rxq /\ e.txq = s.txq /\ e.arp = s.arp /\ e.neto = s.neto /\ e.msg = s.msg
      /\ e.count = [s.count EXCEPT ![b] = @ + 1]
  BY <1>1 DEF NetStates, CountUp
<1> HIDE DEF e
<1>5. NetTyped(e) /\ NetQuiet(s, e) /\ \A c \in Bufs : Held(e, c) = Held(s, c)
  BY <1>3, <1>4 DEF NetTyped, NetQuiet, Held
<1>6. e.count[b] = s.count[b] + 1 /\ \A c \in Bufs : c # b => e.count[c] = s.count[c]
  BY <1>1, <1>4
<1>7. ASSUME NEW c \in Bufs PROVE Lent(e, c) = Lent(s, c) + IF c = b THEN 1 ELSE 0
  <2>1. s.count[c] \in Nat /\ Held(s, c) \in Nat
    BY <1>1, HeldNat
  <2> QED BY <1>5, <1>6, <2>1 DEF Lent
<1> QED BY <1>4, <1>5, <1>6, <1>7 DEF e

\* A request is turned round: it goes out, and is still with neti.
LEMMA ArpReplies ==
  ASSUME NEW s, NetTyped(s), NEW b \in Bufs
  PROVE  NetMoves(CountUp(s, b), ArpReply(s, b), b, -1)
<1>1. NetTyped(CountUp(s, b))
  BY CountsUp
<1>2. s.msg[b].host \in Near \cup Far \cup {0} /\ "reply" \in NetKinds
  BY DEF NetTyped, NetStates, NetMsgs, NetKinds
<1>3. Packet("reply", s.msg[b].host) \in NetMsgs
  BY Zenon, <1>2, MsgTyped
<1> QED BY <1>1, <1>3, EthOutputs DEF ArpReply, CountUp

\* An echo is answered in its own packet.
LEMMA IcmpInputs ==
  ASSUME NEW s, NetTyped(s), Free(s) # {}, NEW b \in Bufs, s.count[b] >= 1
  PROVE  NetMoves(CountUp(s, b), IcmpInput(s, b), b, -1)
<1> DEFINE u == CountUp(s, b)
           v == [s EXCEPT !.count[b] = @ + 1, !.msg[b].kind = "answer"]
           host == s.msg[b].host
           msg == [u.msg EXCEPT ![b] = Packet("answer", host)]
<1>1. /\ NetTyped(u) /\ u.count[b] = s.count[b] + 1 /\ u.msg = s.msg
      /\ \A c \in Bufs : c # b => u.count[c] = s.count[c]
  BY CountsUp
<1>2. u \in NetStates /\ msg \in [Bufs -> NetMsgs]
  <2>1. host \in Near \cup Far \cup {0} /\ "answer" \in NetKinds
    BY DEF NetTyped, NetStates, NetMsgs, NetKinds
  <2>2. Packet("answer", host) \in NetMsgs
    BY Zenon, <2>1, MsgTyped
  <2>3. u \in NetStates /\ u.msg \in [Bufs -> NetMsgs]
    BY <1>1 DEF NetTyped, NetStates
  <2> HIDE DEF u, host
  <2> QED BY <2>2, <2>3
<1>3. v = [u EXCEPT !.msg = msg]
  <2>1. s.msg[b] = [kind |-> s.msg[b].kind, host |-> host]
    BY DEF NetTyped, NetStates, NetMsgs
  <2>2. [s.msg[b] EXCEPT !.kind = "answer"] = Packet("answer", host)
    BY <2>1 DEF Packet
  <2>3. v = [u EXCEPT !.msg = [s.msg EXCEPT ![b] = [s.msg[b] EXCEPT !.kind = "answer"]]]
    BY DEF CountUp, NetTyped, NetStates
  <2> HIDE DEF u, host, v
  <2> QED BY <1>1, <2>2, <2>3
<1> HIDE DEF msg
<1>4. v \in NetStates
  BY Zenon, <1>2, <1>3, NetWrites
<1>5. /\ v.traffic = u.traffic /\ v.rx = u.rx /\ v.filled = u.filled /\ v.tx = u.tx /\ v.cur = u.cur
      /\ v.tdh = u.tdh /\ v.icr = u.icr /\ v.waiter = u.waiter /\ v.out = u.out /\ v.halt = u.halt
      /\ v.rxq = u.rxq /\ v.txq = u.txq /\ v.arp = u.arp /\ v.neto = u.neto /\ v.count = u.count
  <2> HIDE DEF u, v
  <2> QED BY <1>2, <1>3 DEF NetStates
<1> HIDE DEF u, v
<1>6. NetTyped(v) /\ NetQuiet(u, v) /\ \A c \in Bufs : Held(v, c) = Held(u, c)
  BY <1>1, <1>4, <1>5 DEF NetTyped, NetQuiet, Held
<1>7. NetMoves(u, v, b, 0)
  BY <1>1, <1>5, <1>6, MovesNone
<1>8. Free(v) # {}
  BY <1>1, <1>5 DEF Free
<1>9. NetMoves(v, ArpEthOutput(v, b, host), b, -1)
  BY <1>6, <1>8, ArpEthOutputs
<1>10. NetMoves(u, ArpEthOutput(v, b, host), b, 0 + -1)
  BY <1>2, <1>7, <1>9, MovesTwice
<1>11. IcmpInput(s, b) = ArpEthOutput(v, b, host)
  BY DEF IcmpInput, IpOutput, v
<1> QED BY <1>10, <1>11 DEF u

\* A packet is looked at: it stays where it is, or goes out once more.
LEMMA EthInputs ==
  ASSUME NEW s, NetTyped(s), Free(s) # {}, NEW b \in Bufs, s.count[b] >= 1
  PROVE  NetMoves(s, EthInput(s, b), b, 0) \/ NetMoves(CountUp(s, b), EthInput(s, b), b, -1)
<1>1. EthInput(s, b) \in {s, ArpReply(s, b), ArpRefresh(s, s.msg[b].host), IcmpInput(s, b)}
  BY DEF EthInput, ArpInput, IpInput
<1>2. NetMoves(s, s, b, 0)
  <2>1. NetQuiet(s, s)
    BY DEF NetQuiet
  <2> QED BY <2>1, MovesNone
<1> QED BY <1>1, <1>2, ArpReplies, ArpRefreshes, IcmpInputs

\* A packet is given back.
LEMMA PbufPuts ==
  ASSUME NEW s, NetTyped(s), NEW b \in Bufs, s.count[b] >= 1
  PROVE  LET e == PbufPut(s, b)
         IN /\ NetMoves(s, e, b, -1) /\ e.count[b] = s.count[b] - 1 /\ e.neto = s.neto
<1> DEFINE n == s.count[b] - 1
           count == [s.count EXCEPT ![b] = n]
           msg == [s.msg EXCEPT ![b] = IF s.count[b] = 1 THEN Empty ELSE s.msg[b]]
           u == [s EXCEPT !.count = count]
           e == [u EXCEPT !.msg = msg]
<1>1. s \in NetStates /\ s.count \in [Bufs -> Nat] /\ s.msg \in [Bufs -> NetMsgs]
  BY DEF NetTyped, NetStates
<1>2. n \in Nat /\ count \in [Bufs -> Nat] /\ msg \in [Bufs -> NetMsgs]
  <2>1. Empty \in NetMsgs
    <3>1. "none" \in NetKinds
      BY DEF NetKinds
    <3> QED BY Zenon, <3>1, MsgTyped DEF Empty
  <2> QED BY <1>1, <2>1
<1>3. PbufPut(s, b) = e
  <2>1. s.count[b] # 0 /\ DOMAIN s.count = Bufs /\ DOMAIN s.msg = Bufs
    BY <1>1
  <2> QED BY <1>1, <2>1 DEF PbufPut, NetStates
<1> HIDE DEF count, msg
<1>4. u \in NetStates
  BY Zenon, <1>1, <1>2, NetWrites
<1>5. e \in NetStates
  <2> HIDE DEF u
  <2> QED BY Zenon, <1>2, <1>4, NetWrites
<1>6. /\ e.traffic = s.traffic /\ e.rx = s.rx /\ e.filled = s.filled /\ e.tx = s.tx /\ e.cur = s.cur
      /\ e.tdh = s.tdh /\ e.icr = s.icr /\ e.waiter = s.waiter /\ e.out = s.out /\ e.halt = s.halt
      /\ e.rxq = s.rxq /\ e.txq = s.txq /\ e.arp = s.arp /\ e.neto = s.neto /\ e.count = count
  BY <1>1 DEF NetStates
<1> HIDE DEF e
<1>7. NetTyped(e) /\ NetQuiet(s, e) /\ \A c \in Bufs : Held(e, c) = Held(s, c)
  BY <1>5, <1>6 DEF NetTyped, NetQuiet, Held
<1>8. e.count[b] = n /\ \A c \in Bufs : c # b => e.count[c] = s.count[c]
  BY <1>1, <1>6 DEF count
<1>9. ASSUME NEW c \in Bufs
      PROVE  /\ Lent(e, c) = Lent(s, c) + IF c = b THEN -1 ELSE 0
             /\ e.count[c] <= s.count[c] \/ e.count[c] <= 1
  <2>1. s.count[c] \in Nat /\ Held(s, c) \in Nat
    BY <1>1, HeldNat
  <2> QED BY <1>7, <1>8, <2>1 DEF Lent
<1> QED BY <1>3, <1>6, <1>7, <1>8, <1>9 DEF NetMoves

\* The rings: what the card still has to send is there, and so is what it has
\* sent until the interrupt frees it; only neto waits for that.
RingsMade(s) ==
  /\ Len(s.rx) = RxNr /\ s.filled < RxNr
  /\ \A i \in TxRing : ~ s.tx[i].done => s.tx[i].buf # 0
  /\ s.waiter => s.neto = "block"
LastSent(s) == (s.tdh + TxNr - 1) % TxNr
Rings(s) ==
  RingsMade(s) /\ ("tx" \in s.icr => s.tx[LastSent(s)].done /\ s.tx[LastSent(s)].buf # 0)
\* Between two steps nothing is lent, and every packet is in one place.
Balanced(s) == \A c \in Bufs : Lent(s, c) = 0 /\ s.count[c] <= 1
NetInv(s) == NetTyped(s) /\ Rings(s) /\ Balanced(s)

\* What lends nothing keeps the invariant.
LEMMA MovesKeep ==
  ASSUME NEW s, NetInv(s), NEW e, NEW b, NetMoves(s, e, b, 0)
  PROVE  NetInv(e)
<1>1. NetTyped(e) /\ NetQuiet(s, e) /\ e.count \in [Bufs -> Nat]
  BY DEF NetMoves, NetTyped, NetStates
<1>2. Rings(e)
  BY <1>1 DEF NetInv, Rings, RingsMade, NetQuiet, LastSent
<1>3. ASSUME NEW c \in Bufs PROVE Lent(e, c) = 0 /\ e.count[c] <= 1
  <2>1. /\ Lent(s, c) = 0 /\ s.count[c] <= 1 /\ Lent(e, c) = Lent(s, c) + IF c = b THEN 0 ELSE 0
        /\ e.count[c] <= s.count[c] \/ e.count[c] <= 1
    BY DEF NetInv, Balanced, NetMoves
  <2>2. s.count[c] \in Nat /\ e.count[c] \in Nat
    BY <1>1 DEF NetInv, NetTyped, NetStates
  <2> QED BY <2>1, <2>2
<1> QED BY <1>1, <1>2, <1>3 DEF NetInv, Balanced

\* A step that is done is what it says.
LEMMA DoIs == ASSUME NEW s, Do(s) PROVE net' = s
BY Zenon DEF Do

\* neti waits, or takes the first packet, has it looked at and gives it back.
LEMMA NetiSteps == ASSUME NetInv(net), Neti PROVE NetInv(net')
<1>1. net \in NetStates /\ net.rxq \in Seq(Bufs) /\ NetTyped(net)
  BY DEF NetInv, NetTyped, NetStates
<1>2. CASE net.rxq = << >>
  <2>1. net' = [net EXCEPT !.neti = "wait"]
    <3>1. Do([net EXCEPT !.neti = "wait"])
      BY Zenon, <1>2 DEF Neti
    <3> QED BY Zenon, <3>1, DoIs
  <2>2. "wait" \in {"run", "wait"}
    OBVIOUS
  <2>3. net' \in NetStates
    BY Zenon, <1>1, <2>1, <2>2, NetWrites
  <2>4. /\ net'.traffic = net.traffic /\ net'.rx = net.rx /\ net'.filled = net.filled /\ net'.tx = net.tx
        /\ net'.cur = net.cur /\ net'.tdh = net.tdh /\ net'.icr = net.icr /\ net'.waiter = net.waiter
        /\ net'.out = net.out /\ net'.halt = net.halt /\ net'.rxq = net.rxq /\ net'.txq = net.txq
        /\ net'.arp = net.arp /\ net'.neto = net.neto /\ net'.count = net.count
    BY <1>1, <2>1 DEF NetStates
  <2>5. NetTyped(net') /\ NetQuiet(net, net') /\ \A c \in Bufs : Held(net', c) = Held(net, c)
    BY <1>1, <2>3, <2>4 DEF NetTyped, NetQuiet, Held
  <2>6. NetMoves(net, net', 0, 0)
    BY <1>1, <2>4, <2>5, MovesNone
  <2> QED BY <2>6, MovesKeep
<1>3. CASE net.rxq # << >>
  <2> DEFINE b == Head(net.rxq)
             s == [net EXCEPT !.rxq = Tail(@)]
             e == EthInput(s, b)
  <2>1. b \in Bufs /\ Tail(net.rxq) \in Seq(Bufs) /\ net' = PbufPut(e, b)
    <3>1. b \in Bufs /\ Tail(net.rxq) \in Seq(Bufs)
      BY <1>1, <1>3
    <3>2. Do(PbufPut(e, b))
      BY Zenon, <1>3 DEF Neti
    <3> QED BY Zenon, <3>1, <3>2, DoIs
  <2> HIDE DEF b
  <2>2. s \in NetStates
    <3>1. s = [net EXCEPT !.rxq = Tail(net.rxq)]
      OBVIOUS
    <3> QED BY Zenon, <1>1, <2>1, <3>1, NetWrites
  <2>3. /\ s.traffic = net.traffic /\ s.rx = net.rx /\ s.filled = net.filled /\ s.tx = net.tx /\ s.cur = net.cur
        /\ s.tdh = net.tdh /\ s.icr = net.icr /\ s.waiter = net.waiter /\ s.out = net.out /\ s.halt = net.halt
        /\ s.rxq = Tail(net.rxq) /\ s.txq = net.txq /\ s.arp = net.arp /\ s.neto = net.neto /\ s.count = net.count
    BY <1>1 DEF NetStates
  <2> HIDE DEF s
  <2>4. NetTyped(s) /\ NetQuiet(net, s)
    BY <1>1, <2>2, <2>3 DEF NetTyped, NetQuiet
  <2>5. ASSUME NEW c \in Bufs PROVE Lent(s, c) = One(b, c) /\ s.count[c] \in Nat /\ s.count[c] <= 1
    <3>1. Times(net.rxq, c) = One(b, c) + Times(Tail(net.rxq), c)
      BY <1>1, <1>3, TimesHead DEF b
    <3>2. Held(s, c) = Times(net.rx, c) + Times(Tail(net.rxq), c) + Times(net.txq, c) + Sending(net.tx, c)
                       + Waits(net.arp, c) + One(net.out, c)
      BY <2>3 DEF Held
    <3>3. Held(net, c) = Times(net.rx, c) + Times(net.rxq, c) + Times(net.txq, c) + Sending(net.tx, c)
                         + Waits(net.arp, c) + One(net.out, c)
      BY DEF Held
    <3>4. /\ Times(net.rx, c) \in Nat /\ Times(net.rxq, c) \in Nat /\ Times(net.txq, c) \in Nat
          /\ Sending(net.tx, c) \in Nat /\ Waits(net.arp, c) \in Nat /\ One(net.out, c) \in Nat
      BY <1>1, HeldNat
    <3>5. Times(Tail(net.rxq), c) \in Nat /\ One(b, c) \in Nat
      BY <2>1, TimesConcat DEF One
    <3>6. net.count[c] \in Nat /\ net.count[c] <= 1 /\ net.count[c] - Held(net, c) = 0
      BY <1>1 DEF NetInv, Balanced, NetStates, Lent
    <3> QED BY <2>3, <3>1, <3>2, <3>3, <3>4, <3>5, <3>6 DEF Lent
  <2>6. Lent(s, b) = 1 /\ s.count[b] = 1
    <3>1. Lent(s, b) = 1 /\ s.count[b] \in Nat /\ s.count[b] <= 1
      BY <2>1, <2>5 DEF One
    <3>2. Held(s, b) \in Nat
      BY <2>2, HeldNat
    <3> QED BY <3>1, <3>2 DEF Lent
  <2>7. Free(s) # {}
    <3>1. Cardinality(Free(net)) >= 1
      BY DEF Neti, Room
    <3>2. Free(s) = Free(net)
      BY <2>3 DEF Free
    <3> QED BY <3>1, <3>2, FS_EmptySet
  <2>8. NetMoves(s, e, b, 0) \/ NetMoves(CountUp(s, b), e, b, -1)
    BY <2>1, <2>4, <2>6, <2>7, EthInputs
  <2> HIDE DEF e
  <2>9. /\ NetTyped(e) /\ NetQuiet(s, e)
        /\ \A c \in Bufs : Lent(e, c) = One(b, c) /\ e.count[c] <= IF c = b THEN 2 ELSE 1
    <3>1. CASE NetMoves(s, e, b, 0)
      <4>1. NetTyped(e) /\ NetQuiet(s, e)
        BY <3>1 DEF NetMoves
      <4>2. ASSUME NEW c \in Bufs PROVE Lent(e, c) = One(b, c) /\ e.count[c] <= IF c = b THEN 2 ELSE 1
        <5>1. Lent(e, c) = Lent(s, c) + (IF c = b THEN 0 ELSE 0) /\ (e.count[c] <= s.count[c] \/ e.count[c] <= 1)
          BY <3>1 DEF NetMoves
        <5>2. e.count[c] \in Nat /\ One(b, c) \in Nat
          BY <4>1 DEF NetTyped, NetStates, One
        <5> QED BY <2>5, <5>1, <5>2
      <4> QED BY <4>1, <4>2
    <3>2. CASE NetMoves(CountUp(s, b), e, b, -1)
      <4> DEFINE u == CountUp(s, b)
      <4>1. /\ NetTyped(u) /\ NetQuiet(s, u) /\ u.count[b] = s.count[b] + 1
            /\ \A c \in Bufs : c # b => u.count[c] = s.count[c]
            /\ \A c \in Bufs : Lent(u, c) = Lent(s, c) + IF c = b THEN 1 ELSE 0
        BY <2>1, <2>4, CountsUp
      <4> HIDE DEF u
      <4>2. NetTyped(e) /\ NetQuiet(u, e)
        BY <3>2 DEF NetMoves, u
      <4>3. ASSUME NEW c \in Bufs PROVE Lent(e, c) = One(b, c) /\ e.count[c] <= IF c = b THEN 2 ELSE 1
        <5>1. Lent(e, c) = Lent(u, c) + (IF c = b THEN -1 ELSE 0) /\ (e.count[c] <= u.count[c] \/ e.count[c] <= 1)
          BY <3>2 DEF NetMoves, u
        <5>2. e.count[c] \in Nat /\ One(b, c) \in {0, 1} /\ (c = b => One(b, c) = 1)
          BY <4>2 DEF NetTyped, NetStates, One
        <5>3. Lent(u, c) = One(b, c) + IF c = b THEN 1 ELSE 0
          BY <2>5, <4>1
        <5> QED BY <2>5, <2>6, <4>1, <5>1, <5>2, <5>3
      <4>4. NetQuiet(s, e)
        BY <4>1, <4>2 DEF NetQuiet
      <4> QED BY <4>2, <4>3, <4>4
    <3> QED BY <2>8, <3>1, <3>2
  <2>10. e.count[b] \in 1 .. 2
    <3>1. e.count[b] \in Nat /\ Held(e, b) \in Nat /\ Lent(e, b) = 1 /\ e.count[b] <= 2
      BY <2>1, <2>9, HeldNat DEF NetTyped, NetStates, One
    <3> QED BY <3>1 DEF Lent
  <2>11. NetMoves(e, net', b, -1) /\ net'.count[b] = e.count[b] - 1
    <3>1. e.count[b] >= 1
      BY <2>10
    <3> QED BY <2>1, <2>9, <3>1, PbufPuts
  <2>12. NetTyped(net') /\ NetQuiet(net, net')
    BY <2>4, <2>9, <2>11 DEF NetMoves, NetQuiet
  <2>13. ASSUME NEW c \in Bufs PROVE Lent(net', c) = 0 /\ net'.count[c] <= 1
    <3>1. Lent(net', c) = Lent(e, c) + (IF c = b THEN -1 ELSE 0) /\ (net'.count[c] <= e.count[c] \/ net'.count[c] <= 1)
      BY <2>11 DEF NetMoves
    <3>2. Lent(e, c) = IF c = b THEN 1 ELSE 0
      BY <2>9 DEF One
    <3>3. net'.count[c] \in Nat /\ e.count[c] \in Nat /\ (c # b => e.count[c] <= 1)
      BY <2>9, <2>12 DEF NetTyped, NetStates
    <3> QED BY <2>10, <2>11, <3>1, <3>2, <3>3
  <2>14. Rings(net')
    BY <2>12 DEF NetInv, Rings, RingsMade, NetQuiet, LastSent
  <2> QED BY <2>12, <2>13, <2>14 DEF NetInv, Balanced
<1> QED BY <1>2, <1>3

\* 0 is no packet.
LEMMA BufsAreNot0 == ASSUME NEW c \in Bufs PROVE c # 0 /\ One(0, c) = 0 /\ One(c, c) = 1
BY NetAssumption DEF One

\* A descriptor follows another one round the ring.
LEMMA NextDesc ==
  ASSUME NEW i \in TxRing
  PROVE  /\ (i + 1) % TxNr \in TxRing /\ (i + TxNr - 1) % TxNr \in TxRing
         /\ (((i + 1) % TxNr) + TxNr - 1) % TxNr = i
<1> USE DEF TxRing
<1>1. TxNr \in Nat \ {0} /\ i \in Nat /\ i < TxNr
  BY NetAssumption
<1>2. \A x \in Nat : x % TxNr \in TxRing
  BY <1>1
<1>3. \A x \in Nat : x < TxNr => x % TxNr = x
  BY <1>1
<1>4. \A x \in Nat : TxNr <= x /\ x < 2 * TxNr => x % TxNr = x - TxNr
  BY <1>1
<1>5. i + 1 \in Nat /\ i + TxNr - 1 \in Nat
  BY <1>1
<1>6. CASE i + 1 < TxNr
  <2>1. (i + 1) % TxNr = i + 1
    BY <1>3, <1>5, <1>6
  <2> DEFINE y == i + 1 + TxNr - 1
  <2>2. y \in Nat /\ TxNr <= y /\ y < 2 * TxNr /\ y - TxNr = i
    BY <1>1
  <2> HIDE DEF y
  <2>3. y % TxNr = i
    BY <1>4, <2>2
  <2>4. (i + 1 + TxNr - 1) % TxNr = i
    BY <2>3 DEF y
  <2> QED BY <1>2, <1>5, <2>1, <2>4
<1>7. CASE ~ i + 1 < TxNr
  <2>1. i = TxNr - 1 /\ i + 1 = TxNr
    BY <1>1, <1>7
  <2>2. TxNr % TxNr = 0 /\ (0 + TxNr - 1) % TxNr = TxNr - 1
    <3>1. TxNr \in Nat /\ TxNr < 2 * TxNr /\ 0 + TxNr - 1 \in Nat /\ 0 + TxNr - 1 < TxNr
      BY <1>1
    <3>2. TxNr % TxNr = TxNr - TxNr /\ (0 + TxNr - 1) % TxNr = 0 + TxNr - 1
      BY <1>3, <1>4, <3>1
    <3> QED BY <1>1, <3>2
  <2> QED BY <1>2, <1>5, <2>1, <2>2
<1> QED BY <1>6, <1>7

\* neto gives the packet it has to the card, if the descriptor is not in use.
LEMMA PacketSent ==
  ASSUME NEW s, NetInv(s), s.out # 0, s.neto # "block", s.tx[s.cur].done, s.tx[s.cur].buf = 0
  PROVE  NetInv(SendPacket(s, s.out))
<1> DEFINE b == s.out
           d == [buf |-> b, done |-> FALSE]
           tx == [s.tx EXCEPT ![s.cur] = d]
           cur == (s.cur + 1) % TxNr
           u == [s EXCEPT !.tx = tx]
           v == [u EXCEPT !.cur = cur]
           e == [v EXCEPT !.out = 0]
<1>1. s \in NetStates /\ b \in Bufs /\ s.tx \in [TxRing -> NetDescs] /\ s.cur \in TxRing
      /\ s.tdh \in TxRing /\ s.count \in [Bufs -> Nat]
  BY DEF NetInv, NetTyped, NetStates
<1>2. s.count[b] = 1
  <2>1. Held(s, b) \in Nat /\ Held(s, b) >= 1
    <3>1. One(s.out, b) = 1
      BY DEF One
    <3>2. Held(s, b) = Times(s.rx, b) + Times(s.rxq, b) + Times(s.txq, b) + Sending(s.tx, b) + Waits(s.arp, b) + One(s.out, b)
      BY DEF Held
    <3>3. /\ Times(s.rx, b) \in Nat /\ Times(s.rxq, b) \in Nat /\ Times(s.txq, b) \in Nat
          /\ Sending(s.tx, b) \in Nat /\ Waits(s.arp, b) \in Nat
      BY <1>1, HeldNat
    <3> HIDE DEF b
    <3> QED BY <3>1, <3>2, <3>3
  <2>2. s.count[b] - Held(s, b) = 0 /\ s.count[b] \in Nat /\ s.count[b] <= 1
    BY <1>1 DEF NetInv, Balanced, Lent
  <2> QED BY <2>1, <2>2
<1>3. SendPacket(s, b) = e
  <2>1. [[[s EXCEPT !.tx = tx] EXCEPT !.cur = cur] EXCEPT !.out = 0]
          = [s EXCEPT !.tx[s.cur] = d, !.cur = (@ + 1) % TxNr, !.out = 0]
    BY <1>1 DEF NetStates
  <2> QED BY Zenon, <1>2, <2>1 DEF SendPacket
<1>4. d \in NetDescs /\ tx \in [TxRing -> NetDescs] /\ cur \in TxRing /\ 0 \in Bufs \cup {0}
  <2>1. cur \in TxRing
    BY <1>1, NextDesc
  <2>2. d \in NetDescs
    BY <1>1 DEF NetDescs
  <2> HIDE DEF d
  <2> QED BY <1>1, <2>1, <2>2
<1>5. tx[s.cur] = d /\ (\A i \in TxRing : i # s.cur => tx[i] = s.tx[i]) /\ d.buf = b /\ ~ d.done
  BY <1>1
<1> HIDE DEF tx, cur, b
<1>6. e \in NetStates
  <2>1. u \in NetStates
    BY Zenon, <1>1, <1>4, NetWrites
  <2> HIDE DEF u
  <2>2. v \in NetStates
    BY Zenon, <1>4, <2>1, NetWrites
  <2> HIDE DEF v
  <2> QED BY Zenon, <1>4, <2>2, NetWrites
<1>7. /\ e.rx = s.rx /\ e.filled = s.filled /\ e.tx = tx /\ e.cur = cur /\ e.tdh = s.tdh /\ e.icr = s.icr
      /\ e.waiter = s.waiter /\ e.out = 0 /\ e.halt = s.halt /\ e.rxq = s.rxq /\ e.txq = s.txq /\ e.arp = s.arp
      /\ e.neto = s.neto /\ e.count = s.count
  BY <1>1 DEF NetStates
<1> HIDE DEF e
<1>8. ASSUME NEW c \in Bufs PROVE Held(e, c) = Held(s, c)
  <2>1. Sending(tx, c) = Sending(s.tx, c) - One(s.tx[s.cur].buf, c) + One(d.buf, c)
    <3> DEFINE f == s.tx
               i == s.cur
    <3>1. f \in [TxRing -> NetDescs] /\ tx \in [TxRing -> NetDescs] /\ i \in TxRing
      BY <1>1, <1>4
    <3>2. tx[i] = d /\ \A j \in TxRing : j # i => tx[j] = f[j]
      BY <1>5
    <3> HIDE DEF d, f, i
    <3>3. Sending(tx, c) = Sending(f, c) - One(f[i].buf, c) + One(tx[i].buf, c)
      BY <3>1, <3>2, SendingChanges
    <3> QED BY <3>2, <3>3 DEF f, i
  <2>2. One(0, c) = 0 /\ One(b, c) \in Nat
    BY BufsAreNot0 DEF One
  <2>3. Held(e, c) = Times(s.rx, c) + Times(s.rxq, c) + Times(s.txq, c) + Sending(tx, c) + Waits(s.arp, c) + One(0, c)
    BY <1>7 DEF Held
  <2>4. Held(s, c) = Times(s.rx, c) + Times(s.rxq, c) + Times(s.txq, c) + Sending(s.tx, c) + Waits(s.arp, c) + One(b, c)
    BY DEF Held, b
  <2>5. /\ Times(s.rx, c) \in Nat /\ Times(s.rxq, c) \in Nat /\ Times(s.txq, c) \in Nat
        /\ Sending(s.tx, c) \in Nat /\ Waits(s.arp, c) \in Nat
    BY <1>1, HeldNat
  <2>6. Sending(tx, c) = Sending(s.tx, c) + One(b, c)
    BY <1>5, <2>1, <2>2, <2>5
  <2> QED BY <2>2, <2>3, <2>4, <2>5, <2>6
<1>9. Balanced(e)
  BY <1>7, <1>8 DEF NetInv, Balanced, Lent
<1>10. NetTyped(e)
  BY <1>6, <1>7 DEF NetInv, NetTyped
<1>11. Rings(e)
  <2>1. b # 0
    BY <1>1, BufsAreNot0
  <2>2. \A i \in TxRing : ~ tx[i].done => tx[i].buf # 0
    BY <1>5, <2>1 DEF NetInv, Rings, RingsMade
  <2>3. LastSent(s) \in TxRing /\ LastSent(e) = LastSent(s)
    BY <1>1, <1>7, NextDesc DEF LastSent
  <2>4. "tx" \in s.icr => s.tx[LastSent(s)].done /\ s.tx[LastSent(s)].buf # 0 /\ LastSent(s) # s.cur
    BY DEF NetInv, Rings
  <2>5. "tx" \in s.icr => tx[LastSent(s)].done /\ tx[LastSent(s)].buf # 0
    BY <1>5, <2>3, <2>4
  <2> QED BY <1>7, <2>2, <2>3, <2>5 DEF NetInv, Rings, RingsMade
<1> QED BY <1>3, <1>9, <1>10, <1>11 DEF NetInv, b

\* A step of neto: it waits for packets, waits for a descriptor, or sends one.
LEMMA NetoSteps == ASSUME NetInv(net), Neto, "overrun" \notin Lossy PROVE NetInv(net')
<1> DEFINE first == Append(net.txq, 0)[1]
           b == IF net.out # 0 THEN net.out ELSE first
           txq == IF net.out = 0 /\ net.txq # << >> THEN Tail(net.txq) ELSE net.txq
           u == [net EXCEPT !.txq = txq]
           s == [u EXCEPT !.out = b]
           t == [net EXCEPT !.txq = IF net.out = 0 /\ @ # << >> THEN Tail(@) ELSE @, !.out = b]
<1>1. net \in NetStates /\ NetTyped(net) /\ net.txq \in Seq(Bufs) /\ net.out \in Bufs \cup {0} /\ net.neto = "run"
  BY DEF NetInv, NetTyped, NetStates, Neto
<1>2. ~ net.waiter
  BY <1>1 DEF NetInv, Rings, RingsMade, NetStates
<1>3. \/ b = 0 /\ Do([net EXCEPT !.neto = "wait"])
      \/ b # 0 /\ net.tx[net.cur].done /\ net.tx[net.cur].buf = 0 /\ Do(SendPacket(t, b))
      \/ b # 0 /\ Do([t EXCEPT !.waiter = TRUE, !.neto = "block"])
  <2>1. \/ b = 0 /\ Do([net EXCEPT !.neto = "wait"])
        \/ b # 0 /\ net.tx[net.cur].done /\ ("overrun" \in Lossy \/ net.tx[net.cur].buf = 0) /\ Do(SendPacket(t, b))
        \/ b # 0 /\ Do(IF net.waiter THEN Stop(t, "tx_waiter") ELSE [t EXCEPT !.waiter = TRUE, !.neto = "block"])
    BY Zenon DEF Neto, Then
  <2> HIDE DEF b, t
  <2> QED BY Zenon, <1>2, <2>1
<1>4. /\ b \in Bufs \cup {0} /\ txq \in Seq(Bufs)
      /\ net.out = 0 /\ net.txq # << >> => b = Head(net.txq) /\ txq = Tail(net.txq)
      /\ ~ (net.out = 0 /\ net.txq # << >>) => b = net.out /\ txq = net.txq
  <2>1. CASE net.out # 0
    BY <1>1, <2>1
  <2>2. CASE net.out = 0 /\ net.txq = << >>
    <3>1. first = 0
      BY <2>2
    <3> QED BY <1>1, <2>2, <3>1
  <2>3. CASE net.out = 0 /\ net.txq # << >>
    <3>1. Head(net.txq) \in Bufs /\ Tail(net.txq) \in Seq(Bufs) /\ first = Head(net.txq)
      BY <1>1, <2>3
    <3> QED BY <2>3, <3>1
  <2> QED BY <2>1, <2>2, <2>3
<1>5. t = s
  BY <1>1 DEF NetStates
<1> HIDE DEF b, txq, t
<1>6. s \in NetStates
  <2>1. u \in NetStates
    BY Zenon, <1>1, <1>4, NetWrites
  <2> HIDE DEF u
  <2> QED BY Zenon, <1>4, <2>1, NetWrites
<1>7. /\ s.rx = net.rx /\ s.filled = net.filled /\ s.tx = net.tx /\ s.cur = net.cur
      /\ s.tdh = net.tdh /\ s.icr = net.icr /\ s.waiter = net.waiter /\ s.out = b /\ s.halt = net.halt
      /\ s.rxq = net.rxq /\ s.txq = txq /\ s.arp = net.arp /\ s.neto = net.neto /\ s.count = net.count
  BY <1>1 DEF NetStates
<1> HIDE DEF s
<1>8. ASSUME NEW c \in Bufs PROVE Held(s, c) = Held(net, c)
  <2>1. Held(s, c) = Times(net.rx, c) + Times(net.rxq, c) + Times(txq, c) + Sending(net.tx, c)
                     + Waits(net.arp, c) + One(b, c)
    BY <1>7 DEF Held
  <2>2. Held(net, c) = Times(net.rx, c) + Times(net.rxq, c) + Times(net.txq, c) + Sending(net.tx, c)
                       + Waits(net.arp, c) + One(net.out, c)
    BY DEF Held
  <2>3. /\ Times(net.rx, c) \in Nat /\ Times(net.rxq, c) \in Nat /\ Times(net.txq, c) \in Nat
        /\ Sending(net.tx, c) \in Nat /\ Waits(net.arp, c) \in Nat
    BY <1>1, HeldNat
  <2>4. One(b, c) \in Nat /\ Times(txq, c) \in Nat
    BY <1>4, TimesConcat DEF One
  <2>5. CASE net.out = 0 /\ net.txq # << >>
    <3>1. Times(net.txq, c) = One(Head(net.txq), c) + Times(Tail(net.txq), c)
      BY <1>1, <2>5, TimesHead
    <3>2. Times(net.txq, c) = One(b, c) + Times(txq, c) /\ One(net.out, c) = 0
      BY <1>4, <2>5, <3>1, BufsAreNot0
    <3> QED BY <2>1, <2>2, <2>3, <2>4, <3>2
  <2>6. CASE ~ (net.out = 0 /\ net.txq # << >>)
    <3>1. b = net.out /\ txq = net.txq
      BY <1>4, <2>6
    <3> QED BY <2>1, <2>2, <3>1
  <2> QED BY <2>5, <2>6
<1>9. NetInv(s)
  <2>1. NetTyped(s) /\ Balanced(s)
    BY <1>1, <1>6, <1>7, <1>8 DEF NetInv, NetTyped, Balanced, Lent
  <2>2. Rings(s)
    BY <1>7 DEF NetInv, Rings, RingsMade, LastSent
  <2> QED BY <2>1, <2>2 DEF NetInv
<1>10. CASE Do([net EXCEPT !.neto = "wait"])
  <2> DEFINE e == [net EXCEPT !.neto = "wait"]
  <2>1. "wait" \in {"run", "wait", "block"}
    OBVIOUS
  <2>2. e \in NetStates
    BY Zenon, <1>1, <2>1, NetWrites
  <2>3. /\ e.traffic = net.traffic /\ e.rx = net.rx /\ e.filled = net.filled /\ e.tx = net.tx /\ e.cur = net.cur
        /\ e.tdh = net.tdh /\ e.icr = net.icr /\ e.waiter = net.waiter /\ e.out = net.out /\ e.halt = net.halt
        /\ e.rxq = net.rxq /\ e.txq = net.txq /\ e.arp = net.arp /\ e.count = net.count
    BY <1>1 DEF NetStates
  <2>4. net' = e
    BY <1>10, DoIs
  <2> HIDE DEF e
  <2>5. NetTyped(e) /\ NetQuiet(net, e) /\ \A c \in Bufs : Held(e, c) = Held(net, c)
    BY <1>1, <2>2, <2>3 DEF NetTyped, NetQuiet, Held
  <2>6. NetMoves(net, e, 0, 0)
    BY <1>1, <2>3, <2>5, MovesNone
  <2>7. NetInv(e)
    BY <2>6, MovesKeep
  <2> QED BY <2>4, <2>7
<1>11. CASE b # 0 /\ net.tx[net.cur].done /\ net.tx[net.cur].buf = 0 /\ Do(SendPacket(t, b))
  <2>1. net' = SendPacket(s, s.out)
    <3>1. net' = SendPacket(t, b)
      BY <1>11, DoIs
    <3> QED BY <1>5, <1>7, <3>1
  <2>2. s.out # 0 /\ s.neto # "block" /\ s.tx[s.cur].done /\ s.tx[s.cur].buf = 0
    BY <1>1, <1>7, <1>11
  <2>3. NetInv(SendPacket(s, s.out))
    BY <1>9, <2>2, PacketSent
  <2> QED BY <2>1, <2>3
<1>12. CASE b # 0 /\ Do([t EXCEPT !.waiter = TRUE, !.neto = "block"])
  <2> DEFINE v == [s EXCEPT !.waiter = TRUE]
             e == [v EXCEPT !.neto = "block"]
  <2>1. net' = e
    <3>1. net' = [t EXCEPT !.waiter = TRUE, !.neto = "block"]
      BY <1>12, DoIs
    <3>2. e = [s EXCEPT !.waiter = TRUE, !.neto = "block"]
      BY <1>6 DEF NetStates
    <3> QED BY Zenon, <1>5, <3>1, <3>2
  <2>2. e \in NetStates
    <3>1. TRUE \in BOOLEAN /\ "block" \in {"run", "wait", "block"}
      OBVIOUS
    <3>2. v \in NetStates
      BY Zenon, <1>6, <3>1, NetWrites
    <3> HIDE DEF v
    <3> QED BY Zenon, <3>1, <3>2, NetWrites
  <2>3. /\ e.rx = s.rx /\ e.filled = s.filled /\ e.tx = s.tx /\ e.cur = s.cur
        /\ e.tdh = s.tdh /\ e.icr = s.icr /\ e.out = s.out /\ e.halt = s.halt
        /\ e.rxq = s.rxq /\ e.txq = s.txq /\ e.arp = s.arp /\ e.count = s.count /\ e.neto = "block"
    BY <1>6 DEF NetStates
  <2> HIDE DEF e
  <2>4. NetTyped(e) /\ Balanced(e)
    BY <1>9, <2>2, <2>3 DEF NetInv, NetTyped, Balanced, Lent, Held
  <2>5. Rings(e)
    BY <1>9, <2>3 DEF NetInv, Rings, RingsMade, LastSent
  <2> QED BY <2>1, <2>4, <2>5 DEF NetInv
<1> QED BY <1>3, <1>10, <1>11, <1>12

\* A list in which nothing is counted twice has everything once.
LEMMA OnceIsInjective ==
  ASSUME NEW S, NEW q \in Seq(S), \A b \in S : Times(q, b) <= 1
  PROVE  IsInjective(q)
<1> SUFFICES ASSUME NEW i \in DOMAIN q, NEW j \in DOMAIN q, q[i] = q[j], i # j PROVE FALSE
  BY DEF IsInjective
<1> DEFINE b == q[i]
           A == {k \in DOMAIN q : q[k] = b}
<1>1. b \in S /\ i \in A /\ j \in A
  OBVIOUS
<1>2. IsFiniteSet(A)
  <2>1. Len(q) \in Nat /\ DOMAIN q = 1 .. Len(q)
    OBVIOUS
  <2>2. IsFiniteSet(1 .. Len(q))
    BY <2>1, FS_Interval
  <2> QED BY <2>1, <2>2, FS_Subset
<1>3. Cardinality(A) = Times(q, b)
  BY DEF Times
<1>4. Cardinality(A) \in Nat /\ Cardinality(A) <= 1
  BY <1>1, <1>2, <1>3, FS_CardinalityType
<1> HIDE DEF A, b
<1>5. A = {} \/ \E x : A = {x}
  BY <1>2, <1>4, FS_EmptySet, FS_Singleton
<1> QED BY <1>1, <1>5

\* What waited for a host is given up.
LEMMA ArpGivesUp ==
  ASSUME NEW s, NetInv(s), NEW h \in Near
  PROVE  NetInv(ArpEntryPut(s, h))
<1> DEFINE q == s.arp[h].queue
           count == [b \in Bufs |-> IF b \in Range(q) THEN 0 ELSE s.count[b]]
           msg == [b \in Bufs |-> IF b \in Range(q) THEN Empty ELSE s.msg[b]]
           u == [s EXCEPT !.count = count]
           v == [u EXCEPT !.msg = msg]
           e == [v EXCEPT !.arp[h] = NoEntry]
<1>1. s \in NetStates /\ NetTyped(s) /\ q \in Seq(Bufs) /\ s.count \in [Bufs -> Nat] /\ s.msg \in [Bufs -> NetMsgs]
  BY DEF NetInv, NetTyped, NetStates, NetEntries
<1>2. ASSUME NEW b \in Bufs
      PROVE  /\ Times(q, b) \in Nat /\ Times(q, b) <= Held(s, b) /\ Held(s, b) \in Nat
             /\ s.count[b] = Held(s, b) /\ s.count[b] \in Nat /\ s.count[b] <= 1
             /\ b \in Range(q) <=> Times(q, b) > 0
  <2>1. Times(q, b) \in Nat /\ Times(q, b) <= Waits(s.arp, b)
    <3> DEFINE arp == s.arp
    <3>1. \A k \in Near : arp[k].queue \in Seq(Bufs)
      BY <1>1 DEF NetStates, NetEntries
    <3> HIDE DEF arp
    <3>2. Times(arp[h].queue, b) <= Waits(arp, b)
      BY <3>1, WaitsChanges
    <3> QED BY <1>1, <3>2, TimesConcat DEF arp
  <2>2. Held(s, b) = Times(s.rx, b) + Times(s.rxq, b) + Times(s.txq, b) + Sending(s.tx, b) + Waits(s.arp, b) + One(s.out, b)
    BY DEF Held
  <2>3. /\ Times(s.rx, b) \in Nat /\ Times(s.rxq, b) \in Nat /\ Times(s.txq, b) \in Nat
        /\ Sending(s.tx, b) \in Nat /\ Waits(s.arp, b) \in Nat /\ One(s.out, b) \in Nat
    BY <1>1, HeldNat
  <2>4. s.count[b] \in Nat /\ s.count[b] <= 1 /\ s.count[b] - Held(s, b) = 0
    BY <1>1 DEF NetInv, Balanced, Lent
  <2>5. b \in Range(q) <=> Times(q, b) > 0
    BY <1>1, TimesRange
  <2> HIDE DEF q
  <2> QED BY <2>1, <2>2, <2>3, <2>4, <2>5
<1>3. IsInjective(q)
  <2>1. \A b \in Bufs : Times(q, b) <= 1
    <3> HIDE DEF q
    <3> QED BY <1>2
  <2> QED BY <1>1, <2>1, OnceIsInjective
<1>4. \A b \in Range(q) : s.count[b] = 1
  <2>1. \A b \in Range(q) : b \in Bufs
    BY <1>1 DEF Range
  <2> HIDE DEF q
  <2> QED BY <1>2, <2>1
<1>5. ArpEntryPut(s, h) = e
  <2>1. e = [s EXCEPT !.count = [b \in Bufs |-> IF b \in Range(q) THEN 0 ELSE @[b]],
                      !.msg   = [b \in Bufs |-> IF b \in Range(q) THEN Empty ELSE @[b]],
                      !.arp[h] = NoEntry]
    <3> HIDE DEF q
    <3> QED BY <1>1 DEF NetStates
  <2> HIDE DEF e
  <2> QED BY Zenon, <1>3, <1>4, <2>1 DEF ArpEntryPut
<1>6. count \in [Bufs -> Nat] /\ msg \in [Bufs -> NetMsgs]
  <2>1. Empty \in NetMsgs
    <3>1. "none" \in NetKinds
      BY DEF NetKinds
    <3> QED BY Zenon, <3>1, MsgTyped DEF Empty
  <2> HIDE DEF q
  <2> QED BY <1>1, <2>1
<1>7. \A b \in Bufs : count[b] = IF b \in Range(q) THEN 0 ELSE s.count[b]
  OBVIOUS
<1> HIDE DEF count, msg
<1>8. v \in NetStates
  <2>1. u \in NetStates
    BY Zenon, <1>1, <1>6, NetWrites
  <2> HIDE DEF u
  <2> QED BY Zenon, <1>6, <2>1, NetWrites
<1>9. /\ v.traffic = s.traffic /\ v.rx = s.rx /\ v.filled = s.filled /\ v.tx = s.tx /\ v.cur = s.cur
      /\ v.tdh = s.tdh /\ v.icr = s.icr /\ v.waiter = s.waiter /\ v.out = s.out /\ v.halt = s.halt
      /\ v.rxq = s.rxq /\ v.txq = s.txq /\ v.arp = s.arp /\ v.neto = s.neto /\ v.count = count
  BY <1>1 DEF NetStates
<1> HIDE DEF v
<1>10. NetTyped(v) /\ NetQuiet(s, v) /\ \A c \in Bufs : Held(v, c) = Held(s, c)
  BY <1>1, <1>8, <1>9 DEF NetTyped, NetQuiet, Held
<1>11. /\ NetTyped(e) /\ NetQuiet(v, e) /\ e.count = v.count
       /\ \A c \in Bufs : Held(e, c) = Held(v, c) - Times(v.arp[h].queue, c) + Times(NoEntry.queue, c)
  <2>1. NoEntry \in NetEntries /\ (~ NoEntry.there => NoEntry.queue = << >>)
    BY NoEntryTyped
  <2>2. NetTyped(v)
    BY <1>10
  <2> DEFINE x == NoEntry
  <2>3. x \in NetEntries /\ (~ x.there => x.queue = << >>)
    BY <2>1
  <2> HIDE DEF x
  <2>4. LET w == [v EXCEPT !.arp[h] = x]
        IN /\ NetTyped(w) /\ NetQuiet(v, w) /\ w.count = v.count
           /\ \A c \in Bufs : Held(w, c) = Held(v, c) - Times(v.arp[h].queue, c) + Times(x.queue, c)
    BY <2>2, <2>3, ArpWrites
  <2> QED BY Zenon, <2>4 DEF x
<1> HIDE DEF e
<1>12. ASSUME NEW c \in Bufs PROVE Lent(e, c) = 0 /\ e.count[c] <= 1
  <2>1. Times(NoEntry.queue, c) = 0
    BY NoEntryTyped, TimesOf
  <2>2. Held(e, c) = Held(s, c) - Times(q, c)
    <3>1. v.arp[h].queue = q /\ Held(v, c) = Held(s, c)
      BY <1>9, <1>10
    <3>2. Held(e, c) = Held(v, c) - Times(v.arp[h].queue, c) + Times(NoEntry.queue, c)
      BY <1>11
    <3> HIDE DEF q
    <3> QED BY <1>2, <2>1, <3>1, <3>2
  <2>3. e.count[c] = IF c \in Range(q) THEN 0 ELSE s.count[c]
    BY <1>7, <1>9, <1>11
  <2> HIDE DEF q
  <2> QED BY <1>2, <2>2, <2>3 DEF Lent
<1>13. Rings(e)
  <2>1. NetQuiet(s, e)
    BY <1>10, <1>11 DEF NetQuiet
  <2> QED BY <2>1 DEF NetInv, Rings, RingsMade, NetQuiet, LastSent
<1> QED BY <1>5, <1>11, <1>12, <1>13 DEF NetInv, Balanced

\* A round of the ARP thread, for one entry.
LEMMA ArpSteps == ASSUME NetInv(net), NEW h \in Near, ArpThread(h) PROVE NetInv(net')
<1>1. net' = ArpRefreshEntry(net, h) /\ NetTyped(net)
  <2>1. Do(ArpRefreshEntry(net, h))
    BY DEF ArpThread
  <2> QED BY <2>1, DoIs DEF NetInv
<1>2. Free(net) # {}
  <2>1. Cardinality(Free(net)) >= 1
    BY DEF ArpThread, Room
  <2> QED BY <2>1, FS_EmptySet
<1>3. \/ net' = net
      \/ net' = ArpEntryPut(net, h)
      \/ net.arp[h].there /\ net' = ArpQuery(net, h)
  BY <1>1 DEF ArpRefreshEntry
<1>4. CASE net.arp[h].there /\ net' = ArpQuery(net, h)
  <2>1. NetMoves(net, ArpQuery(net, h), 0, 0)
    BY <1>1, <1>2, <1>4, ArpQueries
  <2> QED BY <1>4, <2>1, MovesKeep
<1> QED BY <1>3, <1>4, ArpGivesUp

\* The card sends what is in its next descriptor.
LEMMA TransmitSteps == ASSUME NetInv(net), Transmit PROVE NetInv(net')
<1> DEFINE i == net.tdh
           d == [net.tx[i] EXCEPT !.done = TRUE]
           tx == [net.tx EXCEPT ![i] = d]
           tdh == (i + 1) % TxNr
           icr == net.icr \cup {"tx"}
           u == [net EXCEPT !.tx = tx]
           v == [u EXCEPT !.tdh = tdh]
           e == [v EXCEPT !.icr = icr]
<1>1. /\ net \in NetStates /\ NetTyped(net) /\ net.tx \in [TxRing -> NetDescs] /\ i \in TxRing
      /\ net.icr \in SUBSET {"tx", "rx"} /\ ~ net.tx[i].done
  BY DEF NetInv, NetTyped, NetStates, Transmit
<1>2. net' = e
  <2>1. Do([net EXCEPT !.tx[net.tdh].done = TRUE, !.tdh = (@ + 1) % TxNr, !.icr = @ \cup {"tx"}])
    BY DEF Transmit
  <2>2. e = [net EXCEPT !.tx[net.tdh].done = TRUE, !.tdh = (@ + 1) % TxNr, !.icr = @ \cup {"tx"}]
    BY <1>1 DEF NetStates
  <2> HIDE DEF e
  <2> QED BY <2>1, <2>2, DoIs
<1>3. d \in NetDescs /\ d.done /\ d.buf = net.tx[i].buf
  BY <1>1 DEF NetDescs
<1>4. tx \in [TxRing -> NetDescs] /\ tdh \in TxRing /\ icr \in SUBSET {"tx", "rx"}
  <2> HIDE DEF d
  <2>1. tx \in [TxRing -> NetDescs]
    BY <1>1, <1>3
  <2>2. tdh \in TxRing
    BY <1>1, NextDesc
  <2> QED BY <1>1, <2>1, <2>2
<1>5. tx[i] = d /\ (\A j \in TxRing : j # i => tx[j] = net.tx[j])
  BY <1>1
<1>6. e \in NetStates
  <2> HIDE DEF tx, tdh, icr
  <2>1. u \in NetStates
    BY Zenon, <1>1, <1>4, NetWrites
  <2> HIDE DEF u
  <2>2. v \in NetStates
    BY Zenon, <1>4, <2>1, NetWrites
  <2> HIDE DEF v
  <2> QED BY Zenon, <1>4, <2>2, NetWrites
<1> HIDE DEF d, tx, icr
<1>7. /\ e.rx = net.rx /\ e.filled = net.filled /\ e.tx = tx /\ e.cur = net.cur /\ e.tdh = tdh /\ e.icr = icr
      /\ e.waiter = net.waiter /\ e.out = net.out /\ e.halt = net.halt /\ e.rxq = net.rxq /\ e.txq = net.txq
      /\ e.arp = net.arp /\ e.neto = net.neto /\ e.count = net.count
  BY <1>1 DEF NetStates
<1> HIDE DEF e
<1>8. ASSUME NEW c \in Bufs PROVE Held(e, c) = Held(net, c)
  <2>1. Sending(tx, c) = Sending(net.tx, c)
    <3> DEFINE f == net.tx
    <3>1. f \in [TxRing -> NetDescs] /\ \A j \in TxRing : j # i => tx[j] = f[j]
      BY <1>1, <1>5
    <3>2. tx[i].buf = f[i].buf /\ i \in TxRing
      BY <1>1, <1>3, <1>5
    <3> HIDE DEF f, i
    <3>3. Sending(tx, c) = Sending(f, c) - One(f[i].buf, c) + One(tx[i].buf, c) /\ Sending(f, c) \in Nat
      BY <1>4, <3>1, <3>2, SendingChanges
    <3>4. One(f[i].buf, c) \in Nat
      BY DEF One
    <3>5. Sending(tx, c) = Sending(f, c)
      BY <3>2, <3>3, <3>4
    <3> QED BY <3>5 DEF f
  <2> QED BY <1>7, <2>1 DEF Held
<1>9. NetTyped(e) /\ Balanced(e)
  BY <1>1, <1>6, <1>7, <1>8 DEF NetInv, NetTyped, Balanced, Lent
<1>10. Rings(e)
  <2>1. LastSent(e) = i
    BY <1>1, <1>7, NextDesc DEF LastSent
  <2>2. net.tx[i].buf # 0
    BY <1>1 DEF NetInv, Rings, RingsMade
  <2>3. tx[i].done /\ tx[i].buf # 0
    BY <1>3, <1>5, <2>2
  <2>4. \A j \in TxRing : ~ tx[j].done => tx[j].buf # 0
    BY <1>5, <2>3 DEF NetInv, Rings, RingsMade
  <2> HIDE DEF i
  <2> QED BY <1>7, <2>1, <2>3, <2>4 DEF NetInv, Rings, RingsMade
<1> QED BY <1>2, <1>9, <1>10 DEF NetInv

\* The card fills its next receive buffer.
LEMMA ReceiveSteps ==
  ASSUME NetInv(net), NEW k \in UNION Traffic, NEW h \in Near \cup Far, Receive(Packet(k, h))
  PROVE  NetInv(net')
<1> DEFINE b == net.rx[net.filled + 1]
           msg == [net.msg EXCEPT ![b] = Packet(k, h)]
           n == net.filled + 1
           icr == net.icr \cup {"rx"}
           u == [net EXCEPT !.msg = msg]
           v == [u EXCEPT !.filled = n]
           e == [v EXCEPT !.icr = icr]
<1>1. /\ net \in NetStates /\ NetTyped(net) /\ net.msg \in [Bufs -> NetMsgs]
      /\ net.icr \in SUBSET {"tx", "rx"} /\ net.filled \in Nat /\ net.filled < RxNr - 1
  BY DEF NetInv, NetTyped, NetStates, Receive
<1>2. net' = e
  <2>1. Do([net EXCEPT !.msg[net.rx[net.filled + 1]] = Packet(k, h), !.filled = @ + 1, !.icr = @ \cup {"rx"}])
    BY DEF Receive
  <2>2. e = [net EXCEPT !.msg[net.rx[net.filled + 1]] = Packet(k, h), !.filled = @ + 1, !.icr = @ \cup {"rx"}]
    BY <1>1 DEF NetStates
  <2> HIDE DEF e
  <2> QED BY <2>1, <2>2, DoIs
<1>3. msg \in [Bufs -> NetMsgs] /\ n \in Nat /\ n < RxNr /\ icr \in SUBSET {"tx", "rx"}
  <2>1. Packet(k, h) \in NetMsgs
    <3>1. k \in NetKinds /\ h \in Near \cup Far \cup {0}
      BY DEF NetKinds
    <3> QED BY Zenon, <3>1, MsgTyped
  <2>2. msg \in [Bufs -> NetMsgs]
    BY <1>1, <2>1
  <2> QED BY <1>1, <2>2, NetAssumption
<1> HIDE DEF msg, n, icr
<1>4. e \in NetStates
  <2>1. u \in NetStates
    BY Zenon, <1>1, <1>3, NetWrites
  <2> HIDE DEF u
  <2>2. v \in NetStates
    BY Zenon, <1>3, <2>1, NetWrites
  <2> HIDE DEF v
  <2> QED BY Zenon, <1>3, <2>2, NetWrites
<1>5. /\ e.rx = net.rx /\ e.filled = n /\ e.tx = net.tx /\ e.cur = net.cur /\ e.tdh = net.tdh /\ e.icr = icr
      /\ e.waiter = net.waiter /\ e.out = net.out /\ e.halt = net.halt /\ e.rxq = net.rxq /\ e.txq = net.txq
      /\ e.arp = net.arp /\ e.neto = net.neto /\ e.count = net.count
  BY <1>1 DEF NetStates
<1> HIDE DEF e
<1>6. NetTyped(e) /\ Balanced(e)
  BY <1>1, <1>4, <1>5 DEF NetInv, NetTyped, Balanced, Lent, Held
<1>7. Rings(e)
  <2>1. "tx" \in icr <=> "tx" \in net.icr
    BY DEF icr
  <2> QED BY <1>3, <1>5, <2>1 DEF NetInv, Rings, RingsMade, LastSent
<1> QED BY <1>2, <1>6, <1>7 DEF NetInv

\* A tick leaves the queues alone.
LEMMA TickSteps == ASSUME NetInv(net), Tick PROVE NetInv(net')
<1> DEFINE Older(h) == [net.arp[h] EXCEPT !.life = IF @ > 0 THEN @ - 1 ELSE 0,
                                          !.age = IF @ \in 0 .. Delay - 1 THEN @ + 1 ELSE @]
           arp == [h \in Near |-> IF ~ net.arp[h].there THEN NoEntry ELSE Older(h)]
           e == [net EXCEPT !.arp = arp]
<1>1. net \in NetStates /\ NetTyped(net) /\ net.arp \in [Near -> NetEntries]
  BY DEF NetInv, NetTyped, NetStates
<1>2. net' = e
  <2>1. Do(e)
    BY Zenon DEF Tick
  <2> QED BY Zenon, <2>1, DoIs
<1>3. ASSUME NEW h \in Near
      PROVE  /\ arp[h] \in NetEntries /\ arp[h].queue = net.arp[h].queue
             /\ ~ arp[h].there => arp[h].queue = << >>
  <2>1. CASE ~ net.arp[h].there
    <3>1. arp[h] = NoEntry /\ net.arp[h].queue = << >>
      BY <1>1, <2>1 DEF NetTyped
    <3> HIDE DEF arp
    <3> QED BY <3>1, NoEntryTyped
  <2>2. CASE net.arp[h].there
    <3> DEFINE x == net.arp[h]
               life == IF x.life > 0 THEN x.life - 1 ELSE 0
               age == IF x.age \in 0 .. Delay - 1 THEN x.age + 1 ELSE x.age
               y == [x EXCEPT !.life = life]
               z == [y EXCEPT !.age = age]
    <3>1. x \in NetEntries /\ x.there
      BY <1>1, <2>2
    <3>2. arp[h] = z
      BY <1>1, <2>2, <3>1 DEF NetEntries
    <3> HIDE DEF x, arp
    <3>3. life \in Int /\ age \in Int
      BY <3>1 DEF NetEntries
    <3> HIDE DEF life, age
    <3>4. y \in NetEntries /\ y.there /\ y.queue = x.queue
      BY <3>1, <3>3, EntryWrites DEF NetEntries
    <3> HIDE DEF y
    <3>5. z \in NetEntries /\ z.there /\ z.queue = x.queue
      BY <3>3, <3>4, EntryWrites DEF NetEntries
    <3> HIDE DEF z
    <3> QED BY <3>2, <3>5 DEF x
  <2> QED BY <2>1, <2>2
<1>4. arp \in [Near -> NetEntries]
  <2>1. DOMAIN arp = Near /\ arp = [h \in Near |-> arp[h]]
    OBVIOUS
  <2> HIDE DEF arp
  <2> QED BY <1>3, <2>1
<1> HIDE DEF arp
<1>5. e \in NetStates
  BY Zenon, <1>1, <1>4, NetWrites
<1>6. /\ e.traffic = net.traffic /\ e.rx = net.rx /\ e.filled = net.filled /\ e.tx = net.tx /\ e.cur = net.cur
      /\ e.tdh = net.tdh /\ e.icr = net.icr /\ e.waiter = net.waiter /\ e.out = net.out /\ e.halt = net.halt
      /\ e.rxq = net.rxq /\ e.txq = net.txq /\ e.arp = arp /\ e.neto = net.neto /\ e.count = net.count
  BY <1>1 DEF NetStates
<1> HIDE DEF e
<1>7. ASSUME NEW c \in Bufs PROVE Held(e, c) = Held(net, c)
  <2>1. Waits(arp, c) = Waits(net.arp, c)
    <3> DEFINE Part(a, h) == {h} \X {i \in DOMAIN a[h].queue : a[h].queue[i] = c}
               old == net.arp
    <3>1. \A h \in Near : Part(arp, h) = Part(old, h)
      BY <1>3
    <3>2. Waits(arp, c) = Cardinality(UNION {Part(arp, h) : h \in Near})
      BY Zenon DEF Waits
    <3>3. Waits(old, c) = Cardinality(UNION {Part(old, h) : h \in Near})
      BY Zenon DEF Waits
    <3> HIDE DEF Part, old
    <3>4. {Part(arp, h) : h \in Near} = {Part(old, h) : h \in Near}
      BY <3>1
    <3>5. Waits(arp, c) = Waits(old, c)
      BY Zenon, <3>2, <3>3, <3>4
    <3> QED BY <3>5 DEF old
  <2> QED BY <1>6, <2>1 DEF Held
<1>8. NetTyped(e) /\ NetQuiet(net, e)
  BY <1>3, <1>5, <1>6 DEF NetTyped, NetQuiet
<1>9. NetMoves(net, e, 0, 0)
  BY <1>1, <1>6, <1>7, <1>8, MovesNone
<1> QED BY <1>2, <1>9, MovesKeep

\* An echo that sys_test sends takes a packet that is free.
LEMMA PingSteps ==
  ASSUME NetInv(net), NEW h \in Near \cup Far, Ping(h)
  PROVE  NetInv(net')
<1> DEFINE g == PbufGet(net)
           b == g.b
           u == g.s
           msg == [u.msg EXCEPT ![b] = Packet("ping", h)]
           v == [u EXCEPT !.msg = msg]
           e == ArpEthOutput(v, b, h)
<1>1. net \in NetStates /\ NetTyped(net) /\ \E c \in Free(net) : c # b
  <2>1. Cardinality(Free(net)) >= 3
    BY DEF Ping, Room
  <2>2. ~ Free(net) \subseteq {b}
    <3> HIDE DEF b
    <3>1. Cardinality({}) = 0 /\ Cardinality({b}) = 1
      BY FS_EmptySet, FS_Singleton
    <3>2. \A A \in SUBSET {b} : A = {} \/ A = {b}
      OBVIOUS
    <3> QED BY <2>1, <3>1, <3>2
  <2> QED BY <2>2 DEF NetInv, NetTyped
<1>2. b \in Bufs /\ NetMoves(net, u, b, 1) /\ u = [net EXCEPT !.count[b] = 1]
  BY <1>1, FreeTaken, PbufGets
<1>3. NetTyped(u) /\ u \in NetStates /\ u.msg \in [Bufs -> NetMsgs]
  BY <1>2 DEF NetMoves, NetTyped, NetStates
<1>4. \E c \in Bufs : u.count[c] = 0
  <2>1. PICK c \in Bufs : c # b /\ net.count[c] = 0
    BY <1>1 DEF Free
  <2>2. u.count[c] = 0
    BY <1>1, <1>2, <2>1 DEF NetStates
  <2> QED BY <2>2
<1>5. net' = e
  <2>1. Do(IcmpEcho(net, h))
    BY DEF Ping
  <2>2. IcmpEcho(net, h) = ArpEthOutput([u EXCEPT !.msg[b] = Packet("ping", h)], b, h)
    BY Zenon DEF IcmpEcho, IpOutput, Then
  <2>3. v = [u EXCEPT !.msg[b] = Packet("ping", h)]
    <3> HIDE DEF u, b
    <3> QED BY <1>3 DEF NetStates
  <2> HIDE DEF u, b, v
  <2> QED BY <2>1, <2>2, <2>3, DoIs
<1> HIDE DEF u, b, g
<1>6. msg \in [Bufs -> NetMsgs]
  <2>1. "ping" \in NetKinds /\ h \in Near \cup Far \cup {0}
    BY DEF NetKinds
  <2>2. Packet("ping", h) \in NetMsgs
    BY Zenon, <2>1, MsgTyped
  <2> QED BY <1>3, <2>2
<1> HIDE DEF msg
<1>7. v \in NetStates
  BY Zenon, <1>3, <1>6, NetWrites
<1>8. /\ v.traffic = u.traffic /\ v.rx = u.rx /\ v.filled = u.filled /\ v.tx = u.tx /\ v.cur = u.cur
      /\ v.tdh = u.tdh /\ v.icr = u.icr /\ v.waiter = u.waiter /\ v.out = u.out /\ v.halt = u.halt
      /\ v.rxq = u.rxq /\ v.txq = u.txq /\ v.arp = u.arp /\ v.neto = u.neto /\ v.count = u.count
  BY <1>3 DEF NetStates
<1> HIDE DEF v
<1>9. NetTyped(v) /\ NetQuiet(u, v) /\ \A c \in Bufs : Held(v, c) = Held(u, c)
  BY <1>3, <1>7, <1>8 DEF NetTyped, NetQuiet, Held
<1>10. NetMoves(u, v, b, 0)
  BY <1>3, <1>8, <1>9, MovesNone
<1>11. NetMoves(v, e, b, -1)
  <2>1. Free(v) # {}
    BY <1>4, <1>8 DEF Free
  <2> QED BY <1>2, <1>9, <2>1, ArpEthOutputs
<1> HIDE DEF e
<1>12. NetMoves(net, v, b, 1 + 0)
  BY <1>1, <1>2, <1>10, MovesTwice
<1>13. NetMoves(net, e, b, (1 + 0) + -1)
  BY <1>1, <1>11, <1>12, MovesTwice
<1> QED BY <1>5, <1>13, MovesKeep

\* As many packets as there are can be taken at once.
LEMMA PbufsTaken ==
  ASSUME NEW s, NetTyped(s), NEW n \in Nat, n <= Cardinality(Free(s))
  PROVE  LET g == PbufsGet(s, n)
         IN /\ g.q \in Seq(Bufs) /\ Len(g.q) = n /\ IsInjective(g.q)
            /\ \A b \in Range(g.q) : b \in Bufs /\ s.count[b] = 0
            /\ g.s = [s EXCEPT !.count = [b \in Bufs |-> IF b \in Range(g.q) THEN 1 ELSE s.count[b]]]
<1> DEFINE F == Free(s)
           m == Cardinality(F)
           q == CHOOSE q \in [1 .. n -> F] : IsInjective(q)
<1>1. IsFiniteSet(F) /\ F \subseteq Bufs /\ \A b \in F : s.count[b] = 0
  <2>1. IsFiniteSet(Bufs)
    BY NetAssumption
  <2> QED BY <2>1, FS_Subset DEF Free
<1>2. \E r \in [1 .. n -> F] : IsInjective(r)
  <2> HIDE DEF F
  <2>1. m \in Nat /\ n <= m /\ ExistsBijection(1 .. m, F)
    BY <1>1, FS_CardinalityType DEF F
  <2>2. PICK f \in Bijection(1 .. m, F) : TRUE
    BY <2>1 DEF ExistsBijection
  <2>3. f \in [1 .. m -> F] /\ \A i, j \in 1 .. m : f[i] = f[j] => i = j
    <3> DEFINE S == 1 .. m
    <3>1. f \in Bijection(S, F)
      OBVIOUS
    <3> HIDE DEF S
    <3>2. f \in [S -> F] /\ \A i, j \in S : f[i] = f[j] => i = j
      BY <3>1, Fun_BijectionProperties
    <3> QED BY <3>2 DEF S
  <2> DEFINE r == [i \in 1 .. n |-> f[i]]
  <2>4. \A i \in 1 .. n : i \in 1 .. m
    BY <2>1
  <2>5. r \in [1 .. n -> F] /\ IsInjective(r)
    BY <2>3, <2>4 DEF IsInjective
  <2> QED BY <2>5
<1>3. q \in [1 .. n -> F] /\ IsInjective(q)
  BY Zenon, <1>2
<1>4. PbufsGet(s, n).q = q /\ PbufsGet(s, n).s = [s EXCEPT !.count = [b \in Bufs |-> IF b \in Range(q) THEN 1 ELSE s.count[b]]]
  <2>1. PbufsGet(s, n) = [s |-> [s EXCEPT !.count = [b \in Bufs |-> IF b \in Range(q) THEN 1 ELSE @[b]]], q |-> q]
    BY Zenon DEF PbufsGet
  <2> HIDE DEF q
  <2> QED BY <2>1 DEF NetTyped, NetStates
<1> HIDE DEF q, F
<1>5. q \in Seq(Bufs) /\ Len(q) = n
  BY <1>1, <1>3
<1>6. \A b \in Range(q) : b \in F
  BY <1>3 DEF Range
<1> QED BY <1>1, <1>3, <1>4, <1>5, <1>6

\* Packets are put into the queue of neti.
LEMMA NetInputs ==
  ASSUME NEW s, NetTyped(s), NEW q \in Seq(Bufs)
  PROVE  LET e == NetifInput(s, q)
         IN /\ e \in NetStates /\ e.rxq = s.rxq \o q
            /\ e.rx = s.rx /\ e.filled = s.filled /\ e.tx = s.tx /\ e.cur = s.cur
            /\ e.tdh = s.tdh /\ e.waiter = s.waiter /\ e.out = s.out /\ e.halt = s.halt
            /\ e.txq = s.txq /\ e.arp = s.arp /\ e.neto = s.neto /\ e.count = s.count
<1> DEFINE e == NetifInput(s, q)
           rxq == s.rxq \o q
           woken == IF s.neti = "wait" /\ q # << >> THEN "run" ELSE s.neti
           u == [s EXCEPT !.rxq = rxq]
           v == [u EXCEPT !.neti = woken]
<1>1. s \in NetStates /\ rxq \in Seq(Bufs) /\ woken \in {"run", "wait"}
  BY DEF NetTyped, NetStates
<1>2. e = v
  BY <1>1 DEF NetifInput, NetStates
<1> HIDE DEF rxq, woken, e
<1>3. v \in NetStates
  <2>1. u \in NetStates
    BY Zenon, <1>1, NetWrites
  <2> HIDE DEF u
  <2> QED BY Zenon, <1>1, <2>1, NetWrites
<1>4. /\ v.rxq = rxq /\ v.rx = s.rx /\ v.filled = s.filled /\ v.tx = s.tx /\ v.cur = s.cur
      /\ v.tdh = s.tdh /\ v.waiter = s.waiter /\ v.out = s.out /\ v.halt = s.halt
      /\ v.txq = s.txq /\ v.arp = s.arp /\ v.neto = s.neto /\ v.count = s.count
  BY <1>1 DEF NetStates
<1> HIDE DEF v
<1> QED BY Zenon, <1>2, <1>3, <1>4 DEF e, rxq

\* What the card has filled goes to neti, and the ring is made up.
LEMMA PacketsReceived ==
  ASSUME NEW s, NetTyped(s), RingsMade(s), Balanced(s), Cardinality(Free(s)) >= s.filled
  PROVE  LET e == RecvPacket(s, s.filled) IN NetTyped(e) /\ RingsMade(e) /\ Balanced(e)
<1> DEFINE n == s.filled
           done == SubSeq(s.rx, 1, n)
           left == SubSeq(s.rx, n + 1, Len(s.rx))
           a == NetifInput(s, done)
           g == PbufsGet(a, n)
           q == g.q
           count == [b \in Bufs |-> IF b \in Range(q) THEN 1 ELSE a.count[b]]
           u == [a EXCEPT !.count = count]
           v == [u EXCEPT !.rx = left \o q]
           e == [v EXCEPT !.filled = 0]
<1>1. s \in NetStates /\ s.rx \in Seq(Bufs) /\ s.rxq \in Seq(Bufs) /\ n \in Nat /\ s.count \in [Bufs -> Nat]
  BY DEF NetTyped, NetStates
<1>2. n \in 0 .. Len(s.rx) /\ Len(s.rx) = RxNr /\ RxNr \in Nat /\ 0 < RxNr
  BY <1>1, NetAssumption DEF RingsMade
<1>3. /\ done \in Seq(Bufs) /\ Len(done) = n /\ left \in Seq(Bufs) /\ Len(left) = RxNr - n
      /\ \A c : Times(s.rx, c) = Times(done, c) + Times(left, c)
  <2> DEFINE rx == s.rx
  <2>1. rx \in Seq(Bufs) /\ n \in 0 .. Len(rx)
    BY <1>1, <1>2
  <2> HIDE DEF rx, n
  <2>2. ASSUME NEW c
        PROVE  /\ SubSeq(rx, 1, n) \in Seq(Bufs) /\ Len(SubSeq(rx, 1, n)) = n
               /\ SubSeq(rx, n + 1, Len(rx)) \in Seq(Bufs) /\ Len(SubSeq(rx, n + 1, Len(rx))) = Len(rx) - n
               /\ Times(rx, c) = Times(SubSeq(rx, 1, n), c) + Times(SubSeq(rx, n + 1, Len(rx)), c)
    BY <2>1, TimesSplit
  <2> QED BY <1>2, <2>2 DEF rx
<1>4. RecvPacket(s, n) = e
  <2>1. RecvPacket(s, n) = [g.s EXCEPT !.rx = SubSeq(@, n + 1, Len(@)) \o q, !.filled = 0]
    BY Zenon DEF RecvPacket, Then
  <2>2. a \in NetStates /\ a.rx = s.rx /\ g.s = u
    <3> HIDE DEF n, done, g, q, a
    <3>1. a \in NetStates /\ a.rx = s.rx /\ a.count = s.count /\ a.arp = s.arp
      BY <1>3, NetInputs DEF a
    <3>2. NetTyped(a) /\ n <= Cardinality(Free(a))
      BY <1>1, <3>1 DEF NetTyped, Free, n
    <3>3. g.s = u
      BY <1>1, <3>2, PbufsTaken DEF g, q
    <3> QED BY <3>1, <3>3
  <2> HIDE DEF a, g, count, q, n
  <2>3. u.rx = s.rx /\ u \in NetStates
    <3>1. count \in [Bufs -> Nat]
      BY <2>2 DEF count, NetStates
    <3>2. u \in NetStates
      BY Zenon, <2>2, <3>1, NetWrites
    <3> QED BY <2>2, <3>2 DEF NetStates
  <2>4. [u EXCEPT !.rx = SubSeq(@, n + 1, Len(@)) \o q, !.filled = 0] = e
    <3> HIDE DEF u
    <3> QED BY <2>3 DEF NetStates
  <2> QED BY <2>1, <2>2, <2>4
<1>5. /\ a \in NetStates /\ a.rxq = s.rxq \o done /\ a.rx = s.rx /\ a.tx = s.tx /\ a.cur = s.cur
      /\ a.tdh = s.tdh /\ a.waiter = s.waiter /\ a.out = s.out /\ a.halt = s.halt
      /\ a.txq = s.txq /\ a.arp = s.arp /\ a.neto = s.neto /\ a.count = s.count
  BY <1>3, NetInputs
<1>6. /\ q \in Seq(Bufs) /\ Len(q) = n /\ IsInjective(q)
      /\ \A b \in Range(q) : b \in Bufs /\ s.count[b] = 0
  <2> HIDE DEF a, n
  <2>1. NetTyped(a) /\ n <= Cardinality(Free(a))
    BY <1>1, <1>5 DEF NetTyped, Free, n
  <2>2. /\ PbufsGet(a, n).q \in Seq(Bufs) /\ Len(PbufsGet(a, n).q) = n /\ IsInjective(PbufsGet(a, n).q)
        /\ \A b \in Range(PbufsGet(a, n).q) : b \in Bufs /\ a.count[b] = 0
    BY Zenon, <1>1, <2>1, PbufsTaken
  <2> HIDE DEF g
  <2>3. PbufsGet(a, n).q = q
    BY DEF g
  <2> HIDE DEF q
  <2> QED BY <1>5, <2>2, <2>3
<1> HIDE DEF n, done, left, a, g, q
<1>7. count \in [Bufs -> Nat] /\ left \o q \in Seq(Bufs) /\ Len(left \o q) = RxNr /\ 0 \in Nat
  <2>1. count \in [Bufs -> Nat]
    BY <1>1, <1>5
  <2>2. left \o q \in Seq(Bufs) /\ Len(left \o q) = Len(left) + Len(q)
    BY <1>3, <1>6
  <2> QED BY <1>1, <1>2, <1>3, <1>6, <2>1, <2>2
<1>8. \A b \in Bufs : count[b] = IF b \in Range(q) THEN 1 ELSE s.count[b]
  BY <1>5
<1> HIDE DEF count
<1>9. e \in NetStates
  <2> DEFINE rx == left \o q
  <2>1. rx \in Seq(Bufs)
    BY <1>7
  <2>2. u \in NetStates
    BY Zenon, <1>5, <1>7, NetWrites
  <2> HIDE DEF u, rx
  <2>3. [u EXCEPT !.rx = rx] \in NetStates
    BY Zenon, <2>1, <2>2, NetWrites
  <2>4. v \in NetStates
    BY Zenon, <2>3 DEF rx
  <2> HIDE DEF v
  <2> QED BY Zenon, <1>7, <2>4, NetWrites
<1>10. /\ e.rx = left \o q /\ e.filled = 0 /\ e.tx = s.tx /\ e.cur = s.cur
       /\ e.tdh = s.tdh /\ e.waiter = s.waiter /\ e.out = s.out /\ e.halt = s.halt
       /\ e.rxq = s.rxq \o done /\ e.txq = s.txq /\ e.arp = s.arp /\ e.neto = s.neto /\ e.count = count
  BY <1>5 DEF NetStates
<1> HIDE DEF e
<1>11. NetTyped(e) /\ RingsMade(e)
  BY <1>2, <1>7, <1>9, <1>10 DEF NetTyped, RingsMade
<1>12. ASSUME NEW c \in Bufs PROVE Lent(e, c) = 0 /\ e.count[c] <= 1
  <2>1. Times(left \o q, c) = Times(left, c) + Times(q, c) /\ Times(left, c) \in Nat /\ Times(q, c) \in Nat
    BY <1>3, <1>6, TimesConcat
  <2>2. Times(s.rxq \o done, c) = Times(s.rxq, c) + Times(done, c) /\ Times(done, c) \in Nat
    BY <1>1, <1>3, TimesConcat
  <2>3. Times(q, c) = IF c \in Range(q) THEN 1 ELSE 0
    BY <1>6, TimesRange
  <2>4. /\ Times(s.rx, c) \in Nat /\ Times(s.rxq, c) \in Nat /\ Times(s.txq, c) \in Nat
        /\ Sending(s.tx, c) \in Nat /\ Waits(s.arp, c) \in Nat /\ One(s.out, c) \in Nat
    BY <1>1, HeldNat
  <2>5. Held(e, c) = Times(left \o q, c) + Times(s.rxq \o done, c) + Times(s.txq, c) + Sending(s.tx, c) + Waits(s.arp, c) + One(s.out, c)
    BY <1>10 DEF Held
  <2>6. Held(s, c) = Times(s.rx, c) + Times(s.rxq, c) + Times(s.txq, c) + Sending(s.tx, c) + Waits(s.arp, c) + One(s.out, c)
    BY DEF Held
  <2>10. Times(s.rx, c) = Times(done, c) + Times(left, c)
    BY <1>3
  <2>7. Held(e, c) = Held(s, c) + Times(q, c)
    BY <2>1, <2>2, <2>4, <2>5, <2>6, <2>10
  <2>8. s.count[c] - Held(s, c) = 0 /\ s.count[c] <= 1 /\ s.count[c] \in Nat /\ Held(s, c) \in Nat
    BY <1>1, HeldNat DEF Balanced, Lent
  <2>9. e.count[c] = s.count[c] + Times(q, c) /\ e.count[c] <= 1
    BY <1>6, <1>8, <1>10, <2>3, <2>8
  <2> QED BY <2>1, <2>7, <2>8, <2>9 DEF Lent
<1> QED BY <1>4, <1>11, <1>12 DEF Balanced, n

\* The packet that was sent last is given back, and neto is woken.
LEMMA PacketReleased ==
  ASSUME NEW s, NetInv(s)
  PROVE  LET e == Transmitted(s)
         IN NetTyped(e) /\ RingsMade(e) /\ Balanced(e) /\ e.filled = s.filled
<1> DEFINE i == LastSent(s)
           b == s.tx[i].buf
           d == [s.tx[i] EXCEPT !.buf = 0]
           tx == [s.tx EXCEPT ![i] = d]
           w == [s EXCEPT !.tx = tx]
           p == PbufPut(w, b)
           neto == IF s.waiter THEN "run" ELSE p.neto
           v == [p EXCEPT !.waiter = FALSE]
           e == [v EXCEPT !.neto = neto]
<1>1. /\ s \in NetStates /\ NetTyped(s) /\ RingsMade(s) /\ Balanced(s) /\ s.tdh \in TxRing
      /\ s.tx \in [TxRing -> NetDescs]
  BY DEF NetInv, NetTyped, NetStates, Rings
<1>2. CASE "tx" \notin s.icr
  <2>1. Transmitted(s) = s
    BY <1>2 DEF Transmitted
  <2> QED BY <1>1, <2>1
<1>3. CASE "tx" \in s.icr
  <2>1. i \in TxRing /\ s.tx[i] \in NetDescs /\ s.tx[i].done /\ b \in Bufs
    <3>1. i \in TxRing
      BY <1>1, NextDesc DEF LastSent
    <3>2. s.tx[i].done /\ b # 0
      BY <1>3 DEF NetInv, Rings
    <3> HIDE DEF i
    <3>3. s.tx[i] \in NetDescs
      BY <1>1, <3>1
    <3> QED BY <3>1, <3>2, <3>3 DEF NetDescs
  <2>2. Transmitted(s) = [p EXCEPT !.waiter = FALSE, !.neto = IF s.waiter THEN "run" ELSE @]
    <3>1. w = [s EXCEPT !.tx[i].buf = 0]
      <4> HIDE DEF i
      <4> QED BY <1>1 DEF NetStates
    <3>2. b # 0
      BY <2>1, BufsAreNot0
    <3>3. Transmitted(s) = [PbufPut([s EXCEPT !.tx[i].buf = 0], b)
             EXCEPT !.waiter = FALSE, !.neto = IF s.waiter THEN "run" ELSE @]
      BY Zenon, <1>3, <3>2 DEF Transmitted, LastSent
    <3> HIDE DEF i, w, b
    <3> QED BY Zenon, <3>1, <3>3
  <2> HIDE DEF i
  <2>3. /\ d \in NetDescs /\ d.done /\ d.buf = 0 /\ tx \in [TxRing -> NetDescs]
        /\ tx[i] = d /\ \A j \in TxRing : j # i => tx[j] = s.tx[j]
    <3>1. d \in NetDescs /\ d.done /\ d.buf = 0
      BY <2>1 DEF NetDescs
    <3> HIDE DEF d
    <3> QED BY <1>1, <2>1, <3>1
  <2> HIDE DEF d, tx
  <2>4. w \in NetStates
    BY Zenon, <1>1, <2>3, NetWrites
  <2>5. /\ w.rx = s.rx /\ w.filled = s.filled /\ w.tx = tx /\ w.cur = s.cur
        /\ w.tdh = s.tdh /\ w.waiter = s.waiter /\ w.out = s.out /\ w.halt = s.halt
        /\ w.rxq = s.rxq /\ w.txq = s.txq /\ w.arp = s.arp /\ w.neto = s.neto /\ w.count = s.count
    BY <1>1 DEF NetStates
  <2> HIDE DEF w
  <2>6. NetTyped(w)
    BY <1>1, <2>4, <2>5 DEF NetTyped
  <2>7. ASSUME NEW c \in Bufs PROVE Held(w, c) = Held(s, c) - One(b, c) /\ Held(w, c) \in Nat /\ Held(s, c) \in Nat
    <3>1. Sending(tx, c) = Sending(s.tx, c) - One(b, c) + One(d.buf, c)
      <4> DEFINE f == s.tx
      <4>1. f \in [TxRing -> NetDescs] /\ tx \in [TxRing -> NetDescs] /\ \A j \in TxRing : j # i => tx[j] = f[j]
        BY <1>1, <2>3
      <4> HIDE DEF f
      <4>2. Sending(tx, c) = Sending(f, c) - One(f[i].buf, c) + One(tx[i].buf, c)
        BY <2>1, <4>1, SendingChanges
      <4> QED BY <2>3, <4>2 DEF f
    <3>2. One(d.buf, c) = 0 /\ One(b, c) \in Nat
      BY <2>3, BufsAreNot0 DEF One
    <3>3. Held(w, c) = Times(s.rx, c) + Times(s.rxq, c) + Times(s.txq, c) + Sending(tx, c) + Waits(s.arp, c) + One(s.out, c)
      BY <2>5 DEF Held
    <3>4. Held(s, c) = Times(s.rx, c) + Times(s.rxq, c) + Times(s.txq, c) + Sending(s.tx, c) + Waits(s.arp, c) + One(s.out, c)
      BY DEF Held
    <3>5. /\ Times(s.rx, c) \in Nat /\ Times(s.rxq, c) \in Nat /\ Times(s.txq, c) \in Nat
          /\ Sending(s.tx, c) \in Nat /\ Waits(s.arp, c) \in Nat /\ One(s.out, c) \in Nat
      BY <1>1, HeldNat
    <3>6. Held(w, c) \in Nat /\ Held(s, c) \in Nat
      BY <1>1, <2>4, HeldNat
    <3> QED BY <3>1, <3>2, <3>3, <3>4, <3>5, <3>6
  <2> HIDE DEF b
  <2>8. w.count[b] >= 1
    <3>1. Held(w, b) = Held(s, b) - 1 /\ Held(w, b) \in Nat /\ Held(s, b) \in Nat
      BY <2>1, <2>7, BufsAreNot0
    <3>2. s.count[b] - Held(s, b) = 0 /\ s.count[b] \in Nat
      BY <1>1, <2>1 DEF Balanced, Lent, NetStates
    <3> QED BY <2>5, <3>1, <3>2
  <2>9. NetMoves(w, p, b, -1) /\ p.neto = w.neto
    BY <2>1, <2>6, <2>8, PbufPuts
  <2> HIDE DEF p
  <2>10. p \in NetStates /\ NetTyped(p) /\ NetQuiet(w, p) /\ neto \in {"run", "wait", "block"}
    BY <2>9 DEF NetMoves, NetTyped, NetStates
  <2>11. Transmitted(s) = e
    BY <2>2, <2>10 DEF NetStates
  <2>12. e \in NetStates
    <3>1. v \in NetStates
      <4>1. FALSE \in BOOLEAN
        OBVIOUS
      <4> QED BY Zenon, <2>10, <4>1, NetWrites
    <3> HIDE DEF v, neto
    <3> QED BY Zenon, <2>10, <3>1, NetWrites
  <2>13. /\ e.rx = p.rx /\ e.filled = p.filled /\ e.tx = p.tx /\ e.cur = p.cur
         /\ e.tdh = p.tdh /\ ~ e.waiter /\ e.out = p.out /\ e.halt = p.halt
         /\ e.rxq = p.rxq /\ e.txq = p.txq /\ e.arp = p.arp /\ e.count = p.count
    BY <2>10 DEF NetStates
  <2> HIDE DEF e
  <2>14. NetTyped(e) /\ e.filled = s.filled
    BY <2>5, <2>10, <2>12, <2>13 DEF NetTyped, NetQuiet
  <2>15. RingsMade(e)
    <3>1. e.rx = s.rx /\ e.filled = s.filled /\ e.tx = tx
      BY <2>5, <2>10, <2>13 DEF NetQuiet
    <3>2. \A j \in TxRing : ~ tx[j].done => tx[j].buf # 0
      BY <1>1, <2>3 DEF RingsMade
    <3> QED BY <1>1, <2>13, <3>1, <3>2 DEF RingsMade
  <2>16. ASSUME NEW c \in Bufs PROVE Lent(e, c) = 0 /\ e.count[c] <= 1
    <3>1. Held(e, c) = Held(p, c) /\ e.count[c] = p.count[c] /\ p.count[c] \in Nat
      BY <2>10, <2>13 DEF Held, NetStates
    <3>2. /\ Lent(p, c) = Lent(w, c) + IF c = b THEN -1 ELSE 0
          /\ p.count[c] <= w.count[c] \/ p.count[c] <= 1
      BY <2>9 DEF NetMoves
    <3>3. s.count[c] - Held(s, c) = 0 /\ s.count[c] <= 1 /\ s.count[c] \in Nat
      BY <1>1 DEF Balanced, Lent, NetStates
    <3>4. w.count[c] = s.count[c]
      BY <2>5
    <3>5. Lent(w, c) = One(b, c)
      <4>1. One(b, c) \in Nat
        BY DEF One
      <4> QED BY <2>7, <3>3, <3>4, <4>1 DEF Lent
    <3>6. Lent(p, c) = 0
      BY <3>2, <3>5 DEF One
    <3> QED BY <3>1, <3>2, <3>3, <3>4, <3>6 DEF Lent
  <2> QED BY <2>11, <2>14, <2>15, <2>16 DEF Balanced
<1> QED BY <1>2, <1>3

\* The handler of the card's interrupt.
LEMMA InterruptSteps == ASSUME NetInv(net), Interrupt, "cause" \notin Lossy PROVE NetInv(net')
<1> DEFINE u == Transmitted(net)
           r == IF "rx" \in u.icr THEN RecvPacket(u, u.filled) ELSE u
           e == [r EXCEPT !.icr = {}]
<1>1. net' = e /\ Cardinality(Free(u)) >= net.filled
  <2>1. Do(Handler(net)) /\ Cardinality(Free(u)) >= net.filled
    BY Zenon DEF Interrupt
  <2>2. Handler(net) = e
    BY Zenon DEF Handler, Then
  <2> HIDE DEF e
  <2> QED BY <2>1, <2>2, DoIs
<1>2. NetTyped(u) /\ RingsMade(u) /\ Balanced(u) /\ u.filled = net.filled
  BY PacketReleased
<1> HIDE DEF u
<1>3. NetTyped(r) /\ RingsMade(r) /\ Balanced(r)
  BY <1>1, <1>2, PacketsReceived
<1> HIDE DEF r
<1>4. r \in NetStates /\ {} \in SUBSET {"tx", "rx"}
  BY <1>3 DEF NetTyped
<1>5. e \in NetStates
  BY Zenon, <1>4, NetWrites
<1>6. /\ e.rx = r.rx /\ e.filled = r.filled /\ e.tx = r.tx /\ e.icr = {} /\ e.waiter = r.waiter
      /\ e.out = r.out /\ e.rxq = r.rxq /\ e.txq = r.txq /\ e.arp = r.arp /\ e.neto = r.neto /\ e.count = r.count
  BY <1>4 DEF NetStates
<1> HIDE DEF e
<1>7. NetTyped(e) /\ Balanced(e) /\ Rings(e)
  BY <1>3, <1>5, <1>6 DEF NetTyped, Balanced, Lent, Held, Rings, RingsMade
<1> QED BY <1>1, <1>7 DEF NetInv

\* At first every packet of the receive ring is there, and all others are free.
LEMMA NetStart == ASSUME NEW halt \in NetHalts, NetInit(halt) PROVE NetInv(net)
<1> DEFINE rx == [i \in 1 .. RxNr |-> i]
           tx == [i \in 0 .. TxNr - 1 |-> [buf |-> 0, done |-> TRUE]]
           arp == [h \in Near |-> NoEntry]
           count == [b \in Bufs |-> IF b <= RxNr THEN 1 ELSE 0]
           msg == [b \in Bufs |-> Empty]
<1>1. PICK traffic \in Traffic :
        net = [traffic |-> traffic, count |-> count, msg |-> msg, rx |-> rx, filled |-> 0, rxq |-> << >>, txq |-> << >>,
               tx |-> tx, cur |-> 0, tdh |-> 0, icr |-> {}, waiter |-> FALSE, neti |-> "run", neto |-> "run", out |-> 0,
               arp |-> arp, halt |-> halt]
  BY Zenon DEF NetInit
<1>2. /\ traffic \in SUBSET UNION Traffic /\ rx \in Seq(Bufs) /\ Len(rx) = RxNr /\ << >> \in Seq(Bufs)
      /\ 0 \in TxRing /\ 0 \in Nat /\ 0 < RxNr /\ {} \in SUBSET {"tx", "rx"} /\ count \in [Bufs -> Nat]
  BY NetAssumption DEF TxRing
<1>3. tx \in [TxRing -> NetDescs] /\ \A i \in TxRing : tx[i].done /\ tx[i].buf = 0
  BY DEF TxRing, NetDescs
<1>4. arp \in [Near -> NetEntries] /\ \A h \in Near : arp[h].queue = << >>
  BY NoEntryTyped
<1>5. msg \in [Bufs -> NetMsgs]
  <2>1. "none" \in NetKinds
    BY DEF NetKinds
  <2>2. Empty \in NetMsgs
    BY Zenon, <2>1, MsgTyped DEF Empty
  <2> QED BY <2>2
<1>6. \A b \in Bufs : Times(rx, b) = count[b] /\ count[b] <= 1
  <2> SUFFICES ASSUME NEW b \in Bufs PROVE Times(rx, b) = count[b] /\ count[b] <= 1
    OBVIOUS
  <2>1. b \in Range(rx) <=> b <= RxNr
    BY NetAssumption DEF Range
  <2>2. IsInjective(rx)
    BY DEF IsInjective
  <2>3. Times(rx, b) = IF b \in Range(rx) THEN 1 ELSE 0
    BY <1>2, <2>2, TimesRange
  <2> QED BY <2>1, <2>3
<1> HIDE DEF rx, tx, arp, count, msg
<1>7. /\ net.traffic = traffic /\ net.count = count /\ net.msg = msg /\ net.rx = rx /\ net.filled = 0
      /\ net.rxq = << >> /\ net.txq = << >> /\ net.tx = tx /\ net.cur = 0 /\ net.tdh = 0 /\ net.icr = {}
      /\ net.waiter = FALSE /\ net.neti = "run" /\ net.neto = "run" /\ net.out = 0 /\ net.arp = arp /\ net.halt = halt
  BY <1>1
<1>8. net \in NetStates
  BY <1>1, <1>2, <1>3, <1>4, <1>5 DEF NetStates
<1>9. ASSUME NEW b \in Bufs PROVE Lent(net, b) = 0 /\ net.count[b] <= 1
  <2>1. Times(<< >>, b) = 0 /\ One(0, b) = 0
    BY TimesOf, BufsAreNot0
  <2>2. Sending(tx, b) = 0
    <3>1. {i \in DOMAIN tx : tx[i].buf = b} = {}
      BY <1>3, BufsAreNot0
    <3> QED BY <3>1, FS_EmptySet DEF Sending
  <2>3. Waits(arp, b) = 0
    <3> DEFINE Part(h) == {h} \X {i \in DOMAIN arp[h].queue : arp[h].queue[i] = b}
    <3>1. ASSUME NEW h \in Near PROVE Part(h) = {}
      <4> DEFINE q == arp[h].queue
      <4>1. q \in Seq(Bufs) /\ q = << >>
        BY <1>2, <1>4
      <4> HIDE DEF q
      <4>2. {i \in DOMAIN q : q[i] = b} = {}
        BY <4>1
      <4> QED BY <4>2 DEF q
    <3>2. Waits(arp, b) = Cardinality(UNION {Part(h) : h \in Near})
      BY Zenon DEF Waits
    <3> HIDE DEF Part
    <3>3. UNION {Part(h) : h \in Near} = {}
      BY <3>1
    <3> QED BY <3>2, <3>3, FS_EmptySet
  <2>4. Held(net, b) = count[b]
    <3>1. Held(net, b) = Times(rx, b) + Times(<< >>, b) + Times(<< >>, b) + Sending(tx, b) + Waits(arp, b) + One(0, b)
      BY Zenon, <1>7 DEF Held
    <3>2. count[b] \in Nat /\ Times(rx, b) = count[b]
      BY <1>2, <1>6
    <3> QED BY <2>1, <2>2, <2>3, <3>1, <3>2
  <2>5. count[b] \in Nat /\ count[b] <= 1
    BY <1>2, <1>6
  <2> QED BY <1>7, <2>4, <2>5 DEF Lent
<1>10. NetTyped(net)
  BY <1>4, <1>7, <1>8 DEF NetTyped
<1>11. Rings(net)
  BY <1>2, <1>3, <1>7 DEF Rings, RingsMade
<1> QED BY <1>9, <1>10, <1>11 DEF NetInv, Balanced

\* Every packet is where its count says, and no assertion on one fails, whether
\* or not an interrupt comes for two packets sent; where a descriptor is used
\* again only when its packet was given back, and no interrupt has a cause for
\* which e1000_handler hangs.
THEOREM PbufsAreOwned ==
  ASSUME "overrun" \notin Lossy, "cause" \notin Lossy PROVE Spec => []PbufsOwned
<1>1. Init => NetInv(net)
  <2>1. "" \in NetHalts /\ "off" \in NetHalts
    BY DEF NetHalts
  <2> QED BY Zenon, <2>1, NetStart DEF Init
<1>2. NetInv(net) /\ [Next]_<<ide, fd, net>> => NetInv(net)'
  <2> SUFFICES ASSUME NetInv(net), [Next]_<<ide, fd, net>> PROVE NetInv(net')
    OBVIOUS
  <2>1. CASE Neti
    BY <2>1, NetiSteps
  <2>2. CASE Neto
    BY <2>2, NetoSteps
  <2>3. CASE Interrupt
    BY <2>3, InterruptSteps
  <2>4. CASE Transmit
    BY <2>4, TransmitSteps
  <2>5. CASE Tick
    BY <2>5, TickSteps
  <2>6. ASSUME NEW h \in Near, ArpThread(h) PROVE NetInv(net')
    BY <2>6, ArpSteps
  <2>7. Hosts \subseteq Near \cup Far /\ net.traffic \subseteq UNION Traffic
    BY DEF Hosts, NetInv, NetTyped, NetStates
  <2>8. ASSUME NEW h \in Hosts, Ping(h) PROVE NetInv(net')
    BY <2>7, <2>8, PingSteps
  <2>9. ASSUME NEW kind \in net.traffic \ {"ping", "far"}, NEW h \in Hosts, Receive(Packet(kind, h)) PROVE NetInv(net')
    BY <2>7, <2>9, ReceiveSteps
  <2>10. CASE UNCHANGED net
    BY <2>10
  <2> QED
    BY <2>1, <2>2, <2>3, <2>4, <2>5, <2>6, <2>8, <2>9, <2>10 DEF Next, NetNext
<1>3. NetInv(net) => PbufsOwned
  <2> SUFFICES ASSUME NetInv(net) PROVE PbufsOwned
    OBVIOUS
  <2>1. net.halt \in NetHalts /\ net \in NetStates
    BY DEF NetInv, NetTyped, NetStates
  <2>2. ASSUME NEW b \in Bufs
        PROVE net.count[b] = Times(net.rx, b) + Times(net.rxq, b) + Times(net.txq, b)
                           + Sending(net.tx, b) + Waits(net.arp, b) + IF net.out = b THEN 1 ELSE 0
    <3>1. net.count[b] - Held(net, b) = 0 /\ net.count[b] \in Nat /\ Held(net, b) \in Nat
      BY <2>1, HeldNat DEF NetInv, Balanced, Lent, NetStates
    <3>2. net.count[b] = Held(net, b)
      BY <3>1
    <3> QED BY Zenon, <3>2 DEF Held, One
  <2> QED BY Zenon, <2>1, <2>2 DEF PbufsOwned, NetHalts
<1> QED
  BY <1>1, <1>2, <1>3, PTL DEF Spec
=============================================================================
