-------------------------- MODULE HostCalls_proofs --------------------------
(***************************************************************************)
(* Proofs about what a host's calls leave behind them: Terminals, for any  *)
(* graph with at most one seam, and Queues, for any devices, any finite    *)
(* set of threads and any number of queues.  The two share no state.       *)
(*                                                                         *)
(* Terminals: the type invariant and every safety property of the          *)
(* terminals that do not block.  The value of a download is let go behind  *)
(* the completion event, or where nothing writes it; a borrowed transfer   *)
(* is waited for before the terminal returns.                              *)
(*                                                                         *)
(* Queues: the driver's counts balance, the in-order queue of a device is  *)
(* one queue, and a queue spoiled in run() is never handed out again.      *)
(***************************************************************************)
EXTENDS Terminals, Queues, FiniteSetTheorems, TLAPS

-----------------------------------------------------------------------------
(* The invariant of Terminals.                                             *)

\* What the walk has not reached is untouched; what it has is on a queue.
Ahead ==
  /\ \A k \in Leaves : k >= at => cst[k] = "none" /\ mem[k] = "none"
  /\ \A k \in Leaves : k < at => cst[k] # "none"
  /\ worker = "running" => \A k \in All({"seam"}) : k < at

OnError == {"failhost", "join", "abandon", "failed"}

\* Past the walk every leaf is on a queue, and the completion event comes last.
Passed ==
  /\ pc \notin OnError \cup {"walk"} => at > Last
  /\ mark # "none" => at > Last
  /\ pc \in {"walk", "host", "failhost", "mark"} => mark = "none"
  /\ MarkDone => \A k \in Leaves : Finished(k)

\* Who lets values go has seen the completion event.
Held ==
  /\ \A k \in Leaves : mem[k] = "output" => k \in out
  /\ keep = "fired" \/ (\E k \in Leaves : mem[k] = "reaper") => MarkDone
  /\ fut.done => MarkDone
  /\ fut.pc = "ready" => fut.done
  /\ fut.pc = "resolved" => pc = "returned" /\ worker \in {"none", "gone"}
  /\ fut.pc \in {"register", "callback", "recheck", "ready", "error"} => pc = "future"

\* On the way out of an error no download is in flight.
Calm == pc \in OnError \/ fut.pc = "error" => Quiet({"vec"})

\* Borrowed transfers are over where a terminal that checks them has waited.
Borrowed ==
  /\ pc \in {"mark", "keep", "guard", "wait", "drop", "returned"} /\ Checked =>
       \A k \in All({"slice"}) : Finished(k)
  /\ pc \in {"join", "abandon", "failed"} => Quiet({"slice"})
  /\ pc = "returned" /\ term = "unchecked" => MarkDone
  /\ pc \in {"flush", "future", "join"} => Future
  /\ pc \in {"guard", "wait", "drop"} => term \in {"pending", "unchecked"}
  /\ fut.pc # "parked" => Future

IInv ==
  /\ TypeOK /\ Typed(graph, out, term)
  /\ Ahead /\ Passed /\ Held /\ Calm /\ Borrowed
  /\ NeverFreedEarly \/ Hasty

-----------------------------------------------------------------------------
(* How a step moves.                                                       *)

LEMMA Shape ==
  ASSUME IInv
  PROVE  /\ graph \in Seq({"buf", "vec", "slice", "seam"}) /\ Last \in Nat /\ Leaves = 1..Last
         /\ \A j, k \in All({"seam"}) : j = k
         /\ \A K : All(K) \subseteq Leaves
BY TerminalsAssumption DEF IInv, TypeOK, Last, Leaves, All

\* The leaf the walk stands at is untouched.
LEMMA AtLeaf ==
  ASSUME IInv, at <= Last
  PROVE  at \in Leaves /\ at \in Nat /\ cst[at] = "none" /\ mem[at] = "none"
<1>1. at \in 1..(Last + 1) /\ Ahead
  BY DEF IInv, TypeOK
<1>2. at \in Leaves /\ at \in Nat /\ at >= at
  BY <1>1, Shape
<1>. QED  BY <1>1, <1>2 DEF Ahead

LEMMA Constant ==
  ASSUME Next
  PROVE  /\ graph' = graph /\ out' = out /\ term' = term
         /\ Leaves' = Leaves /\ Last' = Last /\ Checked' = Checked /\ Future' = Future
         /\ \A K : All(K)' = All(K)
<1>1. graph' = graph /\ out' = out /\ term' = term
  BY DEF Next, Caller, Faults, Choices, Task, Callback, Device, Walk, WalkDone, HostWait, Mark, Flush, Join,
     Abandon, Keep, KeepFails, KeepWaits, MakePending, PendingDone, WalkFails, MarkFails, FlushFails,
     CallbackFails, PendingWaits, PendingLeak, Move, FutureDrop, Poll, Register, SetCallback, Recheck,
     Resolve, Fire, Complete, Wake, Reap, DeviceRuns, MarkRuns, WorkerRuns, LateFlush, const
<1>. QED  BY <1>1 DEF Leaves, Last, Checked, Future, All

\* A command that is over stays over, the completion event too; past the walk
\* nothing is enqueued.
LEMMA Stays ==
  ASSUME IInv, Next
  PROVE  /\ \A k \in Leaves : Finished(k) => Finished(k)'
         /\ MarkDone => MarkDone'
         /\ pc # "walk" =>
              /\ at' = at /\ pc' # "walk" /\ (worker = "gone" \/ worker = "none" => worker' = worker)
              /\ \A k \in Leaves : cst[k] = "none" => cst'[k] = "none"
<1>. USE DEF Finished, MarkDone
<1>0. TypeOK /\ Ahead
  BY DEF IInv
<1>1. CASE Walk
  <2>1. cst[at] = "none" /\ at \in Leaves
    BY <1>0, <1>1, AtLeaf DEF Walk
  <2>2. \A k \in Leaves : k # at => cst'[k] = cst[k]
    BY <1>0, <1>1 DEF Walk, TypeOK
  <2>. QED  BY <1>1, <2>1, <2>2 DEF Walk
<1>2. CASE DeviceRuns
  <2>1. \A k \in Leaves : cst'[k] = cst[k] \/ cst[k] \in {"queued", "running"}
    BY <1>0, <1>2 DEF DeviceRuns, TypeOK
  <2>2. UNCHANGED <<callVars, mark, worker>>
    BY <1>2 DEF DeviceRuns
  <2>. QED  BY <2>1, <2>2 DEF callVars
<1>3. CASE WorkerRuns
  <2>1. \A k \in Leaves : cst'[k] = cst[k] \/ (cst[k] # "none" /\ cst'[k] \in {"ok", "err"})
    BY <1>0, <1>3, Shape DEF WorkerRuns, TypeOK, Ahead, All, devVars
  <2>2. UNCHANGED <<callVars, mark>> /\ (worker \in {"none", "gone"} => worker' = worker)
    BY <1>3 DEF WorkerRuns, devVars
  <2>. QED  BY <1>0, <2>1, <2>2 DEF callVars, TypeOK
<1>4. CASE MarkRuns
  BY <1>4 DEF MarkRuns, callVars
<1>5. CASE Mark
  <2>1. mark = "none"
    BY <1>5 DEF IInv, Mark, Passed
  <2>. QED  BY <1>5, <2>1 DEF Mark
<1>6. CASE Next /\ UNCHANGED <<cst, mark>> /\ ~Walk /\ ~WorkerRuns
  <2>1. pc # "walk" => at' = at /\ pc' # "walk" /\ worker' = worker
    BY <1>6
    DEF Next, Caller, Faults, Choices, Task, Callback, Device, WalkDone, HostWait, Mark, Flush, Join,
     Abandon, Keep, KeepFails, KeepWaits, MakePending, PendingDone, WalkFails, MarkFails, FlushFails,
     CallbackFails, PendingWaits, PendingLeak, Move, FutureDrop, Poll, Register, SetCallback, Recheck,
     Resolve, Fire, Complete, Wake, Reap, DeviceRuns, MarkRuns, LateFlush, callVars
  <2>. QED  BY <1>6, <2>1
<1>. QED
  BY <1>1, <1>2, <1>3, <1>4, <1>5, <1>6
  DEF Next, Caller, Faults, Choices, Task, Callback, Device, WalkDone, HostWait, Flush, Join,
     Abandon, Keep, KeepFails, KeepWaits, MakePending, PendingDone, WalkFails, MarkFails, FlushFails,
     CallbackFails, PendingWaits, PendingLeak, Move, FutureDrop, Poll, Register, SetCallback, Recheck,
     Resolve, Fire, Complete, Wake, Reap, LateFlush, devVars

LEMMA TypeStep ==
  ASSUME IInv, Next
  PROVE  TypeOK'
<1>. DEFINE Holders == {"none", "graph", "output", "lent", "kept", "reaper", "pending",
                        "future", "leaked", "user", "freed"}
<1>0. TypeOK /\ Last \in Nat /\ Leaves = 1..Last
  BY Shape DEF IInv
<1>. USE <1>0
<1>1. mem' \in [Leaves -> Holders]
  <2>1. CASE Walk
    BY <2>1 DEF Walk, TypeOK
  <2>2. ASSUME NEW from, NEW to \in Holders, mem' = Moved(from, to)  PROVE mem' \in [Leaves -> Holders]
    BY <2>2 DEF Moved, TypeOK
  <2>3. CASE Abandon \/ MakePending \/ PendingLeak \/ Fire \/ Reap \/ Resolve \/ FutureDrop
    BY <2>2, <2>3 DEF Abandon, MakePending, PendingLeak, Fire, Reap, Resolve, FutureDrop, DropTo
  <2>4. CASE Keep
    BY <2>4 DEF Keep, TypeOK
  <2>5. CASE PendingDone
    BY <2>5 DEF PendingDone, TypeOK
  <2>6. CASE UNCHANGED mem
    BY <2>6 DEF TypeOK
  <2>. QED
    BY <2>1, <2>3, <2>4, <2>5, <2>6
    DEF Next, Caller, Faults, Choices, Task, Callback, Device, WalkDone, HostWait, Mark, Flush, Join,
     KeepFails, KeepWaits, WalkFails, MarkFails, FlushFails, CallbackFails, PendingWaits, Move, Poll,
     Register, SetCallback, Recheck, Complete, Wake, DeviceRuns, MarkRuns, WorkerRuns, LateFlush
<1>2. cst' \in [Leaves -> {"none", "queued", "running", "ok", "err"}]
  <2>1. CASE Walk \/ DeviceRuns
    BY <2>1 DEF Walk, DeviceRuns, TypeOK
  <2>2. CASE WorkerRuns
    BY <2>2 DEF WorkerRuns, TypeOK, devVars
  <2>3. CASE UNCHANGED cst
    BY <2>3 DEF TypeOK
  <2>. QED
    BY <2>1, <2>2, <2>3
    DEF Next, Caller, Faults, Choices, Task, Callback, Device, WalkDone, HostWait, Mark, Flush, Join,
     Abandon, Keep, KeepFails, KeepWaits, MakePending, PendingDone, WalkFails, MarkFails, FlushFails,
     CallbackFails, PendingWaits, PendingLeak, Move, FutureDrop, Poll, Register, SetCallback, Recheck,
     Resolve, Fire, Complete, Wake, Reap, MarkRuns, LateFlush, devVars
<1>3. fut' \in [pc : {"parked", "register", "callback", "recheck", "ready", "error", "resolved", "dropped"},
                woken : BOOLEAN, waker : {"none", "task", "stale"},
                cb : {"none", "set", "stored", "over"}, done : BOOLEAN]
  <2>1. CASE Poll \/ Register \/ SetCallback \/ CallbackFails \/ Recheck
    BY <2>1 DEF Poll, Register, SetCallback, CallbackFails, Recheck, TypeOK
  <2>2. CASE Complete \/ Wake \/ Move \/ Resolve \/ FutureDrop
    BY <2>2 DEF Complete, Wake, Move, Resolve, FutureDrop, TypeOK
  <2>3. CASE UNCHANGED fut
    BY <2>3 DEF TypeOK
  <2>. QED
    BY <2>1, <2>2, <2>3
    DEF Next, Caller, Faults, Choices, Task, Callback, Device, Walk, WalkDone, HostWait, Mark, Flush, Join,
     Abandon, Keep, KeepFails, KeepWaits, MakePending, PendingDone, WalkFails, MarkFails, FlushFails,
     PendingWaits, PendingLeak, Fire, Reap, DeviceRuns, MarkRuns, WorkerRuns, LateFlush
<1>4. at' \in 1..(Last + 1) /\ flush' \subseteq Leaves
  <2>1. CASE Walk
    <3>1. at' = at + 1 /\ at <= Last /\ at \in 1..(Last + 1) /\ flush' = flush
      BY <2>1 DEF Walk, NextLeaf, TypeOK
    <3>. QED  BY <3>1 DEF TypeOK
  <2>2. CASE at' = at /\ flush' \in {flush, Leaves}
    BY <2>2 DEF TypeOK
  <2>. QED
    BY <2>1, <2>2
    DEF Next, Caller, Faults, Choices, Task, Callback, Device, WalkDone, HostWait, Mark, Flush, Flushed, Join,
     Abandon, Keep, KeepFails, KeepWaits, MakePending, PendingDone, WalkFails, MarkFails, FlushFails,
     CallbackFails, PendingWaits, PendingLeak, Move, FutureDrop, Poll, Register, SetCallback, Recheck,
     Resolve, Fire, Complete, Wake, Reap, DeviceRuns, MarkRuns, WorkerRuns, LateFlush, callVars, devVars
<1>5. /\ pc' \in {"walk", "host", "failhost", "mark", "flush", "keep", "join", "abandon",
                  "guard", "wait", "drop", "future", "returned", "failed"}
      /\ mark' \in {"none", "queued", "ok", "err"} /\ keep' \in {"none", "set", "fired"}
      /\ worker' \in {"none", "running", "tail", "gone"}
  BY DEF TypeOK, Next, Caller, Faults, Choices, Task, Callback, Device, Walk, WalkDone, HostWait, Mark, Flush,
     Join, Abandon, Keep, KeepFails, KeepWaits, MakePending, PendingDone, WalkFails, MarkFails, FlushFails,
     CallbackFails, PendingWaits, PendingLeak, Move, FutureDrop, Poll, Register, SetCallback, Recheck,
     Resolve, Fire, Complete, Wake, Reap, DeviceRuns, MarkRuns, WorkerRuns, LateFlush, callVars, devVars
<1>. QED  BY <1>1, <1>2, <1>3, <1>4, <1>5, Constant DEF TypeOK

\* Only a walk adds to the leaves that hold a value.
LEMMA AheadStep ==
  ASSUME IInv, Next
  PROVE  Ahead'
<1>0. TypeOK /\ Ahead /\ Last \in Nat /\ Leaves = 1..Last /\ at \in Nat
  <2>1. at \in 1..(Last + 1) /\ Last \in Nat
    BY Shape DEF IInv, TypeOK
  <2>. QED  BY <2>1, Shape DEF IInv
<1>. USE Constant DEF TypeOK
<1>1. CASE Walk
  <2>1. at \in Leaves /\ at' = at + 1
    BY <1>1, AtLeaf DEF Walk, NextLeaf
  <2>2. /\ cst' = [cst EXCEPT ![at] = "queued"]
        /\ \A k \in Leaves : k # at => mem'[k] = mem[k]
    BY <1>0, <1>1 DEF Walk
  <2>3. \A k \in Leaves : k >= at' => k >= at /\ k # at
    BY <1>0, <2>1
  <2>4. \A k \in Leaves : k < at' => k < at \/ k = at
    BY <1>0, <2>1
  <2>5. worker' = "running" => \A k \in All({"seam"}) : k < at'
    <3>1. CASE graph[at] = "seam"
      <4>1. at \in All({"seam"})
        BY <2>1, <3>1 DEF All
      <4>. QED  BY <1>0, <2>1, <4>1, Shape
    <3>2. CASE graph[at] # "seam"
      <4>1. worker' = worker
        BY <1>1, <3>2 DEF Walk
      <4>. QED  BY <1>0, <2>1, <4>1, Shape DEF Ahead
    <3>. QED  BY <3>1, <3>2
  <2>. QED  BY <1>0, <2>1, <2>2, <2>3, <2>4, <2>5 DEF Ahead
<1>2. CASE ~Walk /\ at' = at
  <2>1. \A k \in Leaves : cst[k] = "none" <=> cst'[k] = "none"
    <3>1. CASE DeviceRuns
      BY <1>0, <3>1 DEF DeviceRuns, All
    <3>2. CASE WorkerRuns
      BY <1>0, <3>2, Shape DEF WorkerRuns, All, Ahead, devVars
    <3>3. CASE UNCHANGED cst
      BY <3>3
    <3>. QED
      BY <1>2, <3>1, <3>2, <3>3
      DEF Next, Caller, Faults, Choices, Task, Callback, Device, WalkDone, HostWait, Mark, Flush, Join,
       Abandon, Keep, KeepFails, KeepWaits, MakePending, PendingDone, WalkFails, MarkFails, FlushFails,
       CallbackFails, PendingWaits, PendingLeak, Move, FutureDrop, Poll, Register, SetCallback, Recheck,
       Resolve, Fire, Complete, Wake, Reap, MarkRuns, LateFlush, devVars
  <2>2. \A k \in Leaves : mem[k] = "none" => mem'[k] = "none"
    BY <1>0, <1>2
    DEF Next, Caller, Faults, Choices, Task, Callback, Device, WalkDone, HostWait, Mark, Flush, Join,
     Abandon, Keep, KeptBy, KeepFails, KeepWaits, MakePending, PendingDone, WalkFails, MarkFails, FlushFails,
     CallbackFails, PendingWaits, PendingLeak, Move, FutureDrop, Poll, Register, SetCallback, Recheck,
     Resolve, Fire, Complete, Wake, Reap, DeviceRuns, MarkRuns, WorkerRuns, LateFlush, Moved
  <2>3. worker' = "running" => worker = "running"
    BY <1>2
    DEF Next, Caller, Faults, Choices, Task, Callback, Device, WalkDone, HostWait, Mark, Flush, Join,
     Abandon, Keep, KeepFails, KeepWaits, MakePending, PendingDone, WalkFails, MarkFails, FlushFails,
     CallbackFails, PendingWaits, PendingLeak, Move, FutureDrop, Poll, Register, SetCallback, Recheck,
     Resolve, Fire, Complete, Wake, Reap, DeviceRuns, MarkRuns, WorkerRuns, LateFlush
  <2>. QED  BY <1>0, <1>2, <2>1, <2>2, <2>3 DEF Ahead
<1>3. ~Walk => at' = at
  BY DEF Next, Caller, Faults, Choices, Task, Callback, Device, WalkDone, HostWait, Mark, Flush, Join,
     Abandon, Keep, KeepFails, KeepWaits, MakePending, PendingDone, WalkFails, MarkFails, FlushFails,
     CallbackFails, PendingWaits, PendingLeak, Move, FutureDrop, Poll, Register, SetCallback, Recheck,
     Resolve, Fire, Complete, Wake, Reap, DeviceRuns, MarkRuns, WorkerRuns, LateFlush, callVars
<1>. QED  BY <1>1, <1>2, <1>3

LEMMA PassedStep ==
  ASSUME IInv, Next
  PROVE  Passed'
<1>0. TypeOK /\ Passed /\ Ahead /\ Held /\ at \in Nat /\ Last \in Nat
  <2>1. at \in 1..(Last + 1) /\ Last \in Nat
    BY Shape DEF IInv, TypeOK
  <2>. QED  BY <2>1 DEF IInv
<1>. USE <1>0, Constant
<1>1. CASE Walk
  <2>1. mark = "none" /\ mark' = "none" /\ pc' = "walk"
    BY <1>1 DEF Walk, Passed
  <2>. QED  BY <2>1 DEF Passed, MarkDone, OnError
<1>2. CASE MarkRuns
  <2>1. at > Last /\ UNCHANGED <<pc, at, cst>> /\ \A k \in Leaves : Finished(k)
    <3>1. at > Last /\ mark # "none"
      BY <1>2 DEF MarkRuns, Passed
    <3>2. \A k \in Leaves : cst[k] # "none"
      BY <3>1, Shape DEF Ahead
    <3>. QED  BY <1>2, <3>1, <3>2 DEF MarkRuns, MarkAfter, callVars
  <2>2. mark # "none" /\ mark' # "none"
    BY <1>2 DEF MarkRuns
  <2>. QED  BY <2>1, <2>2 DEF Passed, Finished, MarkDone
<1>3. CASE Mark
  <2>1. at > Last /\ at' = at /\ mark' = "queued" /\ pc' \in {"flush", "keep"}
    BY <1>3 DEF Mark, Passed, OnError
  <2>. QED  BY <2>1 DEF Passed, MarkDone, OnError
<1>4. CASE ~Walk /\ UNCHANGED <<at, mark>>
  <2>1. MarkDone => \A k \in Leaves : Finished(k)'
    BY Stays DEF Passed
  <2>2. pc' \notin OnError \cup {"walk"} => pc \notin OnError \cup {"walk"} \/ at > Last
    BY <1>4
    DEF OnError, Held, Next, Caller, Faults, Choices, Task, Callback, Device, WalkDone, HostWait, Mark, Flush, Join,
     Abandon, Keep, KeepFails, KeepWaits, MakePending, PendingDone, WalkFails, MarkFails, FlushFails,
     CallbackFails, PendingWaits, PendingLeak, Move, FutureDrop, Poll, Register, SetCallback, Recheck,
     Resolve, Fire, Complete, Wake, Reap, DeviceRuns, MarkRuns, WorkerRuns, LateFlush, callVars, devVars
  <2>3. pc' \in {"walk", "host", "failhost", "mark"} => pc \in {"walk", "host", "failhost", "mark"}
    BY <1>4
    DEF Next, Caller, Faults, Choices, Task, Callback, Device, WalkDone, HostWait, Mark, Flush, Join,
     Abandon, Keep, KeepFails, KeepWaits, MakePending, PendingDone, WalkFails, MarkFails, FlushFails,
     CallbackFails, PendingWaits, PendingLeak, Move, FutureDrop, Poll, Register, SetCallback, Recheck,
     Resolve, Fire, Complete, Wake, Reap, DeviceRuns, MarkRuns, WorkerRuns, LateFlush, callVars, devVars
  <2>. QED  BY <1>4, <2>1, <2>2, <2>3 DEF Passed, MarkDone
<1>5. Walk \/ MarkRuns \/ Mark \/ UNCHANGED <<at, mark>>
  BY DEF Next, Caller, Faults, Choices, Task, Callback, Device, WalkDone, HostWait, Flush, Join,
     Abandon, Keep, KeepFails, KeepWaits, MakePending, PendingDone, WalkFails, MarkFails, FlushFails,
     CallbackFails, PendingWaits, PendingLeak, Move, FutureDrop, Poll, Register, SetCallback, Recheck,
     Resolve, Fire, Complete, Wake, Reap, DeviceRuns, WorkerRuns, LateFlush, callVars, devVars
<1>. QED  BY <1>1, <1>2, <1>3, <1>4, <1>5

\* The leaf that was walked is the only one whose value appears.
LEMMA HeldStep ==
  ASSUME IInv, Next
  PROVE  Held'
<1>0. TypeOK /\ Held /\ MarkDone' \in BOOLEAN
  BY DEF IInv, MarkDone
<1>. USE <1>0, Constant, Stays
<1>1. \A k \in Leaves : mem'[k] = "output" => k \in out
  BY DEF Held, TypeOK,
     Next, Caller, Faults, Choices, Task, Callback, Device, Walk, WalkDone, HostWait, Mark, Flush, Join,
     Abandon, Keep, KeptBy, KeepFails, KeepWaits, MakePending, PendingDone, WalkFails, MarkFails, FlushFails,
     CallbackFails, PendingWaits, PendingLeak, Move, FutureDrop, DropTo, Poll, Register, SetCallback, Recheck,
     Resolve, Fire, Complete, Wake, Reap, DeviceRuns, MarkRuns, WorkerRuns, LateFlush, Moved
<1>2. keep' = "fired" => MarkDone'
  BY DEF Held, Fires,
     Next, Caller, Faults, Choices, Task, Callback, Device, Walk, WalkDone, HostWait, Mark, Flush, Join,
     Abandon, Keep, KeepFails, KeepWaits, MakePending, PendingDone, WalkFails, MarkFails, FlushFails,
     CallbackFails, PendingWaits, PendingLeak, Move, FutureDrop, Poll, Register, SetCallback, Recheck,
     Resolve, Fire, Complete, Wake, Reap, DeviceRuns, MarkRuns, WorkerRuns, LateFlush
<1>3. ASSUME NEW k \in Leaves, mem'[k] = "reaper"  PROVE MarkDone'
  <2>1. mem[k] = "reaper" \/ Fire \/ (FutureDrop /\ keep = "fired")
    BY <1>3
    DEF TypeOK,
     Next, Caller, Faults, Choices, Task, Callback, Device, Walk, WalkDone, HostWait, Mark, Flush, Join,
     Abandon, Keep, KeptBy, KeepFails, KeepWaits, MakePending, PendingDone, WalkFails, MarkFails, FlushFails,
     CallbackFails, PendingWaits, PendingLeak, Move, FutureDrop, DropTo, Poll, Register, SetCallback, Recheck,
     Resolve, Complete, Wake, Reap, DeviceRuns, MarkRuns, WorkerRuns, LateFlush, Moved
  <2>. QED  BY <2>1 DEF Held, Fire, Fires
<1>4. fut'.done => MarkDone'
  BY DEF Held, TypeOK,
     Next, Caller, Faults, Choices, Task, Callback, Device, Walk, WalkDone, HostWait, Mark, Flush, Join,
     Abandon, Keep, KeepFails, KeepWaits, MakePending, PendingDone, WalkFails, MarkFails, FlushFails,
     CallbackFails, PendingWaits, PendingLeak, Move, FutureDrop, Poll, Register, SetCallback, Recheck,
     Resolve, Fire, Complete, Wake, Reap, DeviceRuns, MarkRuns, WorkerRuns, LateFlush
<1>5. fut'.pc = "ready" => fut'.done
  BY DEF Held, TypeOK, Rechecked,
     Next, Caller, Faults, Choices, Task, Callback, Device, Walk, WalkDone, HostWait, Mark, Flush, Join,
     Abandon, Keep, KeepFails, KeepWaits, MakePending, PendingDone, WalkFails, MarkFails, FlushFails,
     CallbackFails, PendingWaits, PendingLeak, Move, FutureDrop, Poll, Register, SetCallback, Recheck,
     Resolve, Fire, Complete, Wake, Reap, DeviceRuns, MarkRuns, WorkerRuns, LateFlush
<1>6. fut'.pc = "resolved" => pc' = "returned" /\ worker' \in {"none", "gone"}
  <2>1. CASE Resolve
    BY <2>1 DEF Resolve, Joined
  <2>2. CASE ~Resolve
    <3>1. fut'.pc = "resolved" => fut.pc = "resolved"
      BY <2>2
      DEF TypeOK, Next, Caller, Faults, Choices, Task, Callback, Device, Walk, WalkDone, HostWait, Mark, Flush, Join,
       Abandon, Keep, KeepFails, KeepWaits, MakePending, PendingDone, WalkFails, MarkFails, FlushFails,
       CallbackFails, PendingWaits, PendingLeak, Move, FutureDrop, Poll, Register, SetCallback, Recheck,
       Fire, Complete, Wake, Reap, DeviceRuns, MarkRuns, WorkerRuns, LateFlush
    <3>2. pc = "returned" => pc' = "returned"
      BY <2>2
      DEF Next, Caller, Faults, Choices, Task, Callback, Device, Walk, WalkDone, HostWait, Mark, Flush, Join,
       Abandon, Keep, KeepFails, KeepWaits, MakePending, PendingDone, WalkFails, MarkFails, FlushFails,
       CallbackFails, PendingWaits, PendingLeak, Move, FutureDrop, Poll, Register, SetCallback, Recheck,
       Fire, Complete, Wake, Reap, DeviceRuns, MarkRuns, WorkerRuns, LateFlush, callVars
    <3>. QED  BY <3>1, <3>2 DEF Held
  <2>. QED  BY <2>1, <2>2
<1>7. fut'.pc \in {"register", "callback", "recheck", "ready", "error"} => pc' = "future"
  BY DEF Held, TypeOK,
     Next, Caller, Faults, Choices, Task, Callback, Device, Walk, WalkDone, HostWait, Mark, Flush, Join,
     Abandon, Keep, KeepFails, KeepWaits, MakePending, PendingDone, WalkFails, MarkFails, FlushFails,
     CallbackFails, PendingWaits, PendingLeak, Move, FutureDrop, Poll, Register, SetCallback, Recheck,
     Resolve, Fire, Complete, Wake, Reap, DeviceRuns, MarkRuns, WorkerRuns, LateFlush, callVars
<1>. QED  BY <1>1, <1>2, <1>3, <1>4, <1>5, <1>6, <1>7 DEF Held

LEMMA QuietStays ==
  ASSUME IInv, Next, NEW K, Quiet(K), pc # "walk" \/ UNCHANGED cst
  PROVE  Quiet(K)'
<1>1. ASSUME NEW k \in Leaves, cst[k] \in {"none", "ok", "err"}  PROVE cst'[k] \in {"none", "ok", "err"}
  BY <1>1, Stays DEF Finished
<1>. QED  BY <1>1, Constant, Shape DEF Quiet

LEMMA QuietOverall ==
  ASSUME IInv, MarkDone, NEW K
  PROVE  Quiet(K)
BY Shape DEF IInv, Passed, Finished, Quiet

LEMMA CalmStep ==
  ASSUME IInv, Next
  PROVE  Calm'
<1>0. TypeOK /\ Calm /\ Held
  BY DEF IInv
<1>. SUFFICES ASSUME pc' \in OnError \/ fut'.pc = "error"  PROVE Quiet({"vec"})'
  BY DEF Calm, OnError
<1>1. CASE pc \in OnError \/ fut.pc = "error"
  <2>1. pc # "walk"
    BY <1>0, <1>1 DEF OnError, Held
  <2>. QED  BY <1>0, <1>1, <2>1, QuietStays DEF Calm
<1>2. CASE WalkFails \/ FlushFails \/ CallbackFails
  BY <1>2, QuietStays DEF WalkFails, FlushFails, CallbackFails, devVars
<1>3. CASE MarkFails
  <2>1. Quiet({"vec"})
    BY <1>3 DEF MarkFails, Quiet, All
  <2>. QED  BY <1>3, <2>1, QuietStays DEF MarkFails, devVars
<1>4. CASE HostWait /\ pc = "host"
  <2>1. Quiet({"vec"})
    BY <1>0, <1>4
    DEF HostWait, Held, OnError
  <2>. QED  BY <1>4, <2>1, QuietStays
<1>5. CASE KeepFails
  <2>1. MarkDone /\ pc # "walk"
    BY <1>5 DEF KeepFails, KeepFailsAfter
  <2>. QED  BY <2>1, QuietOverall, QuietStays
<1>6. fut'.pc = "error" => fut.pc = "error" \/ CallbackFails
  BY <1>0
  DEF TypeOK, Next, Caller, Faults, Choices, Task, Callback, Device, Walk, WalkDone, HostWait, Mark,
   Flush, Join, Abandon, Keep, KeepFails, KeepWaits, MakePending, PendingDone, WalkFails, MarkFails, FlushFails,
   PendingWaits, PendingLeak, Move, FutureDrop, Poll, Register, SetCallback, Recheck,
   Resolve, Fire, Complete, Wake, Reap, DeviceRuns, MarkRuns, WorkerRuns, LateFlush, callVars
<1>7. pc' \in OnError =>
        \/ pc \in OnError \/ WalkFails \/ FlushFails \/ MarkFails \/ KeepFails
        \/ (HostWait /\ pc = "host")
  BY DEF OnError, Next, Caller, Faults, Choices, Task, Callback, Device, Walk, WalkDone, HostWait, Mark,
   Flush, Join, Abandon, Keep, KeepWaits, MakePending, PendingDone,
   CallbackFails, PendingWaits, PendingLeak, Move, FutureDrop, Poll, Register, SetCallback, Recheck,
   Resolve, Fire, Complete, Wake, Reap, DeviceRuns, MarkRuns, WorkerRuns, LateFlush, callVars
<1>. QED  BY <1>1, <1>2, <1>3, <1>4, <1>5, <1>6, <1>7

LEMMA BorrowedStep ==
  ASSUME IInv, Next
  PROVE  Borrowed'
<1>0. TypeOK /\ Borrowed /\ Held /\ Passed /\ Ahead /\ Typed(graph, out, term)
  BY DEF IInv
<1>1. pc' \in {"flush", "future", "join"} => Future
  <2>1. \A k \in All({"slice"}) : ~Future
    BY <1>0 DEF Typed, Future, All, Leaves
  <2>. QED
    BY <1>0
    DEF Borrowed, Future, Checked,
     Next, Caller, Faults, Choices, Task, Callback, Device, Walk, WalkDone, HostWait, Mark, Flush, Join,
     Abandon, Keep, KeepFails, KeepWaits, MakePending, PendingDone, WalkFails, MarkFails, FlushFails,
     CallbackFails, PendingWaits, PendingLeak, Move, FutureDrop, Poll, Register, SetCallback, Recheck,
     Resolve, Fire, Complete, Wake, Reap, DeviceRuns, MarkRuns, WorkerRuns, LateFlush, callVars
<1>2. pc' \in {"guard", "wait", "drop"} => term \in {"pending", "unchecked"}
  BY <1>0
  DEF Borrowed,
   Next, Caller, Faults, Choices, Task, Callback, Device, Walk, WalkDone, HostWait, Mark, Flush, Join,
   Abandon, Keep, KeepFails, KeepWaits, MakePending, PendingDone, WalkFails, MarkFails, FlushFails,
   CallbackFails, PendingWaits, PendingLeak, Move, FutureDrop, Poll, Register, SetCallback, Recheck,
   Resolve, Fire, Complete, Wake, Reap, DeviceRuns, MarkRuns, WorkerRuns, LateFlush, callVars
<1>3. fut'.pc # "parked" => Future
  BY <1>0
  DEF Borrowed, TypeOK,
   Next, Caller, Faults, Choices, Task, Callback, Device, Walk, WalkDone, HostWait, Mark, Flush, Join,
   Abandon, Keep, KeepFails, KeepWaits, MakePending, PendingDone, WalkFails, MarkFails, FlushFails,
   CallbackFails, PendingWaits, PendingLeak, Move, FutureDrop, Poll, Register, SetCallback, Recheck,
   Resolve, Fire, Complete, Wake, Reap, DeviceRuns, MarkRuns, WorkerRuns, LateFlush, callVars
<1>4. pc' = "returned" /\ term = "unchecked" => MarkDone'
  <2>1. pc' = "returned" /\ term = "unchecked" => pc = "returned" \/ PendingDone
    BY <1>0
    DEF Borrowed, Future, Held,
     Next, Caller, Faults, Choices, Task, Callback, Device, Walk, WalkDone, HostWait, Mark, Flush, Join,
     Abandon, Keep, KeepFails, KeepWaits, MakePending, PendingDone, WalkFails, MarkFails, FlushFails,
     CallbackFails, PendingWaits, PendingLeak, Move, FutureDrop, Poll, Register, SetCallback, Recheck,
     Resolve, Fire, Complete, Wake, Reap, DeviceRuns, MarkRuns, WorkerRuns, LateFlush, callVars
  <2>. QED  BY <1>0, <2>1, Stays DEF Borrowed, PendingDone, PendingOver
<1>5. ASSUME pc' \in {"mark", "keep", "guard", "wait", "drop", "returned"}, Checked,
             NEW k \in All({"slice"})
      PROVE  Finished(k)'
  <2>1. k \in Leaves
    BY Shape
  <2>2. CASE pc \in {"mark", "keep", "guard", "wait", "drop", "returned"}
    BY <1>0, <1>5, <2>1, <2>2, Stays DEF Borrowed
  <2>3. CASE HostWait
    <3>1. at > Last /\ pc = "host"
      BY <1>0, <1>5, <2>3 DEF HostWait, Passed, OnError
    <3>2. k < at
      BY <1>0, <2>1, <3>1, Shape DEF TypeOK
    <3>3. k \in Waited
      BY <1>5 DEF Waited
    <3>. QED  BY <2>1, <2>3, <3>2, <3>3, Stays DEF HostWait
  <2>. QED
    BY <1>0, <1>5, <2>2, <2>3
    DEF Checked, Future, Borrowed, Held,
     Next, Caller, Faults, Choices, Task, Callback, Device, Walk, WalkDone, HostWait, Mark, Flush, Join,
     Abandon, Keep, KeepFails, KeepWaits, MakePending, PendingDone, WalkFails, MarkFails, FlushFails,
     CallbackFails, PendingWaits, PendingLeak, Move, FutureDrop, Poll, Register, SetCallback, Recheck,
     Resolve, Fire, Complete, Wake, Reap, DeviceRuns, MarkRuns, WorkerRuns, LateFlush, callVars
<1>6. pc' \in {"join", "abandon", "failed"} => Quiet({"slice"})'
  <2>. SUFFICES ASSUME pc' \in {"join", "abandon", "failed"}  PROVE Quiet({"slice"})'
    OBVIOUS
  <2>1. CASE pc \in {"join", "abandon", "failed"}
    BY <1>0, <2>1, QuietStays DEF Borrowed
  <2>2. CASE Future
    <3>1. All({"slice"}) = {}
      BY <1>0, <2>2 DEF Typed, Future, All, Leaves
    <3>. QED  BY <3>1, Constant DEF Quiet
  <2>3. CASE MarkFails
    <3>1. Quiet({"slice"})
      BY <2>3 DEF MarkFails, Quiet, All
    <3>. QED  BY <2>3, <3>1, QuietStays DEF MarkFails, devVars
  <2>4. CASE HostWait
    <3>1. \A k \in All({"slice"}) : k < at => Finished(k)
      BY <1>0, <2>4 DEF HostWait, Waited, Checked
    <3>2. \A k \in All({"slice"}) : ~(k < at) => cst[k] = "none"
      BY <1>0, Shape DEF Ahead, TypeOK
    <3>3. Quiet({"slice"})
      BY <3>1, <3>2 DEF Quiet, Finished
    <3>. QED  BY <2>4, <3>3, QuietStays DEF HostWait
  <2>5. CASE KeepFails
    <3>1. MarkDone /\ pc # "walk"
      BY <2>5 DEF KeepFails, KeepFailsAfter
    <3>. QED  BY <3>1, QuietOverall, QuietStays
  <2>. QED
    BY <1>0, <2>1, <2>2, <2>3, <2>4, <2>5
    DEF Future, Borrowed, Held,
     Next, Caller, Faults, Choices, Task, Callback, Device, Walk, WalkDone, Mark, Flush, Join,
     Abandon, Keep, KeepWaits, MakePending, PendingDone, WalkFails, FlushFails,
     CallbackFails, PendingWaits, PendingLeak, Move, FutureDrop, Poll, Register, SetCallback, Recheck,
     Resolve, Fire, Complete, Wake, Reap, DeviceRuns, MarkRuns, WorkerRuns, LateFlush, callVars
<1>. QED  BY <1>1, <1>2, <1>3, <1>4, <1>5, <1>6, Constant DEF Borrowed

LEMMA NeverFreedStep ==
  ASSUME IInv, Next, ~Hasty, NeverFreedEarly
  PROVE  NeverFreedEarly'
<1>0. TypeOK /\ Held /\ Calm /\ Passed /\ Ahead /\ Typed(graph, out, term)
  BY DEF IInv
<1>. SUFFICES ASSUME NEW k \in All({"vec"}), mem'[k] \in {"freed", "user"}  PROVE Finished(k)'
  BY Constant DEF NeverFreedEarly, Finished
<1>1. k \in Leaves /\ (Finished(k) => Finished(k)')
  BY Shape, Stays
<1>2. CASE mem[k] \in {"freed", "user"}
  BY <1>1, <1>2 DEF NeverFreedEarly, Finished
<1>3. CASE MarkDone
  BY <1>0, <1>1, <1>3 DEF Passed
<1>4. ASSUME Quiet({"vec"}), mem[k] # "none"  PROVE Finished(k)'
  <2>1. ~(k >= at) /\ k \in Nat /\ at \in Nat
    BY <1>0, <1>1, <1>4, Shape DEF Ahead, TypeOK
  <2>2. cst[k] # "none"
    BY <1>0, <1>1, <2>1 DEF Ahead
  <2>. QED  BY <1>1, <1>4, <2>2 DEF Quiet, Finished
<1>5. CASE mem[k] \notin {"freed", "user"} /\ ~MarkDone
  <2>1. mem[k] # "none"
    BY <1>0, <1>1, <1>5
    DEF TypeOK, Moved, KeptBy, Next, Caller, Faults, Choices, Task, Callback, Device, Walk, WalkDone, HostWait, Mark,
     Flush, Join, Abandon, Keep, KeepFails, KeepWaits, MakePending, PendingDone, WalkFails, MarkFails, FlushFails,
     CallbackFails, PendingWaits, PendingLeak, Move, FutureDrop, Poll, Register, SetCallback, Recheck,
     Resolve, Fire, Complete, Wake, Reap, DeviceRuns, MarkRuns, WorkerRuns, LateFlush, callVars
  <2>2. CASE Abandon
    BY <1>0, <1>4, <2>1, <2>2 DEF Abandon, Calm, OnError
  <2>3. CASE Keep
    <3>1. mem[k] = "output" /\ term = "value"
      <4>1. mem[k] \in KeptBy => mem'[k] = "kept"
        BY <1>1, <2>3 DEF Keep
      <4>2. mem[k] \notin KeptBy /\ mem[k] # "output" => mem'[k] = mem[k]
        BY <1>1, <2>3 DEF Keep
      <4>3. mem[k] \notin KeptBy /\ mem[k] = "output" /\ term = "run" => mem'[k] = "future"
        BY <1>1, <2>3 DEF Keep
      <4>4. term \in {"submit", "value", "run"} /\ (term = "submit" => "output" \in KeptBy)
        BY <2>3 DEF Keep, KeptBy
      <4>. QED  BY <1>5, <4>1, <4>2, <4>3, <4>4
    <3>2. k \in out /\ graph[k] = "vec" /\ k \in DOMAIN graph
      BY <1>0, <1>1, <3>1 DEF Held, All, Leaves
    <3>. QED  BY <1>0, <3>1, <3>2 DEF Typed
  <2>4. CASE Reap
    <3>1. mem[k] = "reaper"
      BY <1>1, <1>5, <2>4 DEF Reap, Moved
    <3>. QED  BY <1>0, <1>1, <1>5, <3>1 DEF Held
  <2>5. CASE PendingDone
    BY <1>5, <2>5 DEF PendingDone, PendingOver
  <2>6. CASE Resolve
    BY <1>0, <1>4, <1>5, <2>1, <2>6 DEF Resolve, Held, Calm
  <2>7. CASE ~Abandon /\ ~Keep /\ ~Reap /\ ~PendingDone /\ ~Resolve
    <3>1. mem'[k] = mem[k] \/ mem'[k] \in {"graph", "output", "lent", "reaper", "kept", "pending", "leaked"}
      BY <1>0, <1>1, <2>7
      DEF TypeOK, Moved, DropTo, Next, Caller, Faults, Choices, Task, Callback, Device, Walk, WalkDone, HostWait, Mark,
       Flush, Join, KeepFails, KeepWaits, MakePending, WalkFails, MarkFails, FlushFails,
       CallbackFails, PendingWaits, PendingLeak, Move, FutureDrop, Poll, Register, SetCallback, Recheck,
       Fire, Complete, Wake, DeviceRuns, MarkRuns, WorkerRuns, LateFlush, callVars
    <3>. QED  BY <1>5, <3>1
  <2>. QED  BY <2>2, <2>3, <2>4, <2>5, <2>6, <2>7
<1>. QED  BY <1>2, <1>3, <1>5

LEMMA InitHolds == Init => IInv
<1>. SUFFICES ASSUME Init  PROVE IInv
  OBVIOUS
<1>1. graph \in Seq({"buf", "vec", "slice", "seam"}) /\ graph # <<>>
  BY TerminalsAssumption DEF Init
<1>2. Last \in Nat \ {0} /\ Leaves = 1..Last
  BY <1>1 DEF Last, Leaves
<1>3. TypeOK
  <2>1. at \in 1..(Last + 1)
    BY <1>2 DEF Init
  <2>. QED  BY <2>1 DEF Init, TypeOK
<1>4. \A k \in Leaves : ~(k < at)
  BY <1>2 DEF Init
<1>. QED
  BY <1>3, <1>4
  DEF Init, IInv, Ahead, Passed, OnError, Held, Calm, Borrowed, NeverFreedEarly, MarkDone, All

LEMMA IInvHolds == Spec => []IInv
<1>1. Init => IInv
  BY InitHolds
<1>2. ASSUME IInv, [Next]_vars  PROVE IInv'
  <2>1. CASE Next
    <3>1. (NeverFreedEarly \/ Hasty)'
      BY <2>1, <1>2, NeverFreedStep DEF IInv
    <3>2. Typed(graph, out, term)'
      BY <1>2, <2>1, Constant DEF IInv, Typed
    <3>. QED
      BY <1>2, <2>1, <3>1, <3>2, TypeStep, AheadStep, PassedStep, HeldStep, CalmStep, BorrowedStep DEF IInv
  <2>2. CASE UNCHANGED vars
    BY <1>2, <2>2
    DEF vars, const, callVars, devVars, IInv, TypeOK, Typed, Ahead, Passed, Held, Calm, Borrowed,
        NeverFreedEarly, Leaves, Last, All, MarkDone, Finished, Checked, Future, Quiet
  <2>. QED  BY <1>2, <2>1, <2>2
<1>3. IInv /\ [Next]_vars => IInv'
  BY <1>2
<1>. QED  BY <1>1, <1>3, PTL DEF Spec

-----------------------------------------------------------------------------
(* The theorems.                                                           *)

\* The variables keep their types, for any graphs and terminals (the terminals of
\* eager.rs, pending.rs, future.rs).
THEOREM TypeCorrect == Spec => []TypeOK
BY IInvHolds, PTL DEF IInv

\* Where no error is met while a download is in flight, the Vec it writes is neither
\* freed nor handed out before its command is over, whatever the graph and the
\* terminal (pending.rs; op.rs: drop_after; the drop of DeviceChainFuture).
THEOREM DownloadsOutlive ==
  ASSUME ~Hasty
  PROVE  Spec => []NeverFreedEarly
<1>1. IInv => NeverFreedEarly
  BY DEF IInv
<1>. QED  BY <1>1, IInvHolds, PTL

\* And no command uses memory the caller lent once the terminal has returned, with
\* or without an error (submit_pending_on, wait_host_transfers).
THEOREM BorrowsEnd ==
  ASSUME ~Hasty
  PROVE  Spec => []BorrowEnds
<1>1. IInv => BorrowEnds
  <2>. SUFFICES ASSUME IInv, pc \in {"guard", "wait", "drop", "returned", "failed"},
                       NEW k \in All({"slice"}),
                       ~(term = "unchecked" /\ pc \in {"guard", "wait", "drop"})
                PROVE  cst[k] \notin {"queued", "running"}
    BY DEF BorrowEnds
  <2>0. Borrowed /\ Passed /\ Typed(graph, out, term) /\ TypeOK
    BY DEF IInv
  <2>1. k \in Leaves /\ term \in {"pending", "unchecked"}
    BY <2>0, Shape DEF Typed, All, Leaves
  <2>2. CASE pc = "failed"
    BY <2>0, <2>2 DEF Borrowed, Quiet
  <2>3. CASE pc # "failed" /\ term = "pending"
    <3>1. Finished(k)
      BY <2>0, <2>3 DEF Borrowed, Checked
    <3>. QED  BY <3>1 DEF Finished
  <2>4. CASE pc = "returned" /\ term = "unchecked"
    <3>1. Finished(k)
      BY <2>0, <2>1, <2>4 DEF Borrowed, Passed
    <3>. QED  BY <3>1 DEF Finished
  <2>. QED  BY <2>1, <2>2, <2>3, <2>4
<1>. QED  BY <1>1, IInvHolds, PTL

\* When a future has resolved with its value, all its graph enqueued is over and no
\* worker is left (run_eager_chain, DeviceChainFuture::poll).
THEOREM ResolvedWaited == Spec => []ResolvedIsOver
<1>1. IInv => ResolvedIsOver
  BY DEF IInv, Held, Passed, ResolvedIsOver
<1>. QED  BY <1>1, IInvHolds, PTL

-----------------------------------------------------------------------------
(* The invariant of Queues.                                                *)

\* A queue is in one slot at most, and one that lost a race is in none.
Apart ==
  /\ \A d, e \in Devices : inorder[d] = inorder[e] /\ inorder[d] # None => d = e
  /\ \A d, e \in Devices : outorder[d] = outorder[e] /\ outorder[d] # None => d = e
  /\ \A d, e \in Devices : inorder[d] = outorder[e] => inorder[d] = None
  /\ \A d \in Devices : inorder[d] \notin lost /\ outorder[d] \notin lost

\* What a thread is about to set is known to it alone.
Own ==
  \A t \in Threads : stage[t] = "set" =>
    /\ queue[t] \notin Kept
    /\ \A u \in Threads : stage[u] = "set" /\ queue[u] = queue[t] => u = t

\* A thread that goes on has a queue; one that runs a chain, that of its device.
Sound ==
  /\ \A t \in Threads : stage[t] \notin {"idle", "create"} => queue[t] \in Made
  /\ \A t \in Threads : stage[t] \in {"chain", "failed"} =>
       \A d \in Devices : d # dev[t] => outorder[d] # queue[t]

\* A Context that is looked at is held, and one that a Queue keeps is there.
Alive ==
  /\ ctx # "held" => \A t \in Threads : stage[t] \in {"idle", "inorder", "outorder"}
  /\ ctx = "gone" => \A t \in Threads : stage[t] = "idle"

QShape == QTypeOK /\ Apart /\ Own /\ Sound /\ Alive
QInv == QShape /\ Balanced /\ Stable /\ FreshAfterEarly

-----------------------------------------------------------------------------
(* Counting owners.                                                        *)

Owns(t, q) == stage[t] \in Owning /\ queue[t] = q
One(b) == IF b THEN 1 ELSE 0

LEMMA OwnersFinite ==
  ASSUME NEW q
  PROVE  IsFiniteSet(Owners(q)) /\ Cardinality(Owners(q)) \in Nat
<1>1. Owners(q) \in SUBSET Threads
  BY DEF Owners
<1>2. IsFiniteSet(Owners(q))
  BY <1>1, FewThreads, FS_Subset
<1>. QED  BY <1>2, FS_CardinalityType

\* One thread goes where it goes: the owners of a queue are the others and, maybe, it.
LEMMA OwnersMove ==
  ASSUME QTypeOK, NEW t \in Threads, NEW w, NEW d, NEW x, GoTo(t, w, d, x), NEW q
  PROVE  Cardinality(Owners(q)') =
           Cardinality(Owners(q)) - One(Owns(t, q)) + One(w \in Owning /\ x = q)
<1>1. /\ stage' = [stage EXCEPT ![t] = w] /\ queue' = [queue EXCEPT ![t] = x]
      /\ stage \in [Threads -> Owning \cup {"idle", "create", "wrap", "failed"}]
      /\ queue \in [Threads -> Made \cup {None}]
  BY DEF GoTo, QTypeOK
<1>. DEFINE Others == Owners(q) \ {t}
<1>2. IsFiniteSet(Owners(q)) /\ Cardinality(Owners(q)) \in Nat
  BY OwnersFinite
<1>3. /\ IsFiniteSet(Others)
      /\ Cardinality(Others) = Cardinality(Owners(q)) - One(Owns(t, q))
  <2>1. t \in Owners(q) <=> Owns(t, q)
    BY DEF Owners, Owns
  <2>. QED  BY <1>2, <2>1, FS_RemoveElement DEF One
<1>4. CASE w \in Owning /\ x = q
  <2>1. Owners(q)' = Others \cup {t}
    BY <1>1, <1>4 DEF Owners
  <2>2. Cardinality(Owners(q)') = Cardinality(Others) + 1
    BY <1>3, <2>1, FS_AddElement
  <2>. QED  BY <1>3, <1>4, <2>2 DEF One
<1>5. CASE ~(w \in Owning /\ x = q)
  <2>1. Owners(q)' = Others
    BY <1>1, <1>5 DEF Owners
  <2>2. Cardinality(Others) \in Nat
    BY <1>3, FS_CardinalityType
  <2>. QED  BY <1>2, <1>3, <1>5, <2>1, <2>2 DEF One
<1>. QED  BY <1>4, <1>5

\* Nobody owns a queue that has yet to be made.
LEMMA OwnersOfNew ==
  ASSUME QTypeOK, Sound, NEW q, q \notin Made
  PROVE  Cardinality(Owners(q)) = 0 /\ \A t \in Threads : ~Owns(t, q)
<1>1. Owners(q) = {}
  BY DEF Owners, Sound, QTypeOK, Owning
<1>. QED  BY <1>1, FS_EmptySet DEF Owners, Owns

-----------------------------------------------------------------------------
(* The shape is kept.                                                      *)

LEMMA ShapeInit == QInit => QShape
<1>. SUFFICES ASSUME QInit  PROVE QShape
  OBVIOUS
<1>. USE DEF QInit, None
<1>1. QTypeOK
  BY MainIsThere DEF QTypeOK, Made, Owning
<1>2. Apart /\ Own /\ Sound /\ Alive
  BY DEF Apart, Own, Sound, Alive
<1>. QED  BY <1>1, <1>2 DEF QShape

\* A new queue, and a count that moves, leave the others alone.
LEMMA Grown ==
  ASSUME QTypeOK, NEW n \in Int, refs' = Append(refs, n)
  PROVE  /\ refs' \in Seq(Int) /\ Made' = Made \cup {Len(refs) + 1}
         /\ Len(refs) + 1 \notin Made /\ Len(refs) + 1 # None
         /\ refs'[Len(refs) + 1] = n /\ \A q \in Made : refs'[q] = refs[q]
BY DEF QTypeOK, Made, None

LEMMA Counted ==
  ASSUME QTypeOK, NEW q \in Made
  PROVE  /\ \A r : r = Retained(q) \/ r = Released(q) => r \in Seq(Int) /\ DOMAIN r = Made
         /\ \A p \in Made : Retained(q)[p] = refs[p] + One(p = q)
         /\ \A p \in Made : Released(q)[p] = refs[p] - One(p = q)
<1>. refs \in Seq(Int) /\ Made = 1..Len(refs)
  BY DEF QTypeOK, Made
<1>. QED  BY DEF Retained, Released, One

\* The slots of a thread that goes on.
LEMMA Going ==
  ASSUME QTypeOK, NEW t \in Threads, NEW w \in Owning \cup {"idle", "create", "wrap", "failed"},
         NEW d \in Devices, NEW x, GoTo(t, w, d, x), x = None \/ x \in Made'
  PROVE  /\ stage' \in [Threads -> Owning \cup {"idle", "create", "wrap", "failed"}]
         /\ dev' \in [Threads -> Devices]
         /\ Made \subseteq Made' => queue' \in [Threads -> Made' \cup {None}]
         /\ stage'[t] = w /\ dev'[t] = d /\ queue'[t] = x
         /\ \A u \in Threads \ {t} : stage'[u] = stage[u] /\ dev'[u] = dev[u] /\ queue'[u] = queue[u]
BY DEF QTypeOK, GoTo

LEMMA TypeNext ==
  ASSUME QTypeOK, Sound, [QNext]_qvars
  PROVE  QTypeOK'
<1>. USE DEF slots, threads
<1>1. ASSUME NEW t \in Threads, NEW d \in Devices, LookInorder(t, d)  PROVE QTypeOK'
  <2>1. Made' = Made
    BY <1>1 DEF LookInorder, Made
  <2>2. \E w \in {"wrap", "create"}, x \in Made \cup {None} : GoTo(t, w, d, x)
    BY <1>1 DEF LookInorder, QTypeOK
  <2>3. PICK w \in {"wrap", "create"}, x \in Made \cup {None} : GoTo(t, w, d, x)
    BY <2>2
  <2>. QED  BY <1>1, <2>1, <2>3, Going DEF LookInorder, QTypeOK
<1>2. ASSUME NEW t \in Threads, NEW d \in Devices, NEW w \in {"outorder", "chain"},
             LookOutorder(t, d, w)
      PROVE  QTypeOK'
  <2>1. CASE outorder[d] # None
    <3>1. /\ outorder[d] \in Made /\ refs' = Retained(outorder[d])
          /\ GoTo(t, w, d, outorder[d]) /\ UNCHANGED <<outorder, inorder, ctx, lost, spoiled>>
      BY <1>2, <2>1 DEF LookOutorder, QTypeOK
    <3>2. refs' \in Seq(Int) /\ Made' = Made
      BY <3>1, Counted DEF Made
    <3>. QED  BY <3>1, <3>2, Going DEF QTypeOK, Owning
  <2>2. CASE outorder[d] = None
    <3>1. /\ refs' = Append(refs, 2) /\ outorder' = [outorder EXCEPT ![d] = Len(refs) + 1]
          /\ GoTo(t, w, d, Len(refs) + 1) /\ UNCHANGED <<inorder, ctx, lost, spoiled>>
      BY <1>2, <2>2 DEF LookOutorder
    <3>2. refs' \in Seq(Int) /\ Made' = Made \cup {Len(refs) + 1}
      BY <3>1, Grown
    <3>. QED  BY <3>1, <3>2, Going DEF QTypeOK, Owning
  <2>. QED  BY <2>1, <2>2
<1>3. ASSUME NEW t \in Threads, NEW d \in Devices, LookOutorderRefused(t, d)  PROVE QTypeOK'
  <2>1. refs' \in Seq(Int) /\ Made' = Made \cup {Len(refs) + 1}
    BY <1>3, Grown DEF LookOutorderRefused
  <2>. QED  BY <1>3, <2>1 DEF LookOutorderRefused, QTypeOK
<1>4. ASSUME NEW t \in Threads, CreateInorder(t)  PROVE QTypeOK'
  <2>1. refs' \in Seq(Int) /\ Made' = Made \cup {Len(refs) + 1}
    BY <1>4, Grown DEF CreateInorder
  <2>2. dev[t] \in Devices
    BY DEF QTypeOK
  <2>. QED  BY <1>4, <2>1, <2>2, Going DEF CreateInorder, QTypeOK, Owning
<1>5. ASSUME NEW t \in Threads, SetInorder(t)  PROVE QTypeOK'
  <2>1. Made' = Made /\ dev[t] \in Devices /\ queue[t] \in Made /\ Winner(t) \in Made
    BY <1>5 DEF SetInorder, Made, QTypeOK, Sound, Winner
  <2>2. inorder' \in [Devices -> Made \cup {None}] /\ lost' \subseteq Made
    BY <1>5, <2>1 DEF SetInorder, QTypeOK
  <2>3. GoTo(t, "wrap", dev[t], Winner(t)) /\ UNCHANGED <<refs, outorder, ctx, spoiled>>
    BY <1>5 DEF SetInorder
  <2>. QED  BY <2>1, <2>2, <2>3, Going DEF QTypeOK
<1>6. ASSUME NEW t \in Threads, Wrap(t)  PROVE QTypeOK'
  <2>1. dev[t] \in Devices /\ queue[t] \in Made
    BY <1>6 DEF Wrap, QTypeOK, Sound
  <2>2. refs' \in Seq(Int) /\ Made' = Made
    BY <1>6, <2>1, Counted DEF Wrap, Made
  <2>. QED  BY <1>6, <2>1, <2>2, Going DEF Wrap, QTypeOK, Owning
<1>7. ASSUME NEW t \in Threads, Refused(t)  PROVE QTypeOK'
  <2>1. Made' = Made
    BY <1>7 DEF Refused, Made
  <2>. QED  BY <1>7, <2>1, Going, MainIsThere DEF Refused, Back, QTypeOK
<1>8. ASSUME NEW t \in Threads, DropQueue(t) \/ FailsEarly(t)
                                \/ \E where \in {"late", "sync"} : FailsLate(t, where)
      PROVE  QTypeOK'
  <2>1. stage[t] \in {"inorder", "outorder", "chain"} /\ refs' = Released(queue[t])
    BY <1>8 DEF DropQueue, FailsEarly, FailsLate
  <2>2. dev[t] \in Devices /\ queue[t] \in Made
    BY <2>1 DEF QTypeOK, Sound
  <2>3. refs' \in Seq(Int) /\ Made' = Made
    BY <2>1, <2>2, Counted DEF Made
  <2>4. CASE DropQueue(t)
    BY <2>2, <2>3, <2>4, Going, MainIsThere DEF DropQueue, Back, QTypeOK
  <2>5. CASE FailsEarly(t)
    BY <2>2, <2>3, <2>5, Going DEF FailsEarly, QTypeOK
  <2>6. ASSUME NEW where \in {"late", "sync"}, FailsLate(t, where)  PROVE QTypeOK'
    <3>1. GoTo(t, "idle", Main, None) /\ UNCHANGED <<inorder, outorder, ctx, lost>>
      BY <2>6 DEF FailsLate, Back
    <3>2. spoiled' \subseteq Made \X {"early", "late", "sync"}
      BY <2>2, <2>6 DEF FailsLate, QTypeOK
    <3>. QED  BY <2>3, <3>1, <3>2, Going, MainIsThere DEF QTypeOK
  <2>. QED  BY <1>8, <2>4, <2>5, <2>6
<1>9. ASSUME NEW t \in Threads, Invalidate(t)  PROVE QTypeOK'
  <2>1. dev[t] \in Devices /\ queue[t] \in Made
    BY <1>9 DEF Invalidate, QTypeOK, Sound
  <2>2. refs' \in Seq(Int) /\ Made' = Made /\ outorder' \in [Devices -> Made \cup {None}]
    <3>1. CASE outorder[dev[t]] # None
      <4>1. /\ outorder[dev[t]] \in Made /\ refs' = Released(outorder[dev[t]])
            /\ outorder' = [outorder EXCEPT ![dev[t]] = None]
        BY <1>9, <2>1, <3>1 DEF Invalidate, Stale, QTypeOK
      <4>. QED  BY <4>1, Counted DEF Made, QTypeOK
    <3>2. CASE outorder[dev[t]] = None
      BY <1>9, <3>2 DEF Invalidate, Stale, QTypeOK, Made
    <3>. QED  BY <3>1, <3>2
  <2>3. GoTo(t, "idle", Main, None) /\ UNCHANGED <<inorder, ctx, lost>>
    BY <1>9 DEF Invalidate, Back
  <2>4. spoiled' \subseteq Made \X {"early", "late", "sync"}
    BY <1>9, <2>1 DEF Invalidate, QTypeOK
  <2>. QED  BY <2>2, <2>3, <2>4, Going, MainIsThere DEF QTypeOK
<1>10. ASSUME DropContext \/ DropInner  PROVE QTypeOK'
  <2>1. refs' \in Seq(Int) /\ Made' = Made
    BY <1>10 DEF DropContext, DropInner, QTypeOK, Made
  <2>. QED  BY <1>10, <2>1 DEF DropContext, DropInner, QTypeOK
<1>11. CASE UNCHANGED qvars
  BY <1>11 DEF qvars, QTypeOK, Made
<1>12. CASE QNext
  BY <1>1, <1>2, <1>3, <1>4, <1>5, <1>6, <1>7, <1>8, <1>9, <1>10, <1>12, MainIsThere DEF QNext
<1>. QED  BY <1>11, <1>12

LEMMA ApartNext ==
  ASSUME QShape, [QNext]_qvars
  PROVE  Apart' /\ Own' /\ Sound' /\ Alive'
<1>. QTypeOK /\ Apart /\ Own /\ Sound /\ Alive
  BY DEF QShape
<1>. USE DEF slots, threads
<1>. DEFINE Rest == Apart' /\ Own' /\ Sound' /\ Alive'
            Others(t) == \A u \in Threads \ {t} :
                           stage'[u] = stage[u] /\ dev'[u] = dev[u] /\ queue'[u] = queue[u]
<1>1. ASSUME NEW t \in Threads, NEW d \in Devices, LookInorder(t, d)  PROVE Rest
  <2>1. Made' = Made /\ Cached' = Cached /\ Kept' = Kept
    BY <1>1 DEF LookInorder, Made, Cached, Kept
  <2>2. \E w \in {"wrap", "create"}, x \in Made \cup {None} :
          GoTo(t, w, d, x) /\ (w = "wrap" => x # None)
    BY <1>1 DEF LookInorder, QTypeOK
  <2>3. PICK w \in {"wrap", "create"}, x \in Made \cup {None} :
          GoTo(t, w, d, x) /\ (w = "wrap" => x # None)
    BY <2>2
  <2>4. stage'[t] = w /\ dev'[t] = d /\ queue'[t] = x /\ Others(t)
    BY <2>1, <2>3, Going DEF Owning
  <2>. HIDE DEF Others
  <2>5. Apart' /\ Alive'
    BY <1>1 DEF LookInorder, Apart, Alive, Free
  <2>6. Own' /\ Sound'
    BY <1>1, <2>1, <2>3, <2>4 DEF LookInorder, Own, Sound, Others
  <2>. QED  BY <2>5, <2>6
<1>2. ASSUME NEW t \in Threads, NEW d \in Devices, NEW w \in {"outorder", "chain"},
             LookOutorder(t, d, w)
      PROVE  Rest
  <2>0. Alive'
    BY <1>2 DEF LookOutorder, Alive, Free
  <2>1. CASE outorder[d] # None
    <3>1. /\ outorder[d] \in Made /\ refs' = Retained(outorder[d])
          /\ GoTo(t, w, d, outorder[d]) /\ UNCHANGED <<outorder, inorder, ctx, lost, spoiled>>
      BY <1>2, <2>1 DEF LookOutorder, QTypeOK
    <3>2. Made' = Made /\ Kept' = Kept
      BY <3>1, Counted DEF Made, Kept, Cached
    <3>3. stage'[t] = w /\ dev'[t] = d /\ queue'[t] = outorder[d] /\ Others(t)
      BY <3>1, <3>2, Going DEF Owning
    <3>4. Own' /\ Apart'
      BY <3>1, <3>2, <3>3 DEF Own, Apart
    <3>5. Sound'
      BY <2>1, <3>1, <3>2, <3>3 DEF Sound, Apart
    <3>. QED  BY <2>0, <3>4, <3>5
  <2>2. CASE outorder[d] = None
    <3>1. /\ refs' = Append(refs, 2) /\ outorder' = [outorder EXCEPT ![d] = Len(refs) + 1]
          /\ GoTo(t, w, d, Len(refs) + 1) /\ UNCHANGED <<inorder, ctx, lost, spoiled>>
      BY <1>2, <2>2 DEF LookOutorder
    <3>2. Made' = Made \cup {Len(refs) + 1} /\ Len(refs) + 1 \notin Made /\ Len(refs) + 1 # None
      BY <3>1, Grown
    <3>3. stage'[t] = w /\ dev'[t] = d /\ queue'[t] = Len(refs) + 1 /\ Others(t)
      BY <3>1, <3>2, Going DEF Owning
    <3>4. Kept' \subseteq Kept \cup {Len(refs) + 1}
      BY <3>1, <3>2 DEF Kept, Cached, QTypeOK
    <3>5. Apart'
      BY <3>1, <3>2 DEF Apart, QTypeOK
    <3>6. Own' /\ Sound'
      BY <3>1, <3>2, <3>3, <3>4 DEF Own, Sound, QTypeOK
    <3>. QED  BY <2>0, <3>5, <3>6
  <2>. QED  BY <2>1, <2>2
<1>3. ASSUME NEW t \in Threads, NEW d \in Devices, LookOutorderRefused(t, d)  PROVE Rest
  <2>1. /\ refs' = Append(refs, 1) /\ outorder' = [outorder EXCEPT ![d] = Len(refs) + 1]
        /\ UNCHANGED <<inorder, ctx, threads, lost, spoiled>>
    BY <1>3 DEF LookOutorderRefused
  <2>2. Made' = Made \cup {Len(refs) + 1} /\ Len(refs) + 1 \notin Made /\ Len(refs) + 1 # None
    BY <2>1, Grown
  <2>3. Kept' \subseteq Kept \cup {Len(refs) + 1}
    BY <2>1, <2>2 DEF Kept, Cached, QTypeOK
  <2>4. Apart' /\ Alive'
    BY <2>1, <2>2 DEF Apart, Alive, QTypeOK
  <2>5. Own' /\ Sound'
    BY <2>1, <2>2, <2>3 DEF Own, Sound, QTypeOK
  <2>. QED  BY <2>4, <2>5
<1>4. ASSUME NEW t \in Threads, CreateInorder(t)  PROVE Rest
  <2>1. /\ refs' = Append(refs, 1) /\ GoTo(t, "set", dev[t], Len(refs) + 1)
        /\ UNCHANGED <<inorder, outorder, ctx, lost, spoiled>> /\ dev[t] \in Devices
    BY <1>4 DEF CreateInorder, QTypeOK
  <2>2. Made' = Made \cup {Len(refs) + 1} /\ Len(refs) + 1 \notin Made /\ Len(refs) + 1 # None
    BY <2>1, Grown
  <2>3. stage'[t] = "set" /\ dev'[t] = dev[t] /\ queue'[t] = Len(refs) + 1 /\ Others(t)
    BY <2>1, <2>2, Going DEF Owning
  <2>4. Kept' = Kept /\ Kept \subseteq Made
    BY <2>1 DEF Kept, Cached, QTypeOK
  <2>5. Apart' /\ Alive'
    BY <1>4, <2>1, <2>3 DEF Apart, Alive, CreateInorder
  <2>6. Sound'
    BY <2>1, <2>2, <2>3 DEF Sound
  <2>7. \A u \in Threads \ {t} : stage[u] = "set" => queue[u] # Len(refs) + 1
    BY <2>2 DEF Sound
  <2>8. Own'
    BY <2>2, <2>3, <2>4, <2>7 DEF Own
  <2>. QED  BY <2>5, <2>6, <2>8
<1>5. ASSUME NEW t \in Threads, SetInorder(t)  PROVE Rest
  <2>1. /\ Made' = Made /\ dev[t] \in Devices /\ queue[t] \in Made /\ Winner(t) \in Made
        /\ queue[t] # None /\ queue[t] \notin Kept /\ ctx = "held" /\ Winner(t) # None
    BY <1>5 DEF SetInorder, Made, QTypeOK, Sound, Winner, Own, Alive, None
  <2>2. GoTo(t, "wrap", dev[t], Winner(t)) /\ UNCHANGED <<refs, outorder, ctx, spoiled>>
    BY <1>5 DEF SetInorder
  <2>3. stage'[t] = "wrap" /\ dev'[t] = dev[t] /\ queue'[t] = Winner(t) /\ Others(t)
    BY <2>1, <2>2, Going DEF Owning
  <2>4. Kept' = Kept \cup {queue[t]}
    BY <1>5, <2>1, <2>2 DEF SetInorder, Kept, Cached, QTypeOK
  <2>5. Apart'
    <3>0. /\ queue[t] \notin lost
          /\ \A d \in Devices : inorder[d] # queue[t] /\ outorder[d] # queue[t]
      BY <2>1 DEF Kept, Cached
    <3>1. CASE inorder[dev[t]] = None
      <4>1. inorder' = [inorder EXCEPT ![dev[t]] = queue[t]] /\ UNCHANGED <<outorder, lost>>
        BY <1>5, <3>1 DEF SetInorder
      <4>. QED  BY <2>1, <3>0, <4>1 DEF Apart, QTypeOK
    <3>2. CASE inorder[dev[t]] # None
      <4>1. lost' = lost \cup {queue[t]} /\ UNCHANGED <<inorder, outorder>>
        BY <1>5, <3>2 DEF SetInorder
      <4>. QED  BY <3>0, <4>1 DEF Apart
    <3>. QED  BY <3>1, <3>2
  <2>6. Alive' /\ Sound'
    BY <2>1, <2>2, <2>3 DEF Alive, Sound
  <2>7. Own'
    BY <1>5, <2>1, <2>3, <2>4 DEF Own, SetInorder
  <2>. QED  BY <2>5, <2>6, <2>7
<1>6. ASSUME NEW t \in Threads, Wrap(t)  PROVE Rest
  <2>1. /\ dev[t] \in Devices /\ queue[t] \in Made /\ refs' = Retained(queue[t])
        /\ GoTo(t, "inorder", dev[t], queue[t])
        /\ UNCHANGED <<inorder, outorder, ctx, lost, spoiled>>
    BY <1>6 DEF Wrap, QTypeOK, Sound
  <2>2. Made' = Made /\ Kept' = Kept
    BY <2>1, Counted DEF Made, Kept, Cached
  <2>3. stage'[t] = "inorder" /\ dev'[t] = dev[t] /\ queue'[t] = queue[t] /\ Others(t)
    BY <2>1, <2>2, Going DEF Owning
  <2>4. Apart' /\ Alive'
    BY <1>6, <2>1, <2>3 DEF Apart, Alive, Wrap
  <2>5. Own' /\ Sound'
    BY <2>1, <2>2, <2>3 DEF Own, Sound
  <2>. QED  BY <2>4, <2>5
<1>7. ASSUME NEW t \in Threads, Refused(t)  PROVE Rest
  <2>1. /\ GoTo(t, "idle", Main, None) /\ Made' = Made /\ Kept' = Kept
        /\ UNCHANGED <<inorder, outorder, ctx, lost, spoiled>>
    BY <1>7 DEF Refused, Back, Made, Kept, Cached
  <2>2. stage'[t] = "idle" /\ Others(t)
    BY <2>1, Going, MainIsThere
  <2>3. Apart' /\ Alive'
    BY <2>1, <2>2 DEF Apart, Alive
  <2>4. Own' /\ Sound'
    BY <2>1, <2>2 DEF Own, Sound
  <2>. QED  BY <2>3, <2>4
<1>8. ASSUME NEW t \in Threads, DropQueue(t) \/ FailsEarly(t)
                                \/ \E where \in {"late", "sync"} : FailsLate(t, where)
      PROVE  Rest
  <2>1. /\ stage[t] \in {"inorder", "outorder", "chain"} /\ refs' = Released(queue[t])
        /\ UNCHANGED <<inorder, outorder, ctx, lost>>
        /\ \/ GoTo(t, "idle", Main, None)
           \/ GoTo(t, "failed", dev[t], queue[t]) /\ stage[t] = "chain"
    BY <1>8 DEF DropQueue, FailsEarly, FailsLate, Back
  <2>2. dev[t] \in Devices /\ queue[t] \in Made
    BY <2>1 DEF QTypeOK, Sound
  <2>3. Made' = Made /\ Kept' = Kept
    BY <2>1, <2>2, Counted DEF Made, Kept, Cached
  <2>4. /\ Others(t) /\ dev'[t] \in Devices
        /\ \/ stage'[t] = "idle"
           \/ stage'[t] = "failed" /\ stage[t] = "chain" /\ dev'[t] = dev[t] /\ queue'[t] = queue[t]
    BY <2>1, <2>2, <2>3, Going, MainIsThere
  <2>5. Apart' /\ Alive'
    BY <2>1, <2>4 DEF Apart, Alive
  <2>6. Own' /\ Sound'
    BY <2>1, <2>2, <2>3, <2>4 DEF Own, Sound
  <2>. QED  BY <2>5, <2>6
<1>9. ASSUME NEW t \in Threads, Invalidate(t)  PROVE Rest
  <2>1. /\ dev[t] \in Devices /\ GoTo(t, "idle", Main, None) /\ UNCHANGED <<inorder, ctx, lost>>
        /\ ctx = "held"
    BY <1>9 DEF Invalidate, Back, QTypeOK, Alive
  <2>2. /\ Made' = Made
        /\ \A d \in Devices : outorder'[d] = outorder[d] \/ outorder'[d] = None
    <3>1. CASE outorder[dev[t]] # None
      <4>1. /\ outorder[dev[t]] \in Made /\ refs' = Released(outorder[dev[t]])
            /\ outorder' = [outorder EXCEPT ![dev[t]] = None]
        BY <1>9, <2>1, <3>1 DEF Invalidate, Stale, QTypeOK
      <4>. QED  BY <2>1, <4>1, Counted DEF Made, QTypeOK
    <3>2. CASE outorder[dev[t]] = None
      BY <1>9, <3>2 DEF Invalidate, Stale, Made
    <3>. QED  BY <3>1, <3>2
  <2>3. Kept' \subseteq Kept
    BY <2>1, <2>2 DEF Kept, Cached
  <2>4. stage'[t] = "idle" /\ Others(t)
    BY <2>1, Going, MainIsThere
  <2>5. Alive'
    BY <2>1, <2>4 DEF Alive
  <2>6. None \notin lost /\ None \notin Made
    BY DEF QTypeOK, Made, None
  <2>7. Apart'
    BY <2>1, <2>2, <2>6 DEF Apart
  <2>8. Own'
    BY <2>3, <2>4 DEF Own
  <2>9. Sound'
    BY <2>2, <2>4, <2>6 DEF Sound
  <2>. QED  BY <2>5, <2>7, <2>8, <2>9
<1>10. ASSUME DropContext \/ DropInner  PROVE Rest
  <2>1. Made' = Made /\ Kept' \subseteq Kept /\ UNCHANGED <<inorder, outorder, threads, lost>>
    BY <1>10 DEF DropContext, DropInner, QTypeOK, Made, Kept, Cached
  <2>2. Apart' /\ Own' /\ Sound'
    BY <2>1 DEF Apart, Own, Sound
  <2>3. Alive'
    BY <1>10 DEF Alive, DropContext, DropInner
  <2>. QED  BY <2>2, <2>3
<1>11. CASE UNCHANGED qvars
  BY <1>11 DEF qvars, Apart, Own, Sound, Alive, Made, Kept, Cached
<1>12. CASE QNext
  BY <1>1, <1>2, <1>3, <1>4, <1>5, <1>6, <1>7, <1>8, <1>9, <1>10, <1>12, MainIsThere DEF QNext
<1>. QED  BY <1>11, <1>12

LEMMA ShapeNext == QShape /\ [QNext]_qvars => QShape'
BY TypeNext, ApartNext DEF QShape

-----------------------------------------------------------------------------
(* The counts balance.                                                     *)

\* A step of one thread on the queues that are there: the counts follow the owner.
LEMMA BalancedMove ==
  ASSUME QTypeOK, QTypeOK', Balanced, NEW t \in Threads, NEW w, NEW d, NEW x, GoTo(t, w, d, x),
         Made' = Made,
         \A q \in Made : refs'[q] - One(q \in Kept') - One(w \in Owning /\ x = q)
                       = refs[q] - One(q \in Kept) - One(Owns(t, q))
  PROVE  Balanced'
<1>. SUFFICES ASSUME NEW q \in Made
              PROVE  refs'[q] = Cardinality(Owners(q)') + One(q \in Kept')
  BY DEF Balanced, One
<1>1. Cardinality(Owners(q)') = Cardinality(Owners(q)) - One(Owns(t, q)) + One(w \in Owning /\ x = q)
  BY OwnersMove
<1>2. refs[q] = Cardinality(Owners(q)) + One(q \in Kept)
  BY DEF Balanced, One
<1>3. refs'[q] - One(q \in Kept') - One(w \in Owning /\ x = q)
        = refs[q] - One(q \in Kept) - One(Owns(t, q))
  OBVIOUS
<1>4. Cardinality(Owners(q)) \in Nat /\ \A b : One(b) \in {0, 1}
  BY OwnersFinite DEF One
<1>5. refs'[q] \in Int
  BY DEF QTypeOK, Made
<1>. QED  BY <1>1, <1>2, <1>3, <1>4, <1>5 DEF One

\* A step that makes a queue: its count is what it is kept by and owned by.
LEMMA BalancedGrown ==
  ASSUME QTypeOK, Sound, Balanced, NEW t \in Threads, NEW w, NEW d, GoTo(t, w, d, Len(refs) + 1),
         w \in Owning, NEW n \in {1, 2}, refs' = Append(refs, n),
         \A q \in Made : q \in Kept' <=> q \in Kept,
         n = 1 + One(Len(refs) + 1 \in Kept'), \A q : ~Owns(t, q)
  PROVE  Balanced'
<1>. PICK new : new = Len(refs) + 1
  OBVIOUS
<1>1. Made' = Made \cup {new} /\ new \notin Made /\ refs'[new] = n
      /\ \A q \in Made : refs'[q] = refs[q]
  <2>1. n \in Int
    OBVIOUS
  <2>. QED  BY <2>1, Grown
<1>2. \A q : Cardinality(Owners(q)') =
               Cardinality(Owners(q)) - One(Owns(t, q)) + One(w \in Owning /\ new = q)
  BY OwnersMove
<1>3. \A q : Cardinality(Owners(q)) \in Nat
  BY OwnersFinite
<1>4. Cardinality(Owners(new)) = 0
  BY <1>1, OwnersOfNew
<1>5. Cardinality(Owners(new)') = 1
  <2>1. Cardinality(Owners(new)') = 0 - One(Owns(t, new)) + One(w \in Owning /\ new = new)
    BY <1>2, <1>4
  <2>2. One(Owns(t, new)) = 0 /\ One(w \in Owning /\ new = new) = 1
    BY DEF One
  <2>. QED  BY <2>1, <2>2
<1>6. \A q \in Made : Cardinality(Owners(q)') = Cardinality(Owners(q))
  BY <1>1, <1>2, <1>3 DEF One
<1>7. refs'[new] = Cardinality(Owners(new)') + (IF new \in Kept' THEN 1 ELSE 0)
  BY <1>1, <1>5 DEF One
<1>8. \A q \in Made : refs'[q] = Cardinality(Owners(q)') + (IF q \in Kept' THEN 1 ELSE 0)
  BY <1>1, <1>6 DEF Balanced
<1>9. \A q \in Made' : refs'[q] = Cardinality(Owners(q)') + (IF q \in Kept' THEN 1 ELSE 0)
  BY <1>1, <1>7, <1>8
<1>. QED  BY <1>9 DEF Balanced

LEMMA BalancedNext ==
  ASSUME QShape, Balanced, [QNext]_qvars
  PROVE  Balanced'
<1>. QTypeOK /\ Apart /\ Own /\ Sound /\ Alive /\ QTypeOK'
  BY TypeNext DEF QShape
<1>. USE DEF slots, threads
<1>1. ASSUME NEW t \in Threads, NEW d \in Devices, LookInorder(t, d)  PROVE Balanced'
  <2>1. Made' = Made /\ Kept' = Kept /\ refs' = refs /\ stage[t] = "idle"
    BY <1>1 DEF LookInorder, Made, Cached, Kept, Free
  <2>2. PICK w, x : w \in {"wrap", "create"} /\ GoTo(t, w, d, x)
    BY <1>1 DEF LookInorder
  <2>3. \A q \in Made : ~Owns(t, q) /\ w \notin Owning
    BY <2>1, <2>2 DEF Owns, Owning
  <2>. QED  BY <2>1, <2>2, <2>3, BalancedMove DEF One
<1>2. ASSUME NEW t \in Threads, NEW d \in Devices, NEW w \in {"outorder", "chain"},
             LookOutorder(t, d, w)
      PROVE  Balanced'
  <2>0. stage[t] = "idle" /\ ctx = "held" /\ \A q : ~Owns(t, q)
    BY <1>2 DEF LookOutorder, Free, Owns, Owning
  <2>1. CASE outorder[d] # None
    <3>1. /\ outorder[d] \in Made /\ refs' = Retained(outorder[d])
          /\ GoTo(t, w, d, outorder[d]) /\ UNCHANGED <<outorder, inorder, ctx, lost, spoiled>>
      BY <1>2, <2>1 DEF LookOutorder, QTypeOK
    <3>2. Made' = Made /\ Kept' = Kept
      BY <3>1, Counted DEF Made, Kept, Cached
    <3>3. \A q \in Made : refs[q] \in Int /\ refs'[q] = refs[q] + One(q = outorder[d])
      BY <3>1, Counted DEF QTypeOK, Made
    <3>4. \A q \in Made : One(w \in Owning /\ outorder[d] = q) = One(q = outorder[d])
      BY DEF One, Owning
    <3>. QED  BY <2>0, <3>1, <3>2, <3>3, <3>4, BalancedMove DEF One
  <2>2. CASE outorder[d] = None
    <3>1. /\ refs' = Append(refs, 2) /\ outorder' = [outorder EXCEPT ![d] = Len(refs) + 1]
          /\ GoTo(t, w, d, Len(refs) + 1) /\ UNCHANGED <<inorder, ctx, lost, spoiled>>
      BY <1>2, <2>2 DEF LookOutorder
    <3>2. Kept' = Kept \cup {Len(refs) + 1}
      <4>1. Cached' = Cached \cup {Len(refs) + 1}
        BY <2>2, <3>1, Grown DEF Cached, QTypeOK
      <4>. QED  BY <2>0, <3>1, <4>1 DEF Kept
    <3>3. Len(refs) + 1 \notin Made
      BY <3>1, Grown
    <3>4. /\ \A q \in Made : q \in Kept' <=> q \in Kept
          /\ 2 = 1 + One(Len(refs) + 1 \in Kept') /\ w \in Owning
      BY <3>2, <3>3 DEF One, Owning
    <3>. QED  BY <2>0, <3>1, <3>4, BalancedGrown
  <2>. QED  BY <2>1, <2>2
<1>3. ASSUME NEW t \in Threads, NEW d \in Devices, LookOutorderRefused(t, d)  PROVE Balanced'
  <2>1. /\ refs' = Append(refs, 1) /\ outorder' = [outorder EXCEPT ![d] = Len(refs) + 1]
        /\ UNCHANGED <<inorder, ctx, threads, lost, spoiled>> /\ ctx = "held"
        /\ outorder[d] = None
    BY <1>3 DEF LookOutorderRefused, Free
  <2>2. Made' = Made \cup {Len(refs) + 1} /\ Len(refs) + 1 \notin Made
    BY <2>1, Grown
  <2>3. Kept' = Kept \cup {Len(refs) + 1}
    <3>1. Cached' = Cached \cup {Len(refs) + 1}
      BY <2>1, Grown DEF Cached, QTypeOK
    <3>. QED  BY <2>1, <3>1 DEF Kept
  <2>4. \A q : Owners(q)' = Owners(q)
    BY <2>1 DEF Owners
  <2>5. Cardinality(Owners(Len(refs) + 1)) = 0
    BY <2>2, OwnersOfNew
  <2>6. refs'[Len(refs) + 1] = 1 /\ \A q \in Made : refs'[q] = refs[q]
    <3>1. refs' = Append(refs, 1) /\ 1 \in Int
      BY <2>1
    <3>. QED  BY <3>1, Grown
  <2>. QED  BY <2>2, <2>3, <2>4, <2>5, <2>6 DEF Balanced
<1>4. ASSUME NEW t \in Threads, CreateInorder(t)  PROVE Balanced'
  <2>1. /\ refs' = Append(refs, 1) /\ GoTo(t, "set", dev[t], Len(refs) + 1)
        /\ UNCHANGED <<inorder, outorder, ctx, lost, spoiled>>
        /\ Kept' = Kept /\ \A q : ~Owns(t, q)
    BY <1>4 DEF CreateInorder, Owns, Owning, Kept, Cached
  <2>2. Len(refs) + 1 \notin Kept
    BY DEF Kept, Cached, QTypeOK, Made
  <2>. QED  BY <2>1, <2>2, BalancedGrown DEF Owning, One
<1>5. ASSUME NEW t \in Threads, SetInorder(t)  PROVE Balanced'
  <2>1. /\ Made' = Made /\ refs' = refs /\ queue[t] \in Made /\ dev[t] \in Devices
        /\ queue[t] # None /\ queue[t] \notin Kept /\ ctx = "held" /\ stage[t] = "set"
    <3>1. queue[t] \in Made /\ queue[t] # None /\ dev[t] \in Devices
      BY <1>5 DEF SetInorder, Made, QTypeOK, Sound, None
    <3>2. stage[t] = "set" /\ UNCHANGED refs
      BY <1>5 DEF SetInorder
    <3>. QED  BY <3>1, <3>2 DEF Made, Own, Alive
  <2>2. GoTo(t, "wrap", dev[t], Winner(t))
    BY <1>5 DEF SetInorder
  <2>3. Kept' = Kept \cup {queue[t]}
    BY <1>5, <2>1 DEF SetInorder, Kept, Cached, QTypeOK
  <2>4. \A q : Owns(t, q) <=> q = queue[t]
    BY <2>1 DEF Owns, Owning
  <2>5. \A q \in Made : refs[q] \in Int
    BY DEF QTypeOK, Made
  <2>6. \A q \in Made : refs'[q] - One(q \in Kept') - One("wrap" \in Owning /\ Winner(t) = q)
                         = refs[q] - One(q \in Kept) - One(Owns(t, q))
    BY <2>1, <2>3, <2>4, <2>5 DEF One, Owning
  <2>. QED  BY <2>1, <2>2, <2>6, BalancedMove
<1>6. ASSUME NEW t \in Threads, Wrap(t)  PROVE Balanced'
  <2>1. /\ dev[t] \in Devices /\ queue[t] \in Made /\ refs' = Retained(queue[t])
        /\ GoTo(t, "inorder", dev[t], queue[t]) /\ stage[t] = "wrap"
        /\ UNCHANGED <<inorder, outorder, ctx, lost, spoiled>>
    BY <1>6 DEF Wrap, QTypeOK, Sound
  <2>2. Made' = Made /\ Kept' = Kept
    BY <2>1, Counted DEF Made, Kept, Cached
  <2>3. \A q \in Made : refs[q] \in Int /\ refs'[q] = refs[q] + One(q = queue[t])
    BY <2>1, Counted DEF QTypeOK, Made
  <2>4. \A q : ~Owns(t, q)
    BY <2>1 DEF Owns, Owning
  <2>5. \A q \in Made : refs'[q] - One(q \in Kept') - One("inorder" \in Owning /\ queue[t] = q)
                         = refs[q] - One(q \in Kept) - One(Owns(t, q))
    BY <2>2, <2>3, <2>4 DEF One, Owning
  <2>. QED  BY <2>1, <2>2, <2>5, BalancedMove
<1>7. ASSUME NEW t \in Threads, Refused(t)  PROVE Balanced'
  <2>1. /\ GoTo(t, "idle", Main, None) /\ Made' = Made /\ Kept' = Kept /\ refs' = refs
        /\ stage[t] \notin Owning
    BY <1>7 DEF Refused, Back, Made, Kept, Cached, Owning
  <2>2. \A q \in Made : ~Owns(t, q) /\ "idle" \notin Owning
    BY <2>1 DEF Owns, Owning
  <2>. QED  BY <2>1, <2>2, BalancedMove DEF One
<1>8. ASSUME NEW t \in Threads, DropQueue(t) \/ FailsEarly(t)
                                \/ \E where \in {"late", "sync"} : FailsLate(t, where)
      PROVE  Balanced'
  <2>1. /\ stage[t] \in {"inorder", "outorder", "chain"} /\ refs' = Released(queue[t])
        /\ UNCHANGED <<inorder, outorder, ctx, lost>>
        /\ \E w, d, x : w \in {"idle", "failed"} /\ GoTo(t, w, d, x)
    BY <1>8 DEF DropQueue, FailsEarly, FailsLate, Back
  <2>2. PICK w, d, x : w \in {"idle", "failed"} /\ GoTo(t, w, d, x)
    BY <2>1
  <2>3. queue[t] \in Made
    BY <2>1 DEF QTypeOK, Sound
  <2>4. Made' = Made /\ Kept' = Kept
    BY <2>1, <2>3, Counted DEF Made, Kept, Cached
  <2>5. \A q \in Made : refs[q] \in Int /\ refs'[q] = refs[q] - One(q = queue[t])
    BY <2>1, <2>3, Counted DEF QTypeOK, Made
  <2>6. \A q : Owns(t, q) <=> q = queue[t]
    BY <2>1 DEF Owns, Owning
  <2>7. \A q \in Made : refs'[q] - One(q \in Kept') - One(w \in Owning /\ x = q)
                         = refs[q] - One(q \in Kept) - One(Owns(t, q))
    BY <2>2, <2>4, <2>5, <2>6 DEF One, Owning
  <2>. QED  BY <2>2, <2>4, <2>7, BalancedMove
<1>9. ASSUME NEW t \in Threads, Invalidate(t)  PROVE Balanced'
  <2>1. /\ dev[t] \in Devices /\ GoTo(t, "idle", Main, None) /\ UNCHANGED <<inorder, ctx, lost>>
        /\ ctx = "held" /\ stage[t] = "failed"
    BY <1>9 DEF Invalidate, Back, QTypeOK, Alive
  <2>2. \A q : ~Owns(t, q) /\ "idle" \notin Owning
    BY <2>1 DEF Owns, Owning
  <2>3. CASE outorder[dev[t]] # None
    <3>1. /\ outorder[dev[t]] \in Made /\ refs' = Released(outorder[dev[t]])
          /\ outorder' = [outorder EXCEPT ![dev[t]] = None]
      BY <1>9, <2>1, <2>3 DEF Invalidate, Stale, QTypeOK
    <3>2. Made' = Made
      BY <3>1, Counted DEF Made
    <3>3. Kept' = Kept \ {outorder[dev[t]]} /\ outorder[dev[t]] \in Kept
      <4>1. Cached' = Cached \ {outorder[dev[t]]}
        BY <2>1, <2>3, <3>1 DEF Cached, Apart, QTypeOK
      <4>. QED  BY <2>1, <2>3, <4>1 DEF Kept, Cached, Apart
    <3>4. \A q \in Made : refs[q] \in Int /\ refs'[q] = refs[q] - One(q = outorder[dev[t]])
      BY <3>1, Counted DEF QTypeOK, Made
    <3>5. \A q \in Made : refs'[q] - One(q \in Kept') - One("idle" \in Owning /\ None = q)
                           = refs[q] - One(q \in Kept) - One(Owns(t, q))
      BY <2>2, <3>3, <3>4 DEF One
    <3>. QED  BY <2>1, <3>2, <3>5, BalancedMove
  <2>4. CASE outorder[dev[t]] = None
    <3>1. refs' = refs /\ Made' = Made /\ Kept' = Kept
      BY <1>9, <2>1, <2>4 DEF Invalidate, Stale, Made, Kept, Cached
    <3>. QED  BY <2>1, <2>2, <3>1, BalancedMove DEF One
  <2>. QED  BY <2>3, <2>4
<1>10. CASE DropContext
  <2>1. Made' = Made /\ Kept' = Kept /\ refs' = refs /\ \A q : Owners(q)' = Owners(q)
    BY <1>10 DEF DropContext, Made, Kept, Cached, Owners
  <2>. QED  BY <2>1 DEF Balanced
<1>11. CASE DropInner
  <2>1. /\ refs' = [q \in Made |-> IF q \in Cached THEN refs[q] - 1 ELSE refs[q]]
        /\ Made' = Made /\ Kept = lost \cup Cached /\ Kept' = lost /\ lost \cap Cached = {}
    BY <1>11 DEF DropInner, Made, Kept, Cached, Apart
  <2>2. \A q : Owners(q)' = Owners(q)
    BY <1>11 DEF DropInner, Owners
  <2>3. \A q \in Made : Cardinality(Owners(q)) \in Nat
    BY OwnersFinite
  <2>. QED  BY <2>1, <2>2, <2>3 DEF Balanced
<1>12. CASE UNCHANGED qvars
  BY <1>12 DEF qvars, Balanced, Made, Kept, Cached, Owners
<1>13. CASE QNext
  BY <1>1, <1>2, <1>3, <1>4, <1>5, <1>6, <1>7, <1>8, <1>9, <1>10, <1>11, <1>13, MainIsThere DEF QNext
<1>. QED  BY <1>12, <1>13

-----------------------------------------------------------------------------
(* One in-order queue for each device, and no spoiled one.                 *)

LEMMA StableNext ==
  ASSUME QShape, Stable, [QNext]_qvars
  PROVE  Stable'
<1>. QTypeOK /\ Sound /\ None \notin Made
  BY DEF QShape, QTypeOK, Made, None
<1>. USE DEF slots, threads
<1>. DEFINE Goes(t, w, x) ==
       /\ stage'[t] = w /\ queue'[t] = x
       /\ \A u \in Threads \ {t} : stage'[u] = stage[u] /\ dev'[u] = dev[u] /\ queue'[u] = queue[u]
<1>0. ASSUME NEW t \in Threads, NEW w, NEW d, NEW x, GoTo(t, w, d, x)
      PROVE  dev'[t] = d /\ Goes(t, w, x)
  BY <1>0 DEF GoTo, QTypeOK
<1>1. ASSUME NEW t \in Threads, NEW d \in Devices, LookInorder(t, d)  PROVE Stable'
  <2>1. UNCHANGED inorder /\ \/ GoTo(t, "wrap", d, inorder[d])
                             \/ GoTo(t, "create", d, None)
    BY <1>1 DEF LookInorder
  <2>. QED  BY <1>0, <2>1 DEF Stable
<1>2. ASSUME NEW t \in Threads, SetInorder(t)  PROVE Stable'
  <2>1. /\ GoTo(t, "wrap", dev[t], Winner(t)) /\ dev[t] \in Devices /\ stage[t] = "set"
        /\ IF inorder[dev[t]] = None
           THEN inorder' = [inorder EXCEPT ![dev[t]] = queue[t]] ELSE UNCHANGED inorder
    BY <1>2 DEF SetInorder, QTypeOK
  <2>2. dev'[t] = dev[t] /\ Goes(t, "wrap", Winner(t))
    BY <1>0, <2>1
  <2>3. inorder'[dev[t]] = Winner(t)
    BY <2>1 DEF Winner, QTypeOK
  <2>4. ASSUME NEW u \in Threads \ {t}, stage[u] \in {"wrap", "inorder"}
        PROVE  inorder'[dev[u]] = inorder[dev[u]]
    <3>1. inorder[dev[u]] \in Made /\ dev[u] \in Devices
      BY <2>4 DEF Stable, Sound, QTypeOK
    <3>. QED  BY <2>1, <3>1 DEF QTypeOK
  <2>. QED  BY <2>2, <2>3, <2>4 DEF Stable
<1>3. ASSUME NEW t \in Threads, Wrap(t)  PROVE Stable'
  <2>1. UNCHANGED inorder /\ GoTo(t, "inorder", dev[t], queue[t]) /\ stage[t] = "wrap"
    BY <1>3 DEF Wrap
  <2>. QED  BY <1>0, <2>1 DEF Stable
<1>4. ASSUME NEW t \in Threads, UNCHANGED inorder,
             NEW w, w \notin {"wrap", "inorder"}, NEW d, NEW x, GoTo(t, w, d, x)
      PROVE  Stable'
  BY <1>0, <1>4 DEF Stable
<1>5. ASSUME NEW t \in Threads, NEW d \in Devices,
             \/ \E w \in {"outorder", "chain"} : LookOutorder(t, d, w)
             \/ LookOutorderRefused(t, d)
      PROVE  Stable'
  <2>1. CASE LookOutorderRefused(t, d)
    BY <2>1 DEF LookOutorderRefused, Stable
  <2>2. ASSUME NEW w \in {"outorder", "chain"}, LookOutorder(t, d, w)  PROVE Stable'
    <3>1. UNCHANGED inorder /\ \E x : GoTo(t, w, d, x)
      BY <2>2 DEF LookOutorder
    <3>. QED  BY <1>4, <3>1
  <2>. QED  BY <1>5, <2>1, <2>2
<1>6. ASSUME NEW t \in Threads, \/ CreateInorder(t) \/ Refused(t) \/ DropQueue(t)
                                \/ FailsEarly(t) \/ Invalidate(t)
                                \/ \E where \in {"late", "sync"} : FailsLate(t, where)
      PROVE  Stable'
  <2>1. UNCHANGED inorder /\ \E w, d, x : w \in {"set", "idle", "failed"} /\ GoTo(t, w, d, x)
    BY <1>6 DEF CreateInorder, Refused, DropQueue, FailsEarly, Invalidate, FailsLate, Back
  <2>. QED  BY <1>4, <2>1
<1>7. CASE DropContext \/ DropInner \/ UNCHANGED qvars
  BY <1>7 DEF DropContext, DropInner, qvars, Stable
<1>8. CASE QNext
  BY <1>1, <1>2, <1>3, <1>5, <1>6, <1>7, <1>8, MainIsThere DEF QNext
<1>. QED  BY <1>7, <1>8

LEMMA FreshNext ==
  ASSUME QShape, FreshAfterEarly, [QNext]_qvars
  PROVE  FreshAfterEarly'
<1>. QTypeOK /\ Sound /\ None \notin Made
  BY DEF QShape, QTypeOK, Made, None
<1>. USE DEF slots, threads
<1>1. ASSUME NEW t \in Threads, NEW d \in Devices,
             \/ \E w \in {"outorder", "chain"} : LookOutorder(t, d, w)
             \/ LookOutorderRefused(t, d)
      PROVE  FreshAfterEarly'
  <2>1. /\ UNCHANGED spoiled
        /\ \/ UNCHANGED outorder
           \/ outorder' = [outorder EXCEPT ![d] = Len(refs) + 1]
    BY <1>1 DEF LookOutorder, LookOutorderRefused
  <2>2. <<Len(refs) + 1, "early">> \notin spoiled
    BY DEF QTypeOK, Made
  <2>. QED  BY <2>1, <2>2 DEF FreshAfterEarly, QTypeOK
<1>2. ASSUME NEW t \in Threads, Invalidate(t)  PROVE FreshAfterEarly'
  <2>1. /\ spoiled' = spoiled \cup {<<queue[t], "early">>} /\ dev[t] \in Devices
        /\ queue[t] \in Made
        /\ \A d \in Devices : d # dev[t] => outorder[d] # queue[t]
    BY <1>2 DEF Invalidate, QTypeOK, Sound
  <2>2. /\ outorder'[dev[t]] = None
        /\ \A d \in Devices : d # dev[t] => outorder'[d] = outorder[d]
    BY <1>2, <2>1 DEF Invalidate, Stale, QTypeOK
  <2>3. <<None, "early">> \notin spoiled'
    BY <2>1 DEF QTypeOK
  <2>. QED  BY <2>1, <2>2, <2>3 DEF FreshAfterEarly
<1>3. ASSUME NEW t \in Threads, NEW where \in {"late", "sync"}, FailsLate(t, where)
      PROVE  FreshAfterEarly'
  BY <1>3 DEF FailsLate, FreshAfterEarly
<1>4. CASE UNCHANGED <<outorder, spoiled>>
  BY <1>4 DEF FreshAfterEarly
<1>5. CASE UNCHANGED qvars
  BY <1>4, <1>5 DEF qvars
<1>6. ASSUME NEW t \in Threads, NEW d \in Devices, LookInorder(t, d)
      PROVE  UNCHANGED <<outorder, spoiled>>
  BY <1>6 DEF LookInorder
<1>7. ASSUME NEW t \in Threads, \/ CreateInorder(t) \/ SetInorder(t) \/ Wrap(t) \/ Refused(t)
                                \/ DropQueue(t) \/ FailsEarly(t)
      PROVE  UNCHANGED <<outorder, spoiled>>
  BY <1>7 DEF CreateInorder, SetInorder, Wrap, Refused, DropQueue, FailsEarly
<1>8. ASSUME DropContext \/ DropInner  PROVE UNCHANGED <<outorder, spoiled>>
  BY <1>8 DEF DropContext, DropInner
<1>9. CASE QNext
  BY <1>1, <1>2, <1>3, <1>4, <1>6, <1>7, <1>8, <1>9, MainIsThere DEF QNext
<1>. QED  BY <1>5, <1>9

-----------------------------------------------------------------------------
(* The theorems.                                                           *)

LEMMA QInvHolds == QSpec => []QInv
<1>1. QInit => QInv
  <2>. SUFFICES ASSUME QInit  PROVE QInv
    OBVIOUS
  <2>1. QShape
    BY ShapeInit
  <2>2. Stable /\ FreshAfterEarly
    BY DEF QInit, Stable, FreshAfterEarly
  <2>3. Balanced
    <3>1. Made = {1} /\ refs[1] = 1 /\ 1 \in Kept
      BY MainIsThere DEF QInit, Made, Kept, Cached, None
    <3>2. Owners(1) = {}
      BY DEF QInit, Owners, Owning
    <3>. QED  BY <3>1, <3>2, FS_EmptySet DEF Balanced
  <2>. QED  BY <2>1, <2>2, <2>3 DEF QInv
<1>2. QInv /\ [QNext]_qvars => QInv'
  BY ShapeNext, BalancedNext, StableNext, FreshNext DEF QInv
<1>. QED  BY <1>1, <1>2, PTL DEF QSpec

\* For any devices and threads, whatever races, fails or is dropped: the driver's
\* count of a default queue is the number of its owners (ContextInner::drop,
\* wrap_default, QueueInner::drop, invalidate_default_outoforder_queue).
THEOREM CountsBalance == QSpec => []Balanced
<1>1. QInv => Balanced
  BY DEF QInv
<1>. QED  BY <1>1, QInvHolds, PTL

\* All threads get one in-order queue for a device (once_lock_get_or_try_init).
THEOREM InorderIsStable == QSpec => []Stable
<1>1. QInv => Stable
  BY DEF QInv
<1>. QED  BY <1>1, QInvHolds, PTL

\* A queue whose chain failed in run() is in no slot once run() has returned
\* (run_eager_chain, invalidate_default_outoforder_queue).
THEOREM FreshAfterRun == QSpec => []FreshAfterEarly
<1>1. QInv => FreshAfterEarly
  BY DEF QInv
<1>. QED  BY <1>1, QInvHolds, PTL
=============================================================================
