----------------------------- MODULE Terminals -----------------------------
(***************************************************************************)
(* The terminals that do not block: `submit_on`, `submit_value_on`,        *)
(* `submit_pending_on`, its unchecked form, `run` and the `.await` of a    *)
(* launch; the values they hand back or keep alive, the completion         *)
(* callback, the reaper thread and the future.                             *)
(* (src/claspr/src/eager.rs, eager/combinators.rs, pending.rs, op.rs,      *)
(* future.rs)                                                              *)
(*                                                                         *)
(* A graph is a sequence of leaves in walk order, each one command.  "buf" *)
(* writes device storage, which the driver keeps; "vec" downloads into a   *)
(* Vec the graph owns; "slice" transfers to or from memory the caller      *)
(* lends; "seam" is a host seam, whose event its worker thread completes.  *)
(* A lazy driver runs a command only once the queue is flushed; a blocking *)
(* wait flushes.                                                           *)
(***************************************************************************)
EXTENDS Naturals, Sequences, FiniteSets

CONSTANTS
  Graphs, \* the sequences of leaves to start from
  Terms,  \* the terminals to start from
  Hasty   \* an error may be met while host memory is in use

ASSUME TerminalsAssumption ==
  /\ \A g \in Graphs :
       /\ g \in Seq({"buf", "vec", "slice", "seam"}) /\ g # <<>>
       /\ \A j, k \in DOMAIN g : g[j] = "seam" /\ g[k] = "seam" => j = k
  /\ Terms \subseteq {"submit", "value", "pending", "unchecked", "run", "launch"}
  /\ Hasty \in BOOLEAN

VARIABLES
  graph, \* the leaves
  out,   \* those whose value is the graph's output; the others' nobody takes
  term,  \* the terminal
  pc,    \* what the caller's thread does next
  at,    \* the leaf its walk has reached
  cst,   \* cst[k]: the status of leaf k's command
  mark,  \* the status of the completion event
  flush, \* the commands that have been flushed to the device
  mem,   \* mem[k]: who holds the value of leaf k
  keep,  \* the callback that keeps the graph: "none", "set" or "fired"
  fut,   \* the future
  worker \* the worker thread of a seam

callVars == <<pc, at>>
devVars == <<cst, mark, flush>>
const == <<graph, out, term>>
vars == <<const, callVars, devVars, mem, keep, fut, worker>>

Leaves == DOMAIN graph
Last == Len(graph)
Finished(k) == cst[k] \in {"ok", "err"}
MarkDone == mark \in {"ok", "err"}
All(kinds) == {k \in Leaves : graph[k] \in kinds}
Checked == term \in {"submit", "value", "pending"}
Future == term \in {"run", "launch"}

\* No host memory of these kinds is in use.
Quiet(kinds) == Hasty \/ \A k \in All(kinds) : cst[k] \in {"none", "ok", "err"}

\* The values in `from` pass to `to`.
Moved(from, to) == [k \in Leaves |-> IF mem[k] \in from THEN to ELSE mem[k]]

-----------------------------------------------------------------------------
(* The walk and the completion event.                                      *)

NextLeaf == at + 1

\* A leaf enqueues its command; its value waits in a pipe of the graph, or in
\* the output being gathered.
Walk ==
  /\ pc = "walk" /\ at <= Last
  /\ cst' = [cst EXCEPT ![at] = "queued"]
  /\ mem' = [mem EXCEPT ![at] = IF graph[at] = "slice" THEN "lent"
                                ELSE IF at \in out THEN "output" ELSE "graph"]
  /\ worker' = IF graph[at] = "seam" THEN "running" ELSE worker
  /\ at' = NextLeaf
  /\ UNCHANGED <<const, pc, mark, flush, keep, fut>>

\* A leaf is refused.
WalkFails ==
  /\ pc = "walk" /\ at <= Last /\ Quiet({"vec"})
  /\ pc' = IF term = "run" THEN "join" ELSE "failhost"
  /\ flush' = IF term # "run" /\ All({"slice"}) # {} THEN Leaves ELSE flush
  /\ UNCHANGED <<const, at, cst, mark, mem, keep, fut, worker>>

\* A mutant of Waited: a borrowed transfer is waited for only on success.
WaitedOnSuccess == IF pc = "host" /\ Checked THEN All({"slice"}) ELSE {}

\* wait_host_transfers: of a checked terminal, and of any failed walk.
Waited == IF pc = "failhost" \/ Checked THEN All({"slice"}) ELSE {}

WalkDone ==
  /\ pc = "walk" /\ at > Last
  /\ pc' = IF Future THEN "mark" ELSE "host"
  /\ flush' = IF Checked /\ All({"slice"}) # {} THEN Leaves ELSE flush
  /\ UNCHANGED <<const, at, cst, mark, mem, keep, fut, worker>>

HostWait ==
  /\ pc \in {"host", "failhost"}
  /\ \A k \in Waited : k < at => Finished(k)
  /\ \/ pc = "host" /\ (\A k \in Waited : cst[k] = "ok") /\ pc' = "mark"
     \/ pc = "failhost" /\ pc' = "abandon"
     \/ pc = "host" /\ (\E k \in Waited : cst[k] = "err") /\ Quiet({"vec"}) /\ pc' = "abandon"
  /\ UNCHANGED <<const, at, devVars, mem, keep, fut, worker>>

\* What the completion event waits for: the output's events and
\* `undelivered_deps`.
MarkAfter == Leaves

Mark ==
  /\ pc = "mark"
  /\ mark' = "queued"
  /\ pc' = IF Future THEN "flush" ELSE "keep"
  /\ UNCHANGED <<const, at, cst, flush, mem, keep, fut, worker>>

\* The marker is refused: `run` joins the workers first.
MarkFails ==
  /\ pc = "mark" /\ Quiet({"vec", "slice"})
  /\ pc' = IF Future THEN "join" ELSE "abandon"
  /\ UNCHANGED <<const, at, devVars, mem, keep, fut, worker>>

\* A mutant of Flushed: the queues are not flushed.
FlushedNot == flush

\* `flush_all_outoforder_queues`, and the flush of an awaited launch.
Flushed == Leaves

Flush ==
  /\ pc = "flush"
  /\ flush' = Flushed
  /\ pc' = IF term = "run" THEN "keep" ELSE "future"
  /\ UNCHANGED <<const, at, cst, mark, mem, keep, fut, worker>>

FlushFails ==
  /\ pc = "flush" /\ Quiet({"vec"})
  /\ pc' = "join"
  /\ UNCHANGED <<const, at, devVars, mem, keep, fut, worker>>

\* The seams of a run that failed are joined before it returns.
Join ==
  /\ pc = "join" /\ worker \in {"none", "gone"}
  /\ pc' = "abandon"
  /\ UNCHANGED <<const, at, devVars, mem, keep, fut, worker>>

\* The error is returned: the graph goes and all it holds.
Abandon ==
  /\ pc = "abandon"
  /\ mem' = Moved({"graph", "output"}, "freed")
  /\ pc' = "failed"
  /\ UNCHANGED <<const, at, devVars, keep, fut, worker>>

-----------------------------------------------------------------------------
(* What keeps the values alive.                                            *)

\* What `drop_after` is given: `submit_on` gives the output too.
KeptBy == IF term = "submit" THEN {"graph", "output"} ELSE {"graph"}

\* drop_after.  `submit_value_on` hands its output out, `run` makes a future.
Keep ==
  /\ pc = "keep" /\ term \in {"submit", "value", "run"}
  /\ keep' = "set"
  /\ mem' = [k \in Leaves |-> IF mem[k] \in KeptBy THEN "kept"
                              ELSE IF mem[k] # "output" THEN mem[k]
                              ELSE CASE term = "run" -> "future"
                                     [] term = "value" -> "user"
                                     [] term = "submit" -> "freed"]
  /\ pc' = IF term = "run" THEN "future" ELSE "returned"
  /\ UNCHANGED <<const, at, devVars, fut, worker>>

\* The callback cannot be registered: wait for the event, then drop.
KeepFailsAfter == MarkDone

KeepFails ==
  /\ pc = "keep" /\ term \in {"submit", "value", "run"} /\ KeepFailsAfter
  /\ flush' = Leaves
  /\ pc' = "abandon"
  /\ UNCHANGED <<const, at, cst, mark, mem, keep, fut, worker>>

KeepWaits ==
  /\ pc = "keep" /\ term \in {"submit", "value", "run"} /\ flush # Leaves
  /\ flush' = Leaves
  /\ UNCHANGED <<const, callVars, cst, mark, mem, keep, fut, worker>>

\* CL_COMPLETE, or a negative status.
Fires == MarkDone

\* The callback hands the graph to the reaper thread, which drops it.
Fire ==
  /\ keep = "set" /\ Fires
  /\ keep' = "fired"
  /\ mem' = Moved({"kept"}, "reaper")
  /\ UNCHANGED <<const, callVars, devVars, fut, worker>>

Reap ==
  /\ \E k \in Leaves : mem[k] = "reaper"
  /\ mem' = Moved({"reaper"}, "freed")
  /\ UNCHANGED <<const, callVars, devVars, keep, fut, worker>>

-----------------------------------------------------------------------------
(* Pending.                                                                *)

MakePending ==
  /\ pc = "keep" /\ term \in {"pending", "unchecked"}
  /\ mem' = Moved({"graph", "output"}, "pending")
  /\ pc' = "guard"
  /\ UNCHANGED <<const, at, devVars, keep, fut, worker>>

\* Both `wait` and the drop of the guard wait for the event.
PendingWaits ==
  /\ pc = "guard"
  /\ flush' = Leaves /\ pc' \in {"wait", "drop"}
  /\ UNCHANGED <<const, at, cst, mark, mem, keep, fut, worker>>

\* A mutant of PendingOver: only `wait` waits.
PendingOverWait == pc = "wait" => MarkDone

PendingOver == MarkDone

PendingDone ==
  /\ pc \in {"wait", "drop"} /\ PendingOver
  /\ mem' = [k \in Leaves |-> IF mem[k] # "pending" THEN mem[k]
                              ELSE IF pc = "wait" /\ mark = "ok" /\ k \in out THEN "user"
                              ELSE "freed"]
  /\ pc' = "returned"
  /\ UNCHANGED <<const, at, devVars, keep, fut, worker>>

\* The guard is leaked (an unchecked one must not be).
PendingLeak ==
  /\ pc = "guard" /\ term = "pending"
  /\ mem' = Moved({"pending"}, "leaked")
  /\ pc' = "returned"
  /\ UNCHANGED <<const, at, devVars, keep, fut, worker>>

-----------------------------------------------------------------------------
(* The future: `poll` in its four steps, and the completion callback.      *)

Poll ==
  /\ pc = "future" /\ fut.pc = "parked" /\ fut.woken
  /\ fut' = [fut EXCEPT !.woken = FALSE, !.pc = IF fut.done THEN "ready" ELSE "register"]
  /\ UNCHANGED <<const, callVars, devVars, mem, keep, worker>>

Register ==
  /\ fut.pc = "register"
  /\ fut' = [fut EXCEPT !.waker = "task", !.pc = "callback"]
  /\ UNCHANGED <<const, callVars, devVars, mem, keep, worker>>

SetCallback ==
  /\ fut.pc = "callback"
  /\ fut' = [fut EXCEPT !.cb = IF @ = "none" THEN "set" ELSE @, !.pc = "recheck"]
  /\ UNCHANGED <<const, callVars, devVars, mem, keep, worker>>

\* The callback is refused: the poll is ready with an error.
CallbackFails ==
  /\ fut.pc = "callback" /\ fut.cb = "none" /\ Quiet({"vec"})
  /\ fut' = [fut EXCEPT !.pc = "error"]
  /\ UNCHANGED <<const, callVars, devVars, mem, keep, worker>>

Rechecked == fut.done

Recheck ==
  /\ fut.pc = "recheck"
  /\ fut' = [fut EXCEPT !.pc = IF Rechecked THEN "ready" ELSE "parked"]
  /\ UNCHANGED <<const, callVars, devVars, mem, keep, worker>>

\* completion_thunk: `done`, then the waker.
Complete ==
  /\ fut.cb = "set" /\ MarkDone
  /\ fut' = [fut EXCEPT !.cb = "stored", !.done = TRUE]
  /\ UNCHANGED <<const, callVars, devVars, mem, keep, worker>>

Wake ==
  /\ fut.cb = "stored"
  /\ fut' = [fut EXCEPT !.cb = "over", !.waker = "none", !.woken = @ \/ fut.waker = "task"]
  /\ UNCHANGED <<const, callVars, devVars, mem, keep, worker>>

\* Another task takes the future over, and polls it: the waker is the old one's.
Move ==
  /\ pc = "future" /\ fut.pc = "parked" /\ fut.waker = "task"
  /\ fut' = [fut EXCEPT !.waker = "stale", !.woken = TRUE]
  /\ UNCHANGED <<const, callVars, devVars, mem, keep, worker>>

\* A mutant of Joined: the future resolves without the workers.
JoinedNot == TRUE

\* join_chain_workers
Joined == worker \in {"none", "gone"}

\* The event is over, or could not be followed: the output goes before the
\* join on an error, and out after it otherwise (a seam may have left one).
Resolve ==
  /\ fut.pc \in {"ready", "error"} /\ Joined
  /\ \E to \in {"user", "freed"} :
       /\ to = "user" => fut.pc = "ready"
       /\ to = "freed" => fut.pc = "error" \/ All({"seam"}) # {}
       /\ mem' = Moved({"future"}, to)
  /\ fut' = [fut EXCEPT !.pc = "resolved"]
  /\ pc' = "returned"
  /\ UNCHANGED <<const, at, devVars, keep, worker>>

\* A future dropped early leaves its output to the reaper.
DropTo == IF keep = "fired" THEN "reaper" ELSE "kept"

FutureDrop ==
  /\ pc = "future" /\ fut.pc = "parked"
  /\ mem' = Moved({"future"}, DropTo)
  /\ fut' = [fut EXCEPT !.pc = "dropped"]
  /\ pc' = "returned"
  /\ UNCHANGED <<const, at, devVars, keep, worker>>

-----------------------------------------------------------------------------
(* The device and the worker.                                              *)

DeviceRuns ==
  \E k \in All({"buf", "vec", "slice"}) :
    /\ \/ cst[k] = "queued" /\ k \in flush /\ cst' = [cst EXCEPT ![k] = "running"]
       \/ cst[k] = "running" /\ \E s \in {"ok", "err"} : cst' = [cst EXCEPT ![k] = s]
    /\ UNCHANGED <<const, callVars, mark, flush, mem, keep, fut, worker>>

MarkRuns ==
  /\ mark = "queued" /\ \A k \in MarkAfter : Finished(k) \/ cst[k] = "none"
  /\ mark' = IF \E k \in MarkAfter : cst[k] = "err" THEN "err" ELSE "ok"
  /\ UNCHANGED <<const, callVars, cst, flush, mem, keep, fut, worker>>

\* A worker completes the event of its seam and then goes.
WorkerRuns ==
  \/ /\ worker = "running"
     /\ \E s \in {"ok", "err"} :
          cst' = [k \in Leaves |-> IF graph[k] = "seam" THEN s ELSE cst[k]]
     /\ worker' = "tail"
     /\ UNCHANGED <<const, callVars, mark, flush, mem, keep, fut>>
  \/ /\ worker = "tail" /\ worker' = "gone"
     /\ UNCHANGED <<const, callVars, devVars, mem, keep, fut>>

\* The caller of a submit waits for its event, or lets the queue go: both
\* flush.  Whoever awaits a future does neither.
LateFlush ==
  /\ pc \in {"returned", "failed"} /\ ~Future /\ flush # Leaves
  /\ flush' = Leaves
  /\ UNCHANGED <<const, callVars, cst, mark, mem, keep, fut, worker>>

-----------------------------------------------------------------------------

\* The types: borrowed memory goes to a Pending only, `submit_value_on` hands
\* out device storage, a launch is one kernel.
Typed(g, o, t) ==
  /\ (\E k \in DOMAIN g : g[k] = "slice") => t \in {"pending", "unchecked"}
  /\ t = "value" => \A k \in o : g[k] # "vec"
  /\ t = "launch" <=> g = <<"buf">>

Init ==
  /\ graph \in Graphs /\ term \in Terms
  /\ out \in {o \in SUBSET Leaves : Last \in o}
  /\ Typed(graph, out, term)
  /\ pc = "walk" /\ at = 1
  /\ cst = [k \in Leaves |-> "none"] /\ mark = "none" /\ flush = {}
  /\ mem = [k \in Leaves |-> "none"] /\ keep = "none" /\ worker = "none"
  /\ fut = [pc |-> "parked", woken |-> TRUE, waker |-> "none", cb |-> "none", done |-> FALSE]

Caller ==
  \/ Walk \/ WalkDone \/ HostWait \/ Mark \/ Flush \/ Join \/ Abandon
  \/ Keep \/ KeepFails \/ KeepWaits \/ MakePending \/ PendingDone
Faults == WalkFails \/ MarkFails \/ FlushFails \/ CallbackFails
Choices == PendingWaits \/ PendingLeak \/ Move \/ FutureDrop
Task == Poll \/ Register \/ SetCallback \/ Recheck \/ Resolve
Callback == Fire \/ Complete \/ Wake
Device == DeviceRuns \/ MarkRuns

Next ==
  \/ Caller \/ Faults \/ Choices \/ Task \/ Callback \/ Reap
  \/ Device \/ WorkerRuns \/ LateFlush

\* Threads run on, the device runs what it was given, a callback fires once
\* its event is over, a woken task is polled.
Fairness ==
  /\ WF_vars(Caller) /\ WF_vars(Task) /\ WF_vars(Callback) /\ WF_vars(Reap)
  /\ WF_vars(Device) /\ WF_vars(WorkerRuns) /\ WF_vars(LateFlush)

Spec == Init /\ [][Next]_vars /\ Fairness

-----------------------------------------------------------------------------

\* The variables hold what their comments say.
TypeOK ==
  /\ graph \in Graphs /\ out \subseteq Leaves /\ term \in Terms
  /\ pc \in {"walk", "host", "failhost", "mark", "flush", "keep", "join", "abandon",
             "guard", "wait", "drop", "future", "returned", "failed"}
  /\ at \in 1..(Last + 1) /\ flush \subseteq Leaves
  /\ cst \in [Leaves -> {"none", "queued", "running", "ok", "err"}]
  /\ mark \in {"none", "queued", "ok", "err"} /\ keep \in {"none", "set", "fired"}
  /\ mem \in [Leaves -> {"none", "graph", "output", "lent", "kept", "reaper", "pending",
                         "future", "leaked", "user", "freed"}]
  /\ fut \in [pc : {"parked", "register", "callback", "recheck", "ready", "error",
                    "resolved", "dropped"},
              woken : BOOLEAN, waker : {"none", "task", "stale"}, cb : {"none", "set", "stored", "over"},
              done : BOOLEAN]
  /\ worker \in {"none", "running", "tail", "gone"}

\* A Vec that a download writes is neither freed nor handed out before its
\* command is over, whatever the caller does with the event, the Pending or
\* the future (pending.rs; op.rs: drop_after; the drop of DeviceChainFuture).
NeverFreedEarly ==
  \A k \in All({"vec"}) : mem[k] \in {"freed", "user"} => cst[k] \in {"ok", "err"}

\* When a terminal has returned, on success or not, no command uses memory
\* the caller lent it, even if the Pending is leaked (submit_pending_on).
BorrowEnds ==
  pc \in {"guard", "wait", "drop", "returned", "failed"} =>
    \A k \in All({"slice"}) :
      \/ term = "unchecked" /\ pc \in {"guard", "wait", "drop"}
      \/ cst[k] \notin {"queued", "running"}

\* When a future that was polled has resolved with its value, everything its
\* graph enqueued is over, undelivered work included, and no worker of a seam
\* is left to call OpenCL (run_eager_chain, DeviceChainFuture::poll).
ResolvedIsOver ==
  fut.pc = "resolved" =>
    /\ worker \in {"none", "gone"}
    /\ fut.done => \A k \in Leaves : Finished(k)

\* A future that is not dropped resolves: no wake-up is lost, and nothing it
\* waits for stays unflushed (EventFuture::poll; flush_all_outoforder_queues).
FutureResolves == pc = "future" ~> pc = "returned"
=============================================================================
