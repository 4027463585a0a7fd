------------------------------ MODULE HostSeam ------------------------------
(***************************************************************************)
(* One run of an eager graph with host seams: the walk behind the start    *)
(* gate, the worker thread of each seam with its two user events, the      *)
(* device, and the two terminals `sync` and `run`.                         *)
(* (src/claspr/src/eager.rs: wait_on; src/claspr/src/eager/combinators.rs: *)
(* run_host_seam, run_host_worker, run_eager_chain)                        *)
(*                                                                         *)
(* A graph is a forest of nodes in walk order.  A device node is one       *)
(* command (a kernel, or the command buffer of a region).  A seam maps the *)
(* value of its source, runs a closure on it on a worker thread and unmaps *)
(* it.  A buffer is named by the entry node that lends it.                 *)
(*                                                                         *)
(* The driver runs a command after its wait list.  When an event of the    *)
(* list has failed the command fails too, at once or later.  A wait may     *)
(* lose the failure of a seam and return success (legacy NEO, pocl); the    *)
(* status of an event is always true.                                      *)
(***************************************************************************)
EXTENDS Naturals, FiniteSets

CONSTANTS
  N,             \* number of nodes
  Seams,         \* the host seams among them
  Preds,         \* the nodes whose output a node consumes
  Ungated,       \* entry nodes fed by a lent pipe, an upload or a value
  Outputs,       \* the nodes whose output the terminal hands out
  Terminals,     \* the terminals that may be called: "sync", "run"
  DeviceFails,   \* those under which a command may fail on the device
  SetupFails     \* those under which a map or an unmap may be refused

Nodes == 1..N
Entries == {n \in Nodes : Preds[n] = {}}
Sinks == {n \in Nodes : \A m \in Nodes : n \notin Preds[m]}

ASSUME NodeAssumption ==
  /\ N \in Nat \ {0} /\ Seams \subseteq Nodes
  /\ Preds \in [Nodes -> SUBSET Nodes]
  /\ \A n \in Nodes : \A p \in Preds[n] : p < n
  /\ \A m, n \in Nodes : m # n => Preds[m] \cap Preds[n] = {}
  /\ Ungated \subseteq Entries /\ Outputs \subseteq Sinks
ASSUME TerminalAssumption ==
  Terminals \subseteq {"sync", "run"} /\ DeviceFails \cup SetupFails \subseteq Terminals

NoSeam == 0

\* Where a buffer can be, besides the output pipe of a node.
Cell == 0
Out == N + 1
Lost == N + 2

VARIABLES
  terminal, \* the terminal that was called
  ev,      \* ev[e]: the status of an event
  worker,  \* worker[s]: what the worker of seam s does next
  verdict, \* verdict[s]: the status it forwards to `proceed`
  fault,   \* the seams whose own map or closure failed
  stash,   \* the host-error slot: the seam that wrote it
  pc,      \* what the caller's thread does next
  at,      \* the node its walk has reached
  failed,  \* the walk has returned an error
  waitErr, \* a wait of the terminal returned an error
  place,   \* place[b]: Cell, Out, Lost, or the node whose output pipe holds b
  result   \* what the terminal returned

walkVars == <<at, failed>>
workVars == <<worker, verdict, fault, stash>>
vars == <<terminal, ev, workVars, pc, walkVars, waitErr, place, result>>

-----------------------------------------------------------------------------
(* Events and wait lists.                                                  *)

Start == <<0, "start">>
Marker == <<0, "marker">>
Cmd(n) == <<n, "cmd">>         \* a device node's command, a seam's map
Unmap(s) == <<s, "unmap">>
FireEv(s) == <<s, "fire">>     \* gates the unmap
Proceed(s) == <<s, "proceed">> \* gates what is downstream

Commands == {Cmd(n) : n \in Nodes} \cup {Unmap(s) : s \in Seams} \cup {Marker}
Events == Commands \cup {Start} \cup {FireEv(s) : s \in Seams} \cup {Proceed(s) : s \in Seams}
EventStates == {"none", "pending", "running", "ok", "err"}

\* A mutant of Outs: downstream does not wait for the unmap.
OutsProceedOnly(n) == IF n \in Seams THEN {Proceed(n)} ELSE {Cmd(n)}

\* The deps a node puts on its output.
Outs(n) == IF n \in Seams THEN {Unmap(n), Proceed(n)} ELSE {Cmd(n)}

\* A mutant of Gate: nothing waits for the start event.
NoGate(n) == {}

\* An entry leaf that lends from a cell waits for the start event; one that
\* drains a pipe does not.
Gate(n) == IF n \in Entries \ Ungated THEN {Start} ELSE {}

Deps(n) == Gate(n) \cup UNION {Outs(p) : p \in Preds[n]}

Waits(e) ==
  CASE e[2] = "cmd" -> Deps(e[1])
    [] e[2] = "unmap" -> {FireEv(e[1])}
    [] e[2] = "marker" -> UNION {Outs(n) : n \in Sinks}

Done(e) == ev[e] \in {"ok", "err"}
SomeFailed(S) == \E e \in S : ev[e] = "err"
AllOk(S) == \A e \in S : ev[e] = "ok"

Set(S, status) == [e \in Events |-> IF e \in S THEN status ELSE ev[e]]

-----------------------------------------------------------------------------
(* The device.                                                             *)

Begin(e) ==
  /\ ev[e] = "pending" /\ AllOk(Waits(e))
  /\ ev' = Set({e}, "running")
  /\ UNCHANGED <<workVars, pc, walkVars, waitErr, place, result>>

Finish(e) ==
  /\ ev[e] = "running"
  /\ \E status \in {"ok"} \cup {x \in {"err"} : terminal \in DeviceFails /\ e[2] = "cmd"} :
       ev' = Set({e}, status)
  /\ UNCHANGED <<workVars, pc, walkVars, waitErr, place, result>>

Cancel(e) ==
  /\ ev[e] = "pending" /\ SomeFailed(Waits(e))
  /\ ev' = Set({e}, "err")
  /\ UNCHANGED <<workVars, pc, walkVars, waitErr, place, result>>

-----------------------------------------------------------------------------
(* The worker of a seam.                                                   *)

AtWorker(s, step) == worker[s] = step
GoTo(s, step) == worker' = [worker EXCEPT ![s] = step]
Forward(s, status) == verdict' = [verdict EXCEPT ![s] = status]
WorkerOnly == UNCHANGED <<pc, walkVars, waitErr, place, result>>

\* An event of the source has failed, read from its committed status: the
\* failure is upstream's, so nothing is stashed and the closure does not run.
WorkerCancelled(s) ==
  /\ AtWorker(s, "source") /\ SomeFailed(Deps(s))
  /\ Forward(s, "err") /\ GoTo(s, "fire")
  /\ UNCHANGED <<ev, fault, stash>> /\ WorkerOnly

WorkerSourceOk(s) ==
  /\ AtWorker(s, "source") /\ AllOk(Deps(s))
  /\ GoTo(s, "map")
  /\ UNCHANGED <<ev, verdict, fault, stash>> /\ WorkerOnly

WorkerMapped(s) ==
  /\ AtWorker(s, "map") /\ ev[Cmd(s)] = "ok"
  /\ GoTo(s, "closure")
  /\ UNCHANGED <<ev, verdict, fault, stash>> /\ WorkerOnly

WorkerMapFailed(s) ==
  /\ AtWorker(s, "map") /\ ev[Cmd(s)] = "err"
  /\ fault' = fault \cup {s}
  /\ Forward(s, "err") /\ GoTo(s, "stash")
  /\ UNCHANGED <<ev, stash>> /\ WorkerOnly

ClosureReturns(s) ==
  /\ AtWorker(s, "closure")
  /\ Forward(s, "ok") /\ GoTo(s, "fire")
  /\ UNCHANGED <<ev, fault, stash>> /\ WorkerOnly

\* The closure returns an error or panics.
ClosureFails(s) ==
  /\ AtWorker(s, "closure")
  /\ fault' = fault \cup {s}
  /\ Forward(s, "err") /\ GoTo(s, "stash")
  /\ UNCHANGED <<ev, stash>> /\ WorkerOnly

\* The first writer wins.
Stash(s) ==
  /\ AtWorker(s, "stash")
  /\ stash' = IF stash = NoSeam THEN s ELSE stash
  /\ GoTo(s, "fire")
  /\ UNCHANGED <<ev, verdict, fault>> /\ WorkerOnly

\* A mutant of Fire: only after a success.
FireOnSuccess(s) ==
  /\ AtWorker(s, "fire")
  /\ ev' = IF verdict[s] = "ok" THEN Set({FireEv(s)}, "ok") ELSE ev
  /\ GoTo(s, "proceed")
  /\ UNCHANGED <<verdict, fault, stash>> /\ WorkerOnly

\* The unmaps always run.
Fire(s) ==
  /\ AtWorker(s, "fire")
  /\ ev' = Set({FireEv(s)}, "ok")
  /\ GoTo(s, "proceed")
  /\ UNCHANGED <<verdict, fault, stash>> /\ WorkerOnly

SignalProceed(s) ==
  /\ AtWorker(s, "proceed")
  /\ ev' = Set({Proceed(s)}, verdict[s])
  /\ GoTo(s, "exited")
  /\ UNCHANGED <<verdict, fault, stash>> /\ WorkerOnly

-----------------------------------------------------------------------------
(* The walk.                                                               *)

Walking(n) == pc = "walk" /\ at = n
StepOn == at' = at + 1 /\ UNCHANGED <<pc, failed, waitErr, result>>
Fails == failed' = TRUE /\ pc' = "release" /\ UNCHANGED <<at, waitErr, result>>

\* The buffers node n takes: its own, from its cell, or those of its sources.
Taken(n) == {b \in Entries : place[b] \in Preds[n] \/ (b = n /\ place[b] = Cell)}
Moved(n, where) == [b \in Entries |-> IF b \in Taken(n) THEN where ELSE place[b]]

Enqueue(n) ==
  /\ Walking(n) /\ n \notin Seams
  /\ ev' = Set({Cmd(n)}, "pending")
  /\ place' = Moved(n, n)
  /\ StepOn /\ UNCHANGED workVars

\* A refused enqueue, for whatever reason: the guard over the lent buffers returns them.
Refused(n) ==
  /\ Walking(n) /\ n \notin Seams
  /\ place' = Moved(n, Cell)
  /\ Fails /\ UNCHANGED <<ev, workVars>>

\* Maps, two user events, unmaps, and a worker that owns them.
EnqueueSeam(s) ==
  /\ Walking(s) /\ s \in Seams
  /\ ev' = Set({Cmd(s), Unmap(s), FireEv(s), Proceed(s)}, "pending")
  /\ GoTo(s, "source")
  /\ place' = Moved(s, s)
  /\ StepOn /\ UNCHANGED <<verdict, fault, stash>>

\* A refused map or unmap: the value and its homes are dropped apart.  After a
\* refused unmap both user events are completed with an error.
MapRefused(s) ==
  /\ Walking(s) /\ s \in Seams /\ terminal \in SetupFails
  /\ place' = Moved(s, Lost)
  /\ Fails /\ UNCHANGED <<ev, workVars>>

UnmapRefused(s) ==
  /\ Walking(s) /\ s \in Seams /\ terminal \in SetupFails
  /\ ev' = [e \in Events |->
       IF e = Cmd(s) THEN "pending" ELSE IF e \in {FireEv(s), Proceed(s)} THEN "err" ELSE ev[e]]
  /\ place' = Moved(s, Lost)
  /\ Fails /\ UNCHANGED workVars

-----------------------------------------------------------------------------
(* The terminals.                                                          *)

Walked == pc = "walk" /\ at = N + 1

\* run: the marker is enqueued before the start event is completed.
WalkEnds ==
  /\ Walked /\ pc' = "release"
  /\ ev' = IF terminal = "run" THEN Set({Marker}, "pending") ELSE ev
  /\ UNCHANGED <<workVars, walkVars, waitErr, place, result>>

MarkerRefused ==
  /\ Walked /\ terminal = "run"
  /\ Fails /\ UNCHANGED <<ev, workVars, place>>

\* The start event is completed on every path.
Release ==
  /\ pc = "release"
  /\ ev' = Set({Start}, "ok")
  /\ pc' = IF failed THEN "join" ELSE "wait"
  /\ UNCHANGED <<workVars, walkVars, waitErr, place, result>>

\* A mutant of Awaited: the terminal does not wait for the device.
AwaitNothing == {}

Awaited == IF terminal = "run" THEN {Marker} ELSE UNION {Outs(n) : n \in Outputs}

\* sync waits on every completion event and keeps the first error, if the driver
\* reports it; the future of run resolves when the callback of the marker has
\* fired, whatever its status.
WaitEnds ==
  /\ pc = "wait" /\ \A e \in Awaited : Done(e)
  /\ waitErr' \in {x \in BOOLEAN :
       /\ x => terminal = "sync" /\ SomeFailed(Awaited)
       /\ ~x => terminal = "run" \/ fault # {} \/ ~SomeFailed(Awaited)}
  /\ pc' = "join"
  /\ UNCHANGED <<ev, workVars, walkVars, place, result>>

Join ==
  /\ pc = "join" /\ \A s \in Seams : worker[s] \in {"none", "exited"}
  /\ pc' = "reclaim"
  /\ UNCHANGED <<ev, workVars, walkVars, waitErr, place, result>>

\* A mutant of Outcome: the stash is only read after a failed wait.
OutcomeOfWait ==
  IF failed \/ waitErr THEN IF stash # NoSeam THEN "fault" ELSE "cascade" ELSE "ok"

\* The stash beats the cascade.
Outcome == IF stash # NoSeam THEN "fault" ELSE IF failed \/ waitErr THEN "cascade" ELSE "ok"

\* What becomes of an output: a Checkout is handed out, or drops and goes home;
\* run takes its outputs by value, with no home.
Output == IF Outcome = "ok" THEN Out ELSE IF terminal = "sync" THEN Cell ELSE Lost

\* A mutant of Return: nothing is reclaimed.
ReturnOnly ==
  /\ pc = "reclaim"
  /\ place' = [b \in Entries |-> IF place[b] \in Outputs THEN Output ELSE place[b]]
  /\ result' = Outcome /\ pc' = "done"
  /\ UNCHANGED <<ev, workVars, walkVars, waitErr>>

\* sync reclaims each pipe that was not drained once the work that filled it is
\* done; run drops the graph, or hands it to the marker.
Return ==
  /\ pc = "reclaim"
  /\ terminal = "sync" =>
       \A b \in Entries : place[b] \in Nodes \ Outputs => \A e \in Outs(place[b]) : Done(e)
  /\ place' = [b \in Entries |->
       CASE place[b] \in Outputs -> Output
         [] place[b] \in Nodes \ Outputs -> Cell
         [] OTHER -> place[b]]
  /\ result' = Outcome /\ pc' = "done"
  /\ UNCHANGED <<ev, workVars, walkVars, waitErr>>

-----------------------------------------------------------------------------
Init ==
  /\ terminal \in Terminals
  /\ ev = [e \in Events |-> IF e = Start THEN "pending" ELSE "none"]
  /\ worker = [s \in Seams |-> "none"] /\ verdict = [s \in Seams |-> "ok"]
  /\ fault = {} /\ stash = NoSeam
  /\ pc = "walk" /\ at = 1 /\ failed = FALSE /\ waitErr = FALSE
  /\ place = [b \in Entries |-> Cell]
  /\ result = "none"

Device(e) == UNCHANGED terminal /\ (Begin(e) \/ Finish(e) \/ Cancel(e))

Worker(s) ==
  /\ UNCHANGED terminal
  /\ \/ WorkerCancelled(s) \/ WorkerSourceOk(s) \/ WorkerMapped(s) \/ WorkerMapFailed(s)
     \/ ClosureReturns(s) \/ ClosureFails(s)
     \/ Stash(s) \/ Fire(s) \/ SignalProceed(s)

Caller ==
  /\ UNCHANGED terminal
  /\ \/ \E n \in Nodes :
          Enqueue(n) \/ Refused(n) \/ EnqueueSeam(n) \/ MapRefused(n) \/ UnmapRefused(n)
     \/ WalkEnds \/ MarkerRefused \/ Release \/ WaitEnds \/ Join \/ Return

Next == (\E e \in Commands : Device(e)) \/ Caller \/ \E s \in Seams : Worker(s)

\* Every thread keeps executing, a closure returns, and the device gets on with
\* each command.
Fairness ==
  /\ WF_vars(Caller)
  /\ \A s \in Seams : WF_vars(Worker(s))
  /\ \A e \in Commands : WF_vars(Device(e))

Spec == Init /\ [][Next]_vars /\ Fairness

-----------------------------------------------------------------------------
(* Properties.                                                             *)

WorkerSteps == {"none", "source", "map", "closure", "stash", "fire", "proceed", "exited"}

\* Every variable has its type, and user events are never "running".
TypeOK ==
  /\ terminal \in Terminals
  /\ ev \in [Events -> EventStates]
  /\ \A e \in Events \ Commands : ev[e] # "running"
  /\ worker \in [Seams -> WorkerSteps] /\ verdict \in [Seams -> {"ok", "err"}]
  /\ fault \subseteq Seams /\ stash \in fault \cup {NoSeam}
  /\ pc \in {"walk", "release", "wait", "join", "reclaim", "done"}
  /\ at \in 1..(N + 1) /\ failed \in BOOLEAN /\ waitErr \in BOOLEAN
  /\ place \in [Entries -> {Cell, Lost, Out} \cup Nodes]
  /\ result \in {"none", "ok", "cascade", "fault"}

\* What n depends on, and n itself.
Upstream[n \in Nodes] == {n} \cup UNION {Upstream[p] : p \in Preds[n]}
EventsOf(n) == {e \in Events : e[1] = n}

\* A run that reports success has waited for every command behind its outputs,
\* and none of them failed.  (wait_on, DeviceChainFuture::poll)
SuccessIsReal ==
  result = "ok" => \A n \in Outputs : \A m \in Upstream[n] : AllOk(EventsOf(m))

\* A seam that failed is reported, and the error is that of a seam no failed one
\* is upstream of.  (the host-error slot: first writer wins, stash beats cascade)
FaultIsReported ==
  pc = "done" /\ fault # {} =>
    /\ result = "fault" /\ stash \in fault
    /\ \A s \in fault \ {stash} : s \notin Upstream[stash]

\* A closure and the device never work on a buffer at once: a closure runs on data that is
\* complete, so that none runs behind a failed seam, and no command downstream runs
\* before the unmap.  (run_host_worker; fire and proceed are two events)
HostAlone ==
  \A s \in Seams :
    /\ worker[s] = "closure" => \A m \in Upstream[s] \ {s} : AllOk(EventsOf(m))
    /\ \A n \in Nodes : s # n /\ s \in Upstream[n] /\ ev[Cmd(n)] = "running" => ev[Unmap(s)] = "ok"

\* No command and no closure on a buffer lent from a cell runs before the whole
\* graph is enqueued, though the failure of an ungated seam may cancel it.  (the
\* start gate)
NothingBeforeStart ==
  ev[Start] = "pending" =>
    \A n \in Nodes : Upstream[n] \cap Entries \subseteq Ungated \/
      /\ ev[Cmd(n)] \notin {"running", "ok"}
      /\ n \in Seams => worker[n] \notin {"map", "closure"}

\* When a terminal has returned no worker is alive, so none calls OpenCL after
\* the caller dropped the Context.  (join_workers)
NoWorkerLeft ==
  pc = "done" => \A s \in Seams : worker[s] \in {"none", "exited"}

\* A failed sync leaves every buffer in its cell.  (the error arms of wait_on)
FailureRearms ==
  terminal = "sync" /\ pc = "done" /\ result # "ok" =>
    \A b \in Entries : place[b] = Cell

\* The terminal returns, whatever fails.  (both user events and the start event
\* are completed on every path)
Returns == <>(pc = "done")
=============================================================================
