------------------------------ MODULE Storage ------------------------------
(***************************************************************************)
(* One device allocation: the commands that use it, the record of those    *)
(* uses, the ways the host looks at it, and the moment it is freed.        *)
(* (src/claspr/src/mapped.rs, usm.rs, buffer.rs, host_view.rs,             *)
(* map_primitive.rs, util.rs, pending.rs)                                  *)
(*                                                                         *)
(* The allocation is a `DeviceSlice` ("mem"), a coarse-grain `MappedSlice` *)
(* ("svm") or a `USMSlice` over a host Vec ("usm").  Commands are numbered *)
(* as they are enqueued.  A blocking call is an enqueue and a wait: `call` *)
(* says what the caller waits for.  A `USMSlice` is Sync: each step of its *)
(* lock-free check is an action, so several threads may interleave.        *)
(***************************************************************************)
EXTENDS Naturals, Sequences, FiniteSets

CONSTANTS
  Kinds,        \* the kinds of allocation to start from
  Queues,       \* "in": the default in-order queue, "ooo": out of order
  Threads,      \* the threads that share a USMSlice
  MaxCmds,      \* bound on the commands enqueued
  CrossQueue,   \* a kernel may go to another queue than a dropped guard's unmap
  LoosePending, \* a non-blocking map may go to an out-of-order queue
  HastyReseed   \* a re-seed may fail on one event while another is pending

ASSUME StorageAssumption ==
  /\ Kinds \subseteq {"mem", "svm", "usm"} /\ Queues \subseteq {"in", "ooo"}
  /\ Threads # {} /\ IsFiniteSet(Threads) /\ MaxCmds \in Nat
  /\ {CrossQueue, LoosePending, HastyReseed} \subseteq BOOLEAN

VARIABLES
  kind,  \* what the allocation is
  cmds,  \* the commands enqueued on it: [op, q, after]
  st,    \* the status of each
  uses,  \* the events recorded on it: in_use, last_use, in_flight
  used,  \* USMSlice: the flag that lets Deref skip the lock
  deps,  \* the events that order what comes next on the device
  held,  \* what the caller has: the slice, a map in flight, a guard, a view
  hq,    \* the queue of that map
  call,  \* what the caller waits for
  rd,    \* rd[t]: where thread t is in an access to a USMSlice
  took,  \* took[t]: the events it took to wait for
  freed  \* the memory is gone

devVars == <<cmds, st>>
useVars == <<uses, used>>
hostVars == <<held, hq, call>>
usmVars == <<rd, took>>
vars == <<kind, devVars, useVars, deps, hostVars, usmVars, freed>>

-----------------------------------------------------------------------------
(* The device.                                                             *)

Ids == 1..Len(cmds)
Finished(i) == st[i] \in {"ok", "err"}
Unfinished == {i \in Ids : ~Finished(i)}
Of(ops) == {i \in Ids : cmds[i].op \in ops}

\* The commands an in-order queue puts before i.
Earlier(i) == IF cmds[i].q = "in" THEN {j \in 1..(i - 1) : cmds[j].q = "in"} ELSE {}

Start(i) ==
  /\ st[i] = "queued"
  /\ \A j \in Earlier(i) : Finished(j)
  /\ \A j \in cmds[i].after : st[j] = "ok"
  /\ st' = [st EXCEPT ![i] = "running"]
  /\ UNCHANGED <<kind, cmds, useVars, deps, hostVars, usmVars, freed>>

\* A free that has run frees; a kernel may fail.
Finish(i) ==
  /\ st[i] = "running"
  /\ \/ st' = [st EXCEPT ![i] = "ok"]
     \/ cmds[i].op = "kernel" /\ st' = [st EXCEPT ![i] = "err"]
  /\ freed' = (freed \/ cmds[i].op = "free")
  /\ UNCHANGED <<kind, cmds, useVars, deps, hostVars, usmVars>>

\* A command whose wait list has failed does not run.
Abort(i) ==
  /\ st[i] = "queued"
  /\ \E j \in cmds[i].after : st[j] = "err"
  /\ st' = [st EXCEPT ![i] = "err"]
  /\ UNCHANGED <<kind, cmds, useVars, deps, hostVars, usmVars, freed>>

Room == Len(cmds) < MaxCmds
Next1 == Len(cmds) + 1
Enqueue(op, q, after) ==
  /\ Room
  /\ cmds' = Append(cmds, [op |-> op, q |-> q, after |-> after])
  /\ st' = Append(st, "queued")

NoCall == [op |-> "none", on |-> {}]
Idle == call = NoCall
Await(op, on) == call' = [op |-> op, on |-> on]
Answered(op) == call.op = op /\ \A i \in call.on : Finished(i)
AnyFailed == \E i \in call.on : st[i] = "err"

\* The slice itself is at hand and nobody borrows it.
AtHand == Idle /\ held = "slice" /\ \A t \in Threads : rd[t] = "out"

-----------------------------------------------------------------------------
(* The record of uses.                                                     *)

\* What is left of a record once the events that are over are dropped.
Running(S) == {i \in S : ~Finished(i)}

\* A mutant of PendingUses: a map waits for nothing.
PendingNothing == {}

\* The wait list a host view adds to its map.
PendingUses == Running(uses)

\* register_completion, register_use: a launch records its event.
Registered(i) == IF kind = "mem" THEN uses ELSE uses \cup {i}

\* record_use: what is over is dropped, the event of the graph is added.
Recorded(i) == Running(uses) \cup {i}

-----------------------------------------------------------------------------
(* Work on the device.                                                     *)

\* The unmaps that dropped guards have left unfinished.
LooseUnmaps == {i \in Of({"unguard"}) : ~Finished(i)}
Ordered(q) == CrossQueue \/ (LooseUnmaps # {} => q = "in" /\ \A i \in LooseUnmaps : cmds[i].q = "in")

\* A kernel in a graph whose terminal blocks.
Sync(q) ==
  /\ AtHand /\ ~freed /\ Ordered(q)
  /\ Enqueue("kernel", q, deps)
  /\ uses' = Registered(Next1) /\ used' = (used \/ kind = "usm")
  /\ deps' = {} /\ Await("sync", {Next1})
  /\ UNCHANGED <<kind, held, hq, usmVars, freed>>

\* A kernel in a graph whose terminal hands the slice back at once, or a
\* launch that borrows it; the caller orders later work after its event.
Submit(q) ==
  /\ AtHand /\ ~freed /\ Ordered(q)
  /\ Enqueue("kernel", q, deps)
  /\ \/ uses' = Recorded(Next1)
     \/ kind # "mem" /\ uses' = Registered(Next1)
  /\ used' = (used \/ kind = "usm")
  /\ deps' = {Next1}
  /\ UNCHANGED <<kind, hostVars, usmVars, freed>>

SyncDone ==
  /\ Answered("sync")
  /\ call' = NoCall
  /\ UNCHANGED <<kind, devVars, useVars, deps, held, hq, usmVars, freed>>

-----------------------------------------------------------------------------
(* Guards: `map` and `map_mut`, blocking or not.                           *)

\* A mutant of Blocks: a blocking map does not wait.
BlocksNothing == {}

\* What a blocking map waits for.
Blocks == {Next1}

MapBlocking(q) ==
  /\ AtHand /\ ~freed /\ kind # "usm"
  /\ Enqueue("map", q, PendingUses)
  /\ uses' = Running(uses) /\ hq' = q
  /\ Await("map", Blocks)
  /\ UNCHANGED <<kind, used, deps, held, usmVars, freed>>

\* The map fails with its wait list: no guard.
MapDone ==
  /\ Answered("map")
  /\ held' = IF AnyFailed THEN "slice" ELSE "guard"
  /\ call' = NoCall
  /\ UNCHANGED <<kind, devVars, useVars, deps, hq, usmVars, freed>>

MapSubmit(q) ==
  /\ AtHand /\ ~freed /\ kind # "usm"
  /\ q = "in" \/ LoosePending
  /\ Enqueue("map", q, PendingUses)
  /\ uses' = Running(uses) /\ hq' = q /\ held' = "pending"
  /\ UNCHANGED <<kind, used, deps, call, usmVars, freed>>

PendingWait ==
  /\ Idle /\ held = "pending"
  /\ Await("pending", {CHOOSE i \in Of({"map"}) : \A j \in Of({"map"}) : j <= i})
  /\ UNCHANGED <<kind, devVars, useVars, deps, held, hq, usmVars, freed>>

PendingDone ==
  /\ Answered("pending") /\ ~AnyFailed
  /\ held' = "guard" /\ call' = NoCall
  /\ UNCHANGED <<kind, devVars, useVars, deps, hq, usmVars, freed>>

\* An SVM guard records its unmap; that of a DeviceSlice is the driver's.
UnmapUse == IF kind = "svm" THEN uses \cup {Next1} ELSE uses

\* Dropping a guard, or a map in flight, enqueues the unmap and goes on.
GuardDrop ==
  /\ \/ Idle /\ held \in {"guard", "pending"}
     \/ Answered("pending") /\ AnyFailed
  /\ Enqueue("unguard", hq, {})
  /\ uses' = UnmapUse
  /\ held' = "slice" /\ call' = NoCall
  /\ UNCHANGED <<kind, used, deps, hq, usmVars, freed>>

\* A mutant of Released: what follows is not ordered after the unmap.
ReleasedLoose == {}

\* The dependency of what follows a release.
Released == {Next1}

\* The unmaps nothing has been ordered after yet; a caller keeps their events.
Loose == {i \in deps : cmds[i].op = "unmap"}

\* DeviceMappedReadGuard::release: the unmap's event orders what follows.
GuardRelease ==
  /\ Idle /\ held = "guard" /\ kind = "mem"
  /\ Enqueue("unmap", hq, {})
  /\ deps' = Loose \cup Released /\ held' = "slice"
  /\ UNCHANGED <<kind, useVars, hq, call, usmVars, freed>>

-----------------------------------------------------------------------------
(* Owned host views: the acquire and release nodes of a graph.             *)

\* Acquire, run by a blocking terminal.
Acquire(q) ==
  /\ AtHand /\ ~freed /\ kind # "usm"
  /\ Enqueue("map", q, deps \cup PendingUses)
  /\ uses' = Running(uses) /\ hq' = q /\ deps' = {}
  /\ Await("view", {Next1})
  /\ UNCHANGED <<kind, used, held, usmVars, freed>>

\* When the wait fails the view goes with the graph: ViewDrop.
ViewDone ==
  /\ Answered("view")
  /\ held' = IF AnyFailed THEN "lost" ELSE "view"
  /\ call' = NoCall
  /\ UNCHANGED <<kind, devVars, useVars, deps, hq, usmVars, freed>>

\* A view dropped without a release unmaps and waits; the slice goes with it.
ViewDrop ==
  /\ Idle /\ held \in {"view", "lost"}
  /\ Enqueue("unmap", hq, {})
  /\ Await("unview", {Next1})
  /\ UNCHANGED <<kind, useVars, deps, held, hq, usmVars, freed>>

Unviewed ==
  /\ Answered("unview")
  /\ uses' = IF kind = "svm" THEN uses \cup call.on ELSE uses
  /\ held' = "dropping" /\ call' = NoCall
  /\ UNCHANGED <<kind, devVars, used, deps, hq, usmVars, freed>>

\* Release: the unmap goes to the queue of the graph it is part of, and its
\* event is the dependency of what follows.
Release(q) ==
  /\ Idle /\ held = "view"
  /\ Enqueue("unmap", q, {})
  /\ uses' = UnmapUse
  /\ deps' = Released /\ held' = "slice"
  /\ UNCHANGED <<kind, used, hq, call, usmVars, freed>>

\* The unmap is refused: the slice is out of the view by then and is dropped.
ReleaseRefused ==
  /\ Idle /\ held = "view"
  /\ held' = "dropping"
  /\ UNCHANGED <<kind, devVars, useVars, deps, hq, call, usmVars, freed>>

-----------------------------------------------------------------------------
(* A USMSlice: host access under a flag, a list under a lock.              *)

\* A re-seed has the slice for itself.
Reseeding == \E t \in Threads : rd[t] \in {"reseed", "retook", "rewait"}

Reader(t) ==
  kind = "usm" /\ held = "slice" /\ Idle /\ ~freed /\ rd[t] = "out" /\ ~Reseeding

\* `self.used.load(Acquire)`
Flagged == used

Deref(t) ==
  /\ Reader(t)
  /\ rd' = [rd EXCEPT ![t] = IF Flagged THEN "check" ELSE "in"]
  /\ UNCHANGED <<kind, devVars, useVars, deps, hostVars, took, freed>>

\* wait_in_flight and reseed_sync: take the list, then clear the flag.
Take(t) ==
  /\ rd[t] \in {"check", "reseed"}
  /\ took' = [took EXCEPT ![t] = uses]
  /\ uses' = {}
  /\ rd' = [rd EXCEPT ![t] = IF @ = "check" THEN "took" ELSE "retook"]
  /\ UNCHANGED <<kind, devVars, used, deps, hostVars, freed>>

Clear(t) ==
  /\ rd[t] \in {"took", "retook"}
  /\ used' = FALSE
  /\ rd' = [rd EXCEPT ![t] = IF @ = "took" THEN "wait" ELSE "rewait"]
  /\ UNCHANGED <<kind, devVars, uses, deps, hostVars, took, freed>>

\* Every event of the list has been waited for, whatever came of it.
AllOver(S) == \A i \in S : Finished(i)

Enter(t) ==
  /\ rd[t] = "wait" /\ AllOver(took[t])
  /\ rd' = [rd EXCEPT ![t] = "in"] /\ took' = [took EXCEPT ![t] = {}]
  /\ UNCHANGED <<kind, devVars, useVars, deps, hostVars, freed>>

Leave(t) ==
  /\ rd[t] = "in"
  /\ rd' = [rd EXCEPT ![t] = "out"]
  /\ UNCHANGED <<kind, devVars, useVars, deps, hostVars, took, freed>>

\* reseed_sync takes the slice by `&mut`.
Reseed(t) ==
  /\ Reader(t) /\ AtHand
  /\ rd' = [rd EXCEPT ![t] = "reseed"]
  /\ UNCHANGED <<kind, devVars, useVars, deps, hostVars, took, freed>>

\* It waits for the events one by one and returns at the first that failed:
\* the others are forgotten.
Reseeded(t) ==
  /\ rd[t] = "rewait"
  /\ \/ (\A i \in took[t] : st[i] = "ok") /\ rd' = [rd EXCEPT ![t] = "in"]
     \/ /\ \E i \in took[t] : st[i] = "err" /\ \A j \in took[t] : j < i => Finished(j)
        /\ HastyReseed \/ AllOver(took[t])
        /\ rd' = [rd EXCEPT ![t] = "out"]
  /\ took' = [took EXCEPT ![t] = {}]
  /\ UNCHANGED <<kind, devVars, useVars, deps, hostVars, freed>>

-----------------------------------------------------------------------------
(* The end of the allocation.                                              *)

\* A mutant of FreeAfter: the free has no wait list.
FreeAfterNothing == {}

\* The wait list of the free: every recorded use.
FreeAfter == uses

Dropping == held = "dropping" \/ AtHand

\* MappedSlice: the free is a command of the default queue.
SvmDrop ==
  /\ Dropping /\ Idle /\ kind = "svm" /\ ~freed
  /\ cmds' = Append(cmds, [op |-> "free", q |-> "in", after |-> FreeAfter])
  /\ st' = Append(st, "queued")
  /\ uses' = {} /\ held' = "gone"
  /\ UNCHANGED <<kind, used, deps, hq, call, usmVars, freed>>

\* DeviceSlice: the driver keeps a cl_mem for the commands that use it.
MemDrop ==
  /\ Dropping /\ Idle /\ kind = "mem" /\ ~freed
  /\ cmds' = Append(cmds, [op |-> "free", q |-> "driver", after |-> {}])
  /\ st' = Append(st, "queued")
  /\ held' = "gone"
  /\ UNCHANGED <<kind, useVars, deps, hq, call, usmVars, freed>>

\* USMSlice: the host waits, then the Vec goes.
UsmDrop ==
  /\ AtHand /\ kind = "usm" /\ ~freed
  /\ uses' = {} /\ held' = "dropping"
  /\ Await("vec", uses)
  /\ UNCHANGED <<kind, devVars, used, deps, hq, usmVars, freed>>

VecDrop ==
  /\ Answered("vec")
  /\ freed' = TRUE /\ held' = "gone" /\ call' = NoCall
  /\ UNCHANGED <<kind, devVars, useVars, deps, hq, usmVars>>

-----------------------------------------------------------------------------

\* `MappedSlice::from_slice` leaves its unmap in the default queue.
Born(k) == IF k = "svm" THEN {<<>>, <<[op |-> "unguard", q |-> "in", after |-> {}]>>} ELSE {<<>>}

Init ==
  /\ kind \in Kinds /\ cmds \in Born(kind)
  /\ st = [i \in 1..Len(cmds) |-> "queued"]
  /\ uses = {} /\ used = FALSE /\ deps = {}
  /\ held = "slice" /\ hq = "in" /\ call = NoCall
  /\ rd = [t \in Threads |-> "out"] /\ took = [t \in Threads |-> {}]
  /\ freed = FALSE

\* A cl_mem is released once no command uses it.
DriverStart(i) == cmds[i].q = "driver" => \A j \in Ids \ {i} : Finished(j)

Device == \E i \in Ids : (DriverStart(i) /\ Start(i)) \/ Finish(i) \/ Abort(i)

Work == \E q \in Queues : Sync(q) \/ Submit(q)

Answer == SyncDone \/ MapDone \/ PendingDone \/ ViewDone \/ Unviewed \/ VecDrop

View ==
  \/ \E q \in Queues : MapBlocking(q) \/ MapSubmit(q) \/ Acquire(q) \/ Release(q)
  \/ PendingWait \/ GuardDrop \/ GuardRelease \/ ViewDrop \/ ReleaseRefused

Access == \E t \in Threads :
  Deref(t) \/ Take(t) \/ Clear(t) \/ Enter(t) \/ Leave(t) \/ Reseed(t) \/ Reseeded(t)

End == SvmDrop \/ MemDrop \/ UsmDrop

Next == Device \/ Work \/ Answer \/ View \/ Access \/ End

Spec == Init /\ [][Next]_vars

-----------------------------------------------------------------------------

Command == [op : {"kernel", "map", "unmap", "unguard", "free"},
            q : {"in", "ooo", "driver"}, after : SUBSET (Nat \ {0})]

\* The variables hold what their comments say.
TypeOK ==
  /\ kind \in Kinds /\ cmds \in Seq(Command)
  /\ st \in Seq({"queued", "running", "ok", "err"}) /\ Len(st) = Len(cmds)
  /\ uses \subseteq Ids /\ used \in BOOLEAN /\ deps \subseteq Ids
  /\ held \in {"slice", "pending", "guard", "view", "lost", "dropping", "gone"}
  /\ hq \in Queues \cup {"in"} /\ call.on \subseteq Ids
  /\ call.op \in {"none", "sync", "map", "pending", "view", "unview", "vec"}
  /\ rd \in [Threads -> {"out", "check", "took", "wait", "in", "reseed", "retook", "rewait"}]
  /\ took \in [Threads -> SUBSET Ids] /\ freed \in BOOLEAN

HostLooks == held \in {"guard", "view"} \/ \E t \in Threads : rd[t] = "in"

\* While the host reads or writes the memory through a guard, a view or a
\* deref, no kernel enqueued on it is still to run: every view waits for the
\* uses recorded on the storage (pending.rs, usm.rs: Deref).
ViewIsQuiet == HostLooks => \A i \in Of({"kernel"}) : Finished(i)

\* Once the memory is freed, or while the free runs, no command that uses it
\* is left (mapped.rs, usm.rs: Drop).
FreeIsLast ==
  freed \/ (\E i \in Of({"free"}) : st[i] = "running") =>
    \A i \in Ids \ Of({"free"}) : Finished(i)

\* The map that unmap u undoes: the last one before it.
MapOf(u) == {i \in Of({"map"}) : i < u /\ \A j \in Of({"map"}) : j < u => j <= i}

\* An unmap never runs before the map it undoes is over.
UnmapAfterMap == \A u \in Of({"unmap", "unguard"}) : st[u] # "queued" => \A i \in MapOf(u) : Finished(i)

\* While a kernel runs the host has nothing mapped: the map of every view is
\* undone before the kernel starts (mapped.rs, the module's promise that the
\* device's view is coherent at the boundaries of a map).
DeviceAlone ==
  \A k \in Of({"kernel"}) : st[k] = "running" =>
    /\ held \notin {"guard", "view"}
    /\ \A u \in Of({"unmap", "unguard"}) : u < k => Finished(u)
=============================================================================
