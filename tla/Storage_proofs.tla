--------------------------- MODULE Storage_proofs ---------------------------
(***************************************************************************)
(* Theorems about Storage, for any number of commands and any queues: the  *)
(* host looks at memory no kernel uses, kernels are behind the unmaps, the *)
(* free is last.                                                           *)
(*                                                                         *)
(* The inductive invariant IInv follows the events.  Accounted says that   *)
(* the record of uses (or a wait under way) knows every command that is    *)
(* not over, so a wait list built from it is complete; Mapped that a map   *)
(* in flight has such a list; Unmapped follows the dependencies a caller   *)
(* threads from a released view to the kernels behind it.                  *)
(***************************************************************************)
EXTENDS Storage, SequenceTheorems, TLAPS

Kernels == Of({"kernel"})
Unmaps == Of({"unmap"})
Last == Len(cmds)

\* At most one thread uses the slice.
Lone == \A s, t \in Threads : s = t

\* A command starts behind its wait list and its in-order queue; an unmap never
\* fails.
Behind == \A i \in Ids :
  /\ \A j \in cmds[i].after : j < i
  /\ st[i] \in {"running", "ok"} =>
       /\ \A j \in cmds[i].after : st[j] = "ok"
       /\ \A j \in Earlier(i) : Finished(j)
  /\ cmds[i].op \in {"unmap", "unguard"} => cmds[i].after = {} /\ st[i] # "err"

\* What the caller is in the middle of, and what it holds meanwhile.
Calls ==
  /\ call.op = "none" => call = NoCall
  /\ call.op \in {"sync", "map", "view"} => held = "slice"
  /\ call.op = "pending" => held = "pending"
  /\ call.op = "unview" => held \in {"view", "lost"}
  /\ call.op = "vec" => held = "dropping" /\ kind = "usm"
  /\ call.op \in {"sync", "map", "view", "pending", "unview"} => call.on = {Last} /\ Last \in Ids
  /\ call.op = "sync" => Last \in Kernels
  /\ call.op \in {"map", "view"} \/ held = "pending" => Last \in Of({"map"}) /\ kind # "usm"
  /\ held = "guard" \/ (held \in {"view", "lost"} /\ Idle) =>
       Last \in Of({"map"}) /\ Finished(Last) /\ kind # "usm"
  /\ held \in {"guard", "view"} /\ Idle => st[Last] = "ok"
  /\ call.op = "unview" => Last \in Unmaps /\ kind # "usm"
  /\ kind = "usm" /\ held = "dropping" => call.op = "vec"
  /\ kind = "usm" => held \in {"slice", "dropping", "gone"}
  /\ kind = "usm" => \A i \in Ids : cmds[i].op = "kernel"

\* Who is inside a USMSlice.
Inside ==
  /\ \A t \in Threads : rd[t] # "out" => kind = "usm" /\ held = "slice" /\ Idle
  /\ \A t \in Threads : rd[t] \notin {"took", "wait", "retook", "rewait"} => took[t] = {}
  /\ Lone => \A t \in Threads : rd[t] \in {"took", "wait", "retook", "rewait"} => uses = {}
  /\ Lone /\ kind = "usm" /\ ~used => uses = {}
  /\ call.op = "vec" => uses = {}

\* The record knows every use that is not over.
Accounted == \A i \in Ids : ~Finished(i) =>
  /\ cmds[i].op = "kernel" =>
       \/ i \in uses \/ held = "gone" \/ (kind = "usm" /\ HastyReseed)
       \/ call.op \in {"sync", "vec"} /\ i \in call.on
       \/ \E t \in Threads : i \in took[t]
  /\ kind = "svm" /\ cmds[i].op # "map" =>
       \/ i \in uses \/ cmds[i].q = "in" \/ held = "gone"
       \/ call.op = "unview" /\ i \in call.on
  /\ cmds[i].op = "map" =>
       \/ i = Last /\ (held = "pending" \/ call.op \in {"map", "view"})
       \/ cmds[i].q = "in" \/ LoosePending

\* While the host has a mapping, or waits for it, no kernel is behind it.
Mapped ==
  /\ call.op \in {"map", "view"} \/ held = "pending" =>
       \A k \in Kernels : ~Finished(k) => k \in cmds[Last].after
  /\ held \in {"guard", "view"} => \A k \in Kernels : Finished(k)
  /\ held = "pending" /\ ~LoosePending => hq = "in"
  /\ held = "pending" => cmds[Last].q = hq
  /\ Lone /\ ~HastyReseed => \A t \in Threads : rd[t] = "in" => \A k \in Kernels : Finished(k)

\* The free comes last.
Frees ==
  /\ held # "gone" => ~freed /\ Of({"free"}) = {}
  /\ \A f \in Of({"free"}) : f = Last /\ kind # "usm"
  /\ freed => \/ kind = "usm" /\ (HastyReseed \/ \A i \in Ids : Finished(i))
              \/ \E f \in Of({"free"}) : st[f] = "ok"
  /\ kind = "svm" => \A f \in Of({"free"}) :
       \A i \in Ids \ {f} : Finished(i) \/ i \in cmds[f].after \/ LoosePending
                              \/ (cmds[f].q = "in" /\ cmds[i].q = "in")
  /\ kind # "svm" => \A f \in Of({"free"}) :
       cmds[f].q = "driver" /\ (st[f] \in {"running", "ok"} => \A i \in Ids \ {f} : Finished(i))

\* Each unmap undoes a map that is over, or that its queue puts first.
Undoes == LoosePending \/ \A u \in Of({"unmap", "unguard"}) : \A i \in MapOf(u) :
  Finished(i) \/ (cmds[u].q = "in" /\ cmds[i].q = "in")

\* A kernel is behind every unmap of a dropped guard before it.
Guards == CrossQueue \/ \A k \in Kernels, u \in Of({"unguard"}) :
  u < k => Finished(u) \/ (cmds[k].q = "in" /\ cmds[u].q = "in")

\* S orders what waits for it behind unmap u.
Orders(S, u) == u \in S \/ \E k \in S : k \in Kernels /\ u < k

\* A set of events a caller orders work after: a kernel's, or unmaps'.
Plain(S) == S \subseteq Unmaps \/ \E k \in Kernels : S = {k}

\* A kernel is behind every released unmap before it, through the kernels between.
Unmapped ==
  /\ Plain(deps)
  /\ \A k \in Kernels : Plain(cmds[k].after)
  /\ \A k \in Kernels, u \in Unmaps : u < k /\ ~Finished(u) =>
       st[k] = "queued" /\ Orders(cmds[k].after, u)
  /\ \A u \in Unmaps : ~Finished(u) =>
       \/ Orders(deps, u) \/ held \in {"lost", "dropping", "gone"}
       \/ call.op = "unview"
       \/ call.op = "sync" /\ u < Last
       \/ call.op = "view" /\ Orders(cmds[Last].after, u)

\* A view has waited for all its caller had to wait for.
Cleared == call.op = "view" \/ held \in {"view", "lost"} => deps = {}

IInv ==
  /\ TypeOK /\ Behind /\ Calls /\ Inside /\ Accounted /\ Mapped /\ Frees
  /\ Undoes /\ Guards /\ Unmapped /\ Cleared

-----------------------------------------------------------------------------
(* Steps that enqueue a command, steps that do not.                        *)

LEMMA CommandTypes ==
  ASSUME TypeOK
  PROVE  /\ Last \in Nat /\ Ids = 1..Last /\ DOMAIN st = Ids
         /\ \A i \in Ids : /\ cmds[i].op \in {"kernel", "map", "unmap", "unguard", "free"}
                           /\ cmds[i].q \in {"in", "ooo", "driver"}
                           /\ cmds[i].after \subseteq Nat \ {0}
                           /\ st[i] \in {"queued", "running", "ok", "err"}
<1>1. Last \in Nat /\ Ids = 1..Last /\ Len(st) = Last
  BY DEF TypeOK, Last, Ids
<1>2. \A i \in Ids : cmds[i] \in Command /\ st[i] \in {"queued", "running", "ok", "err"}
  BY <1>1 DEF TypeOK, Last
<1>3. DOMAIN st = Ids
  BY <1>1 DEF TypeOK
<1>. QED  BY <1>1, <1>2, <1>3 DEF Command

\* What enqueueing does to the sequences.
Appended(op, q, after) ==
  /\ Len(cmds') = Last + 1 /\ Ids' = Ids \cup {Last + 1} /\ Last + 1 \notin Ids
  /\ Of({"kernel"})' = IF op = "kernel" THEN Kernels \cup {Last + 1} ELSE Kernels
  /\ \A i \in Ids : cmds'[i] = cmds[i] /\ st'[i] = st[i]
  /\ cmds'[Last + 1] = [op |-> op, q |-> q, after |-> after]
  /\ st'[Last + 1] = "queued"

LEMMA EnqueueAppends ==
  ASSUME TypeOK, NEW op, NEW q, NEW after,
         cmds' = Append(cmds, [op |-> op, q |-> q, after |-> after]),
         st' = Append(st, "queued")
  PROVE  Appended(op, q, after)
<1>1. Len(cmds) \in Nat /\ Len(st) = Len(cmds)
  BY DEF TypeOK
<1>2. Len(cmds') = Last + 1 /\ Ids' = Ids \cup {Last + 1} /\ Last + 1 \notin Ids
  BY <1>1 DEF TypeOK, Ids, Last
<1>3. \A i \in Ids : cmds'[i] = cmds[i] /\ st'[i] = st[i]
  BY <1>1 DEF TypeOK, Ids, Last
<1>4. cmds'[Last + 1] = [op |-> op, q |-> q, after |-> after]
  BY <1>1 DEF TypeOK, Last
<1>5. st'[Last + 1] = "queued"
  BY <1>1 DEF TypeOK, Last
<1>6. Of({"kernel"})' = IF op = "kernel" THEN Kernels \cup {Last + 1} ELSE Kernels
  <2>1. \A i \in Ids : cmds'[i].op = cmds[i].op
    BY <1>3
  <2>2. cmds'[Last + 1].op = op
    <3>1. [op |-> op, q |-> q, after |-> after].op = op
      OBVIOUS
    <3>. QED  BY <1>4, <3>1
  <2>3. Of({"kernel"})' = {i \in Ids' : cmds'[i].op \in {"kernel"}}
    BY DEF Of
  <2>4. Kernels = {i \in Ids : cmds[i].op \in {"kernel"}}
    BY DEF Of, Kernels
  <2>. QED  BY <1>2, <2>1, <2>2, <2>3, <2>4
<1>. QED  BY <1>2, <1>3, <1>4, <1>5, <1>6 DEF Appended

-----------------------------------------------------------------------------
(* The types.                                                              *)

LEMMA TypeEnqueue ==
  ASSUME TypeOK, NEW op \in {"kernel", "map", "unmap", "unguard", "free"},
         NEW q \in {"in", "ooo", "driver"}, NEW after \in SUBSET Ids,
         cmds' = Append(cmds, [op |-> op, q |-> q, after |-> after]),
         st' = Append(st, "queued")
  PROVE  /\ cmds' \in Seq(Command)
         /\ st' \in Seq({"queued", "running", "ok", "err"}) /\ Len(st') = Len(cmds')
         /\ Ids \subseteq Ids' /\ Last + 1 \in Ids'
<1>1. [op |-> op, q |-> q, after |-> after] \in Command
  BY DEF Command, Ids, TypeOK
<1>2. cmds \in Seq(Command) /\ st \in Seq({"queued", "running", "ok", "err"})
      /\ Len(st) = Len(cmds)
  BY DEF TypeOK
<1>3. cmds' \in Seq(Command)
  BY <1>1, <1>2
<1>4. st' \in Seq({"queued", "running", "ok", "err"}) /\ Len(st') = Len(cmds')
  BY <1>2
<1>5. Ids \subseteq Ids' /\ Last + 1 \in Ids'
  BY <1>2 DEF Ids, Last
<1>. QED  BY <1>3, <1>4, <1>5

LEMMA TypeStep ==
  ASSUME TypeOK, Calls, Next
  PROVE  TypeOK'
<1>. USE StorageAssumption
<1>1. ASSUME Device PROVE TypeOK'
  <2>. PICK i \in Ids : Start(i) \/ Finish(i) \/ Abort(i)
    BY <1>1 DEF Device
  <2>1. UNCHANGED <<kind, cmds, useVars, deps, hostVars, usmVars>> /\ freed' \in BOOLEAN
    BY DEF Start, Finish, Abort, TypeOK
  <2>2. \E v \in {"queued", "running", "ok", "err"} : st' = [st EXCEPT ![i] = v]
    BY DEF Start, Finish, Abort
  <2>3. st' \in Seq({"queued", "running", "ok", "err"}) /\ Len(st') = Len(cmds)
    BY <2>2, ExceptSeq DEF TypeOK, Ids
  <2>. QED  BY <2>1, <2>3 DEF TypeOK, Ids, useVars, hostVars, usmVars
<1>2. ASSUME NEW q \in Queues, Sync(q) PROVE TypeOK'
  <2>1. cmds' = Append(cmds, [op |-> "kernel", q |-> q, after |-> deps]) /\ st' = Append(st, "queued")
    BY <1>2 DEF Sync, Enqueue
  <2>. QED  BY <1>2, <2>1, TypeEnqueue DEF Sync, TypeOK, Registered, Await, Next1, Last,
     usmVars
<1>3. ASSUME NEW q \in Queues, Submit(q) PROVE TypeOK'
  <2>1. cmds' = Append(cmds, [op |-> "kernel", q |-> q, after |-> deps]) /\ st' = Append(st, "queued")
    BY <1>3 DEF Submit, Enqueue
  <2>. QED  BY <1>3, <2>1, TypeEnqueue DEF Submit, TypeOK, Registered, Recorded, Running,
     Next1, Last, usmVars, hostVars
<1>4. ASSUME NEW q \in Queues, MapBlocking(q) \/ MapSubmit(q) \/ Acquire(q) PROVE TypeOK'
  <2>1. \E a \in SUBSET Ids :
          cmds' = Append(cmds, [op |-> "map", q |-> q, after |-> a]) /\ st' = Append(st, "queued")
    <3>1. PendingUses \in SUBSET Ids /\ deps \cup PendingUses \in SUBSET Ids
      BY DEF PendingUses, Running, TypeOK
    <3>. QED  BY <1>4, <3>1 DEF MapBlocking, MapSubmit, Acquire, Enqueue
  <2>2. /\ cmds' \in Seq(Command)
        /\ st' \in Seq({"queued", "running", "ok", "err"}) /\ Len(st') = Len(cmds')
        /\ Ids \subseteq Ids' /\ Last + 1 \in Ids'
    BY <2>1, TypeEnqueue
  <2>. QED  BY <1>4, <2>2 DEF MapBlocking, MapSubmit, Acquire, Blocks, Running, TypeOK,
     Await, Next1, Last, usmVars, hostVars
<1>5. ASSUME GuardDrop \/ GuardRelease \/ ViewDrop \/ (\E q \in Queues : Release(q))
     PROVE TypeOK'
  <2>1. \E op \in {"unguard", "unmap"}, q \in {"in", "ooo"} :
          cmds' = Append(cmds, [op |-> op, q |-> q, after |-> {}]) /\ st' = Append(st, "queued")
    BY <1>5 DEF GuardDrop, GuardRelease, ViewDrop, Release, Enqueue, TypeOK
  <2>2. /\ cmds' \in Seq(Command)
        /\ st' \in Seq({"queued", "running", "ok", "err"}) /\ Len(st') = Len(cmds')
        /\ Ids \subseteq Ids' /\ Last + 1 \in Ids'
    <3>. PICK op \in {"unguard", "unmap"}, q \in {"in", "ooo"} :
           cmds' = Append(cmds, [op |-> op, q |-> q, after |-> {}]) /\ st' = Append(st, "queued")
      BY <2>1
    <3>1. op \in {"kernel", "map", "unmap", "unguard", "free"} /\ q \in {"in", "ooo", "driver"}
          /\ {} \in SUBSET Ids
      OBVIOUS
    <3>. QED  BY <3>1, TypeEnqueue
  <2>. QED  BY <1>5, <2>2 DEF GuardDrop, GuardRelease, ViewDrop, Release, Released, Loose,
     UnmapUse, NoCall, TypeOK, Await, Next1, Last, usmVars, hostVars, useVars
<1>6. ASSUME SvmDrop \/ MemDrop PROVE TypeOK'
  <2>1. /\ cmds' \in Seq(Command)
        /\ st' \in Seq({"queued", "running", "ok", "err"}) /\ Len(st') = Len(cmds')
        /\ Ids \subseteq Ids' /\ Last + 1 \in Ids'
    <3>1. CASE SvmDrop
      <4>1. cmds' = Append(cmds, [op |-> "free", q |-> "in", after |-> uses]) /\ st' = Append(st, "queued")
        BY <3>1 DEF SvmDrop, FreeAfter
      <4>2. uses \in SUBSET Ids
        BY DEF TypeOK
      <4>. QED  BY <4>1, <4>2, TypeEnqueue
    <3>2. CASE MemDrop
      <4>1. cmds' = Append(cmds, [op |-> "free", q |-> "driver", after |-> {}]) /\ st' = Append(st, "queued")
        BY <3>2 DEF MemDrop
      <4>. QED  BY <4>1, TypeEnqueue
    <3>. QED  BY <1>6, <3>1, <3>2
  <2>. QED  BY <1>6, <2>1 DEF SvmDrop, MemDrop, TypeOK, usmVars, useVars
<1>7. ASSUME Answer \/ PendingWait \/ ReleaseRefused \/ UsmDrop PROVE TypeOK'
  <2>1. UNCHANGED <<kind, cmds, st, used, deps, hq, rd, took>> /\ freed' \in BOOLEAN
    BY <1>7 DEF Answer, SyncDone, MapDone, PendingDone, ViewDone, Unviewed, VecDrop,
       PendingWait, ReleaseRefused, UsmDrop, devVars, useVars, usmVars, hostVars, TypeOK
  <2>2. held' \in {"slice", "pending", "guard", "view", "lost", "dropping", "gone"}
    BY <1>7 DEF Answer, SyncDone, MapDone, PendingDone, ViewDone, Unviewed, VecDrop,
       PendingWait, ReleaseRefused, UsmDrop, TypeOK
  <2>3. uses' \subseteq Ids
    BY <1>7 DEF Answer, SyncDone, MapDone, PendingDone, ViewDone, Unviewed, VecDrop,
       PendingWait, ReleaseRefused, UsmDrop, useVars, TypeOK
  <2>4. call'.on \subseteq Ids /\ call'.op \in {"none", "sync", "map", "pending", "view", "unview", "vec"}
    <3>1. CASE PendingWait
      <4>1. Last \in Of({"map"}) /\ Of({"map"}) \subseteq Ids /\ Of({"map"}) \subseteq 1..Last
        BY <3>1 DEF PendingWait, Calls, Of, Ids, Last
      <4>2. Last \in Nat
        BY DEF TypeOK, Last
      <4>3. (CHOOSE i \in Of({"map"}) : \A j \in Of({"map"}) : j <= i) \in Of({"map"})
        <5>1. \E i \in Of({"map"}) : \A j \in Of({"map"}) : j <= i
          BY <4>1, <4>2
        <5>. QED  BY <5>1
      <4>. QED  BY <3>1, <4>1, <4>3 DEF PendingWait, Await
    <3>2. CASE Answer \/ ReleaseRefused \/ UsmDrop
      BY <3>2 DEF Answer, SyncDone, MapDone, PendingDone, ViewDone, Unviewed, VecDrop,
         ReleaseRefused, UsmDrop, Await, NoCall, TypeOK
    <3>. QED  BY <1>7, <3>1, <3>2
  <2>. QED  BY <2>1, <2>2, <2>3, <2>4 DEF TypeOK, Ids
<1>8. ASSUME Access PROVE TypeOK'
  <2>1. UNCHANGED <<kind, cmds, st, deps, held, hq, call, freed>> /\ uses' \subseteq Ids /\ used' \in BOOLEAN
    BY <1>8 DEF Access, Deref, Take, Clear, Enter, Leave, Reseed, Reseeded, devVars,
       useVars, hostVars, TypeOK
  <2>2. took' \in [Threads -> SUBSET Ids]
    BY <1>8 DEF Access, Deref, Take, Clear, Enter, Leave, Reseed, Reseeded, TypeOK
  <2>3. rd' \in [Threads -> {"out", "check", "took", "wait", "in", "reseed", "retook", "rewait"}]
    BY <1>8 DEF Access, Deref, Take, Clear, Enter, Leave, Reseed, Reseeded, TypeOK
  <2>. QED  BY <2>1, <2>2, <2>3 DEF TypeOK, Ids
<1>. QED  BY <1>1, <1>2, <1>3, <1>4, <1>5, <1>6, <1>7, <1>8 DEF Next, Work, View, End

-----------------------------------------------------------------------------
(* What a step does to the commands.                                       *)

\* What each enqueueing step appends.
LEMMA Enqueues ==
  ASSUME TypeOK
  PROVE  /\ \A q \in Queues : Sync(q) \/ Submit(q) => Appended("kernel", q, deps)
         /\ \A q \in Queues : MapBlocking(q) \/ MapSubmit(q) => Appended("map", q, Running(uses))
         /\ \A q \in Queues : Acquire(q) => Appended("map", q, deps \cup Running(uses))
         /\ \A q \in Queues : Release(q) => Appended("unmap", q, {})
         /\ GuardRelease \/ ViewDrop => Appended("unmap", hq, {})
         /\ GuardDrop => Appended("unguard", hq, {})
         /\ SvmDrop => Appended("free", "in", uses)
         /\ MemDrop => Appended("free", "driver", {})
<1>1. ASSUME NEW q \in Queues, Sync(q) \/ Submit(q) PROVE Appended("kernel", q, deps)
  BY <1>1, EnqueueAppends DEF Sync, Submit, Enqueue
<1>2. ASSUME NEW q \in Queues, MapBlocking(q) \/ MapSubmit(q)
      PROVE Appended("map", q, Running(uses))
  BY <1>2, EnqueueAppends DEF MapBlocking, MapSubmit, Enqueue, PendingUses
<1>3. ASSUME NEW q \in Queues, Acquire(q) PROVE Appended("map", q, deps \cup Running(uses))
  BY <1>3, EnqueueAppends DEF Acquire, Enqueue, PendingUses
<1>4. ASSUME NEW q \in Queues, Release(q) PROVE Appended("unmap", q, {})
  BY <1>4, EnqueueAppends DEF Release, Enqueue
<1>5. ASSUME GuardRelease \/ ViewDrop PROVE Appended("unmap", hq, {})
  BY <1>5, EnqueueAppends DEF GuardRelease, ViewDrop, Enqueue
<1>6. ASSUME GuardDrop PROVE Appended("unguard", hq, {})
  BY <1>6, EnqueueAppends DEF GuardDrop, Enqueue
<1>7. ASSUME SvmDrop PROVE Appended("free", "in", uses)
  BY <1>7, EnqueueAppends DEF SvmDrop, FreeAfter
<1>8. ASSUME MemDrop PROVE Appended("free", "driver", {})
  BY <1>8, EnqueueAppends DEF MemDrop
<1>. QED  BY <1>1, <1>2, <1>3, <1>4, <1>5, <1>6, <1>7, <1>8

\* A step of the device moves one command on.
Moved(i) ==
  /\ i \in Ids /\ Last' = Last /\ Ids' = Ids
  /\ UNCHANGED <<kind, cmds, uses, used, deps, held, hq, call, rd, took>>
  /\ \A j \in Ids \ {i} : st'[j] = st[j]
  /\ st[i] \in {"queued", "running"}
  /\ st'[i] \in {"running", "ok", "err"}
  /\ st'[i] = "running" => /\ st[i] = "queued" /\ DriverStart(i) /\ freed' = freed
                           /\ \A j \in cmds[i].after : st[j] = "ok"
                           /\ \A j \in Earlier(i) : Finished(j)
  /\ st'[i] = "ok" => st[i] = "running" /\ freed' = (freed \/ cmds[i].op = "free")
  /\ st'[i] = "err" =>
       \/ cmds[i].op = "kernel" /\ st[i] = "running" /\ freed' = freed
       \/ \E j \in cmds[i].after : st[j] = "err" /\ st[i] = "queued" /\ freed' = freed

LEMMA DeviceMoves ==
  ASSUME TypeOK, Device
  PROVE  \E i \in Ids : Moved(i)
<1>. PICK i \in Ids : (DriverStart(i) /\ Start(i)) \/ Finish(i) \/ Abort(i)
  BY DEF Device
<1>1. UNCHANGED <<kind, cmds, uses, used, deps, held, hq, call, rd, took>>
  BY DEF Start, Finish, Abort, useVars, hostVars, usmVars
<1>2. Last' = Last /\ Ids' = Ids
  BY <1>1 DEF Last, Ids
<1>3. DOMAIN st = Ids
  BY DEF TypeOK, Ids
<1>4. CASE DriverStart(i) /\ Start(i)
  BY <1>1, <1>2, <1>3, <1>4 DEF Start, Moved
<1>5. CASE Abort(i)
  BY <1>1, <1>2, <1>3, <1>5 DEF Abort, Moved
<1>6. CASE Finish(i)
  <2>1. i \in Ids /\ st[i] = "running" /\ freed' = (freed \/ cmds[i].op = "free")
    BY <1>6 DEF Finish
  <2>2. \/ st' = [st EXCEPT ![i] = "ok"]
        \/ cmds[i].op = "kernel" /\ st' = [st EXCEPT ![i] = "err"]
    BY <1>6 DEF Finish
  <2>3. \A j \in Ids \ {i} : st'[j] = st[j]
    BY <1>3, <2>2
  <2>4. \/ st'[i] = "ok"
        \/ st'[i] = "err" /\ cmds[i].op = "kernel" /\ freed' = freed
    <3>1. st' = [st EXCEPT ![i] = "ok"] => st'[i] = "ok"
      BY <1>3, <2>1
    <3>2. st' = [st EXCEPT ![i] = "err"] => st'[i] = "err"
      BY <1>3, <2>1
    <3>3. cmds[i].op = "kernel" => cmds[i].op # "free"
      OBVIOUS
    <3>4. freed \in BOOLEAN
      BY DEF TypeOK
    <3>5. cmds[i].op = "kernel" => freed' = freed
      BY <2>1, <3>3, <3>4
    <3>. QED  BY <2>2, <3>1, <3>2, <3>5
  <2>. QED  BY <1>1, <1>2, <2>1, <2>3, <2>4 DEF Moved
<1>. QED  BY <1>4, <1>5, <1>6

\* The other steps leave the device alone.
Kept == UNCHANGED <<cmds, st>> /\ Last' = Last /\ Ids' = Ids

LEMMA HostKeeps ==
  ASSUME Answer \/ PendingWait \/ ReleaseRefused \/ UsmDrop \/ Access
  PROVE  Kept
BY DEF Answer, SyncDone, MapDone, PendingDone, ViewDone, Unviewed, VecDrop, PendingWait,
       ReleaseRefused, UsmDrop, Access, Deref, Take, Clear, Enter, Leave, Reseed, Reseeded,
       devVars, Kept, Last, Ids

\* So a command never changes, and one that is over stays over.
LEMMA Onward ==
  ASSUME TypeOK, Next
  PROVE  /\ Ids \subseteq Ids' /\ Last \in Nat /\ Ids = 1..Last
         /\ \A i \in Ids : cmds'[i] = cmds[i]
         /\ \A i \in Ids : Finished(i) => st'[i] = st[i] /\ Finished(i)'
<1>1. ASSUME NEW op, NEW q, NEW a, Appended(op, q, a)
      PROVE  /\ Ids \subseteq Ids'
             /\ \A i \in Ids : cmds'[i] = cmds[i]
             /\ \A i \in Ids : Finished(i) => st'[i] = st[i] /\ Finished(i)'
  BY <1>1 DEF Appended, Finished
<1>2. ASSUME Device
      PROVE  /\ Ids \subseteq Ids'
             /\ \A i \in Ids : cmds'[i] = cmds[i]
             /\ \A i \in Ids : Finished(i) => st'[i] = st[i] /\ Finished(i)'
  BY <1>2, DeviceMoves DEF Moved, Finished
<1>3. ASSUME Kept
      PROVE  /\ Ids \subseteq Ids'
             /\ \A i \in Ids : cmds'[i] = cmds[i]
             /\ \A i \in Ids : Finished(i) => st'[i] = st[i] /\ Finished(i)'
  BY <1>3 DEF Kept, Finished
<1>4. Last \in Nat /\ Ids = 1..Last
  BY DEF TypeOK, Last, Ids
<1>5. Device \/ Kept \/ \E op, q, a : Appended(op, q, a)
  BY Enqueues, HostKeeps DEF Next, Work, View, End
<1>. QED  BY <1>1, <1>2, <1>3, <1>4, <1>5

LEMMA BehindStep ==
  ASSUME TypeOK, Behind, Next
  PROVE  Behind'
<1>1. ASSUME NEW op, NEW q, NEW a \in SUBSET Ids, Appended(op, q, a),
             op \in {"unmap", "unguard"} => a = {}
      PROVE  Behind'
  <2>. SUFFICES ASSUME NEW i \in Ids'
                PROVE  /\ \A j \in cmds'[i].after : j < i
                       /\ st'[i] \in {"running", "ok"} =>
                            /\ \A j \in cmds'[i].after : st'[j] = "ok"
                            /\ \A j \in Earlier(i)' : Finished(j)'
                       /\ cmds'[i].op \in {"unmap", "unguard"} =>
                            cmds'[i].after = {} /\ st'[i] # "err"
    BY DEF Behind
  <2>1. CASE i = Last + 1
    BY <1>1, <2>1 DEF Appended, Ids, Last, TypeOK
  <2>2. CASE i \in Ids
    <3>1. cmds'[i] = cmds[i] /\ st'[i] = st[i] /\ Ids = 1..Last /\ Last \in Nat
      BY <1>1, <2>2 DEF Appended, Ids, Last, TypeOK
    <3>2. cmds[i].after \subseteq Nat \ {0}
      BY <2>2, CommandTypes
    <3>3. \A j \in cmds[i].after : j \in Ids /\ st'[j] = st[j]
      BY <1>1, <2>2, <3>1, <3>2 DEF Appended, Behind
    <3>4. Earlier(i)' = Earlier(i) /\ \A j \in Earlier(i) : Finished(j)' = Finished(j)
      <4>1. \A j \in 1..(i - 1) : j \in Ids
        BY <2>2, <3>1
      <4>2. \A j \in 1..(i - 1) : cmds'[j] = cmds[j] /\ st'[j] = st[j]
        BY <1>1, <4>1 DEF Appended
      <4>3. Earlier(i) \subseteq 1..(i - 1)
        BY DEF Earlier
      <4>. QED  BY <3>1, <4>2, <4>3 DEF Earlier, Finished
    <3>. QED  BY <2>2, <3>1, <3>3, <3>4 DEF Behind
  <2>. QED  BY <1>1, <2>1, <2>2 DEF Appended
<1>2. ASSUME Device PROVE Behind'
  <2>. PICK i \in Ids : Moved(i)
    BY <1>2, DeviceMoves
  <2>1. \A j \in Ids : Earlier(j)' = Earlier(j) /\ Earlier(j) \subseteq Ids
    BY DEF Moved, Earlier, Ids, TypeOK
  <2>2. \A j \in Ids : cmds[j].after \subseteq Ids
    BY CommandTypes DEF Behind
  <2>3. \A j \in Ids : Finished(j) => Finished(j)' /\ st'[j] = st[j]
    BY DEF Moved, Finished
  <2>. QED  BY <2>1, <2>2, <2>3 DEF Moved, Behind, Finished
<1>3. ASSUME Kept PROVE Behind'
  BY <1>3 DEF Kept, Behind, Earlier, Finished
<1>4. deps \in SUBSET Ids /\ Running(uses) \in SUBSET Ids /\ uses \in SUBSET Ids
  BY DEF TypeOK, Running
<1>5. ASSUME Work \/ View \/ End PROVE Behind'
  <2>1. CASE \E q \in Queues : Sync(q) \/ Submit(q)
    BY <1>1, <1>4, <2>1, Enqueues
  <2>2. CASE \E q \in Queues : MapBlocking(q) \/ MapSubmit(q) \/ Acquire(q)
    BY <1>1, <1>4, <2>2, Enqueues
  <2>3. CASE GuardDrop \/ GuardRelease \/ ViewDrop \/ \E q \in Queues : Release(q)
    BY <1>1, <2>3, Enqueues
  <2>4. CASE SvmDrop \/ MemDrop
    BY <1>1, <1>4, <2>4, Enqueues
  <2>5. CASE PendingWait \/ ReleaseRefused \/ UsmDrop
    BY <1>3, <2>5, HostKeeps
  <2>. QED  BY <1>5, <2>1, <2>2, <2>3, <2>4, <2>5 DEF Work, View, End
<1>. QED  BY <1>2, <1>3, <1>5, HostKeeps DEF Next

-----------------------------------------------------------------------------
(* What the caller is in the middle of.                                    *)

\* A host action moves the call, and what is held, and never the commands.
LEMMA CallsStep ==
  ASSUME TypeOK, Behind, Calls, Inside, Next
  PROVE  Calls'
<1>. USE DEF Idle, NoCall, Await, AtHand, Answered, Next1
<1>1. Last \in Nat /\ Ids = 1..Last
  BY CommandTypes
<1>2. ASSUME Device PROVE Calls'
  <2>. PICK i \in Ids : Moved(i)
    BY <1>2, DeviceMoves
  <2>1. Of({"map"})' = Of({"map"}) /\ Kernels' = Kernels /\ Unmaps' = Unmaps
    BY DEF Moved, Of, Kernels, Unmaps
  <2>2. \A j \in Ids : Finished(j) => Finished(j)' /\ st'[j] = st[j]
    BY DEF Moved, Finished
  <2>. QED  BY <2>1, <2>2 DEF Moved, Calls, Of
<1>3. ASSUME NEW q \in Queues, Sync(q) PROVE Calls'
  <2>1. Appended("kernel", q, deps)
    BY <1>3, Enqueues
  <2>2. Last' = Last + 1 /\ Last' \in Kernels'
    BY <2>1, <1>1 DEF Appended, Kernels, Of, Last
  <2>. QED  BY <1>1, <1>3, <2>1, <2>2 DEF Sync, Calls, Appended, Last, Finished
<1>4. ASSUME NEW q \in Queues, Submit(q) PROVE Calls'
  <2>1. Appended("kernel", q, deps)
    BY <1>4, Enqueues
  <2>. QED  BY <1>1, <1>4, <2>1 DEF Submit, Calls, Appended, hostVars
<1>5. ASSUME NEW q \in Queues, MapBlocking(q) \/ MapSubmit(q) \/ Acquire(q) PROVE Calls'
  <2>1. \E a : Appended("map", q, a)
    BY <1>5, Enqueues
  <2>2. Last' = Last + 1 /\ Last' \in Of({"map"})' /\ Last' \in Ids'
    BY <2>1, <1>1 DEF Appended, Of, Last
  <2>. QED  BY <1>1, <1>5, <2>2 DEF MapBlocking, MapSubmit, Acquire, Calls, Blocks, Last
<1>6. ASSUME ViewDrop PROVE Calls'
  <2>1. Appended("unmap", hq, {})
    BY <1>6, Enqueues
  <2>2. Last' = Last + 1 /\ Last' \in Unmaps' /\ Last' \in Ids'
    BY <2>1, <1>1 DEF Appended, Of, Last, Unmaps
  <2>. QED  BY <1>1, <1>6, <2>2 DEF ViewDrop, Calls, Last
<1>7. ASSUME GuardDrop \/ GuardRelease \/ SvmDrop \/ MemDrop \/ \E q \in Queues : Release(q)
     PROVE Calls'
  BY <1>7 DEF GuardDrop, GuardRelease, SvmDrop, MemDrop, Release, Calls, Dropping
<1>8. ASSUME Answer \/ PendingWait \/ ReleaseRefused \/ UsmDrop \/ Access PROVE Calls'
  <2>1. Kept /\ Of({"map"})' = Of({"map"}) /\ Kernels' = Kernels /\ Unmaps' = Unmaps
    BY <1>8, HostKeeps DEF Kept, Of, Kernels, Unmaps
  <2>2. \A i \in Ids : Finished(i)' = Finished(i)
    BY <2>1 DEF Kept, Finished
  <2>3. CASE SyncDone \/ MapDone \/ Unviewed \/ VecDrop
    BY <2>1, <2>2, <2>3 DEF SyncDone, MapDone, Unviewed, VecDrop, Calls, Kept, AnyFailed,
       Finished, TypeOK
  <2>4. CASE PendingDone \/ ViewDone
    BY <2>1, <2>2, <2>4 DEF PendingDone, ViewDone, Calls, Kept, AnyFailed, Finished, TypeOK
  <2>5. CASE PendingWait
    <3>1. Of({"map"}) \subseteq 1..Last /\ Last \in Of({"map"})
      BY <1>1, <2>5 DEF PendingWait, Calls, Of
    <3>2. (CHOOSE i \in Of({"map"}) : \A j \in Of({"map"}) : j <= i) = Last
      <4>1. \A j \in Of({"map"}) : j <= Last
        BY <1>1, <3>1
      <4>2. \A i \in Of({"map"}) : (\A j \in Of({"map"}) : j <= i) => i = Last
        BY <1>1, <3>1
      <4>. QED  BY <3>1, <4>1, <4>2
    <3>. QED  BY <2>1, <2>2, <2>5, <3>1, <3>2 DEF PendingWait, Calls, Kept, Of
  <2>6. CASE ReleaseRefused \/ UsmDrop \/ Access
    <3>1. UNCHANGED kind /\ (Access => UNCHANGED <<held, call>>)
      BY <2>6 DEF ReleaseRefused, UsmDrop, Access, Deref, Take, Clear, Enter, Leave, Reseed,
         Reseeded, hostVars
    <3>2. CASE Access
      BY <2>1, <2>2, <3>1, <3>2 DEF Calls, Kept, Of
    <3>3. CASE ReleaseRefused \/ UsmDrop
      BY <2>1, <2>2, <3>3 DEF ReleaseRefused, UsmDrop, Calls, Kept, Of
    <3>. QED  BY <2>6, <3>2, <3>3
  <2>. QED  BY <1>8, <2>3, <2>4, <2>5, <2>6 DEF Answer
<1>. QED  BY <1>2, <1>3, <1>4, <1>5, <1>6, <1>7, <1>8 DEF Next, Work, View, End

LEMMA InsideStep ==
  ASSUME TypeOK, Calls, Inside, Next
  PROVE  Inside'
<1>. USE DEF Idle, NoCall, Await, AtHand, Answered
<1>1. ASSUME Device PROVE Inside'
  BY <1>1, DeviceMoves DEF Moved, Inside
<1>2. ASSUME Work PROVE Inside'
  <2>1. UNCHANGED <<kind, rd, took>> /\ call'.op # "vec"
    BY <1>2 DEF Work, Sync, Submit, usmVars, hostVars
  <2>2. \A t \in Threads : rd[t] = "out"
    BY <1>2 DEF Work, Sync, Submit
  <2>3. used' = (used \/ kind = "usm")
    BY <1>2 DEF Work, Sync, Submit
  <2>4. kind = "usm" => used' = TRUE
    BY <2>3 DEF TypeOK
  <2>. QED  BY <2>1, <2>2, <2>4 DEF Inside
<1>3. ASSUME View \/ SvmDrop \/ MemDrop PROVE Inside'
  <2>1. UNCHANGED <<kind, rd, took, used>>
    BY <1>3 DEF View, MapBlocking, MapSubmit, Acquire, Release, PendingWait, GuardDrop,
       GuardRelease, ViewDrop, ReleaseRefused, SvmDrop, MemDrop, usmVars, useVars
  <2>2. \A t \in Threads : rd[t] = "out"
    BY <1>3 DEF View, MapBlocking, MapSubmit, Acquire, Release, PendingWait, GuardDrop,
       GuardRelease, ViewDrop, ReleaseRefused, SvmDrop, MemDrop, Inside, Dropping
  <2>3. kind # "usm"
    BY <1>3 DEF View, MapBlocking, MapSubmit, Acquire, Release, PendingWait, GuardDrop,
       GuardRelease, ViewDrop, ReleaseRefused, SvmDrop, MemDrop, Calls
  <2>4. call'.op # "vec"
    BY <1>3, <2>3 DEF View, MapBlocking, MapSubmit, Acquire, Release, PendingWait,
       GuardDrop, GuardRelease, ViewDrop, ReleaseRefused, SvmDrop, MemDrop, Calls, hostVars
  <2>. QED  BY <2>1, <2>2, <2>3, <2>4 DEF Inside
<1>4. ASSUME Answer \/ UsmDrop PROVE Inside'
  <2>1. UNCHANGED <<kind, rd, took, used>>
    BY <1>4 DEF Answer, SyncDone, MapDone, PendingDone, ViewDone, Unviewed, VecDrop,
       UsmDrop, usmVars, useVars
  <2>2. \A t \in Threads : rd[t] = "out"
    BY <1>4 DEF Answer, SyncDone, MapDone, PendingDone, ViewDone, Unviewed, VecDrop,
       UsmDrop, Inside
  <2>3. /\ uses' = uses \/ uses' = {} \/ kind # "usm"
        /\ call'.op = "vec" => uses' = {} \/ (uses' = uses /\ call.op = "vec")
    BY <1>4 DEF Answer, SyncDone, MapDone, PendingDone, ViewDone, Unviewed, VecDrop,
       UsmDrop, usmVars, useVars
  <2>. QED  BY <2>1, <2>2, <2>3 DEF Inside
<1>5. ASSUME NEW t \in Threads,
             Deref(t) \/ Take(t) \/ Clear(t) \/ Enter(t) \/ Leave(t) \/ Reseed(t) \/ Reseeded(t)
      PROVE  Inside'
  <2>1. UNCHANGED <<kind, held, call>>
    BY <1>5 DEF Deref, Take, Clear, Enter, Leave, Reseed, Reseeded, hostVars
  <2>2. CASE Deref(t) \/ Leave(t) \/ Reseed(t)
    BY <2>1, <2>2 DEF Deref, Leave, Reseed, Reader, Inside, TypeOK, useVars
  <2>3. CASE Take(t) \/ Clear(t)
    BY <2>1, <2>3 DEF Take, Clear, Inside, Lone, TypeOK
  <2>4. CASE Enter(t) \/ Reseeded(t)
    BY <2>1, <2>4 DEF Enter, Reseeded, Inside, Lone, TypeOK, useVars
  <2>. QED  BY <1>5, <2>2, <2>3, <2>4
<1>. QED  BY <1>1, <1>2, <1>3, <1>4, <1>5 DEF Next, Access, End, View

-----------------------------------------------------------------------------
(* The record of uses.                                                     *)

\* What Accounted says of command i.
Known(i) ==
  /\ cmds[i].op = "kernel" =>
       \/ i \in uses \/ held = "gone" \/ (kind = "usm" /\ HastyReseed)
       \/ call.op \in {"sync", "vec"} /\ i \in call.on
       \/ \E t \in Threads : i \in took[t]
  /\ kind = "svm" /\ cmds[i].op # "map" =>
       \/ i \in uses \/ cmds[i].q = "in" \/ held = "gone"
       \/ call.op = "unview" /\ i \in call.on
  /\ cmds[i].op = "map" =>
       \/ i = Last /\ (held = "pending" \/ call.op \in {"map", "view"})
       \/ cmds[i].q = "in" \/ LoosePending

LEMMA AccountedStep ==
  ASSUME TypeOK, Calls, Inside, Accounted, Mapped, Next
  PROVE  Accounted'
<1>. USE DEF Idle, NoCall, Await, AtHand, Answered, Next1
<1>1. /\ Last \in Nat /\ Ids = 1..Last
      /\ \A i \in Ids : ~Finished(i) => Known(i)
  BY CommandTypes DEF Accounted, Known
<1>. PICK n \in Nat : n = Last + 1
  BY <1>1
<1>2. (\A i \in Ids' : ~Finished(i)' => Known(i)') => Accounted'
  BY DEF Accounted, Known
<1>3. ASSUME Device PROVE Accounted'
  <2>. PICK i \in Ids : Moved(i)
    BY <1>3, DeviceMoves
  <2>1. \A j \in Ids : Finished(j) => Finished(j)'
    BY DEF Moved, Finished
  <2>2. \A j \in Ids : Known(j) => Known(j)'
    BY DEF Moved, Known
  <2>. QED  BY <1>1, <1>2, <2>1, <2>2 DEF Moved
<1>4. ASSUME NEW op, NEW q, NEW a, Appended(op, q, a),
             Known(n)', \A i \in Ids : ~Finished(i) /\ Known(i) => Known(i)'
      PROVE  Accounted'
  BY <1>1, <1>2, <1>4 DEF Appended, Finished
<1>5. ASSUME NEW q \in Queues, Sync(q) \/ Submit(q) PROVE Accounted'
  <2>1. Appended("kernel", q, deps)
    BY <1>5, Enqueues
  <2>2. uses' = uses \cup {n} \/ uses' = Running(uses) \cup {n}
        \/ (uses' = uses /\ kind = "mem" /\ call'.op = "sync" /\ n \in call'.on)
    BY <1>5 DEF Sync, Submit, Registered, Recorded, Last
  <2>3. held' = held /\ held = "slice" /\ kind' = kind /\ took' = took /\ call.op = "none"
        /\ \A t \in Threads : took[t] = {}
    BY <1>5 DEF Sync, Submit, hostVars, usmVars, Inside
  <2>4. Known(n)'
    BY <2>1, <2>2, <2>3 DEF Known, Appended
  <2>5. \A i \in Ids : ~Finished(i) /\ Known(i) => Known(i)'
    BY <1>1, <2>1, <2>2, <2>3 DEF Known, Appended, Running
  <2>. QED  BY <1>4, <2>1, <2>4, <2>5
<1>6. ASSUME NEW q \in Queues, MapBlocking(q) \/ MapSubmit(q) \/ Acquire(q) PROVE Accounted'
  <2>1. \E a : Appended("map", q, a)
    BY <1>6, Enqueues
  <2>2. uses' = Running(uses) /\ kind' = kind /\ took' = took /\ call.op = "none" /\ held = "slice"
        /\ (held' = "pending" \/ (held' = held /\ call'.op \in {"map", "view"}))
    BY <1>6 DEF MapBlocking, MapSubmit, Acquire, usmVars
  <2>3. Known(n)'
    BY <1>1, <2>1, <2>2 DEF Known, Appended, Last
  <2>4. \A i \in Ids : ~Finished(i) /\ Known(i) => Known(i)'
    BY <1>1, <2>1, <2>2 DEF Known, Appended, Running
  <2>. QED  BY <1>4, <2>1, <2>3, <2>4
<1>7. ASSUME GuardDrop \/ GuardRelease \/ ViewDrop \/ \E q \in Queues : Release(q)
     PROVE Accounted'
  <2>0. /\ \A i \in Ids : ~Finished(i) /\ cmds[i].op = "map" => cmds[i].q = "in" \/ LoosePending \/ held = "pending"
        /\ held = "pending" => GuardDrop
        /\ call.op \in {"none", "pending"}
    BY <1>1, <1>7 DEF GuardDrop, GuardRelease, ViewDrop, Release, Known, Calls
  <2>1. \E op \in {"unmap", "unguard"}, q \in Queues \cup {"in"} : Appended(op, q, {})
    BY <1>7, Enqueues DEF TypeOK
  <2>2. /\ kind' = kind /\ took' = took /\ held # "gone" /\ uses \subseteq uses'
        /\ kind = "svm" => n \in uses' \/ (call'.op = "unview" /\ n \in call'.on)
    BY <1>7 DEF GuardDrop, GuardRelease, ViewDrop, Release, UnmapUse, Last, Calls, usmVars,
       hostVars, useVars
  <2>3. Known(n)'
    BY <2>1, <2>2 DEF Known, Appended
  <2>4. \A i \in Ids : ~Finished(i) /\ Known(i) /\ (cmds[i].op = "map" => cmds[i].q = "in" \/ LoosePending) => Known(i)'
    BY <1>1, <2>0, <2>1, <2>2 DEF Known, Appended
  <2>5. \A i \in Ids : ~Finished(i) /\ cmds[i].op = "map" => cmds[i].q = "in" \/ LoosePending
    BY <1>1, <1>7, <2>0 DEF Mapped, Calls, Known
  <2>. QED  BY <1>4, <2>1, <2>3, <2>4, <2>5
<1>8. ASSUME SvmDrop \/ MemDrop PROVE Accounted'
  <2>1. \E q \in {"in", "driver"} : \E a : Appended("free", q, a)
    BY <1>8, Enqueues
  <2>2. kind' = kind /\ took' = took /\ held' = "gone" /\ call' = call /\ call.op = "none" /\ held # "pending"
    BY <1>8 DEF SvmDrop, MemDrop, usmVars, Dropping
  <2>3. Known(n)'
    BY <2>1, <2>2 DEF Known, Appended
  <2>4. \A i \in Ids : ~Finished(i) /\ Known(i) => Known(i)'
    BY <1>1, <2>1, <2>2 DEF Known, Appended
  <2>. QED  BY <1>4, <2>1, <2>3, <2>4
<1>9. ASSUME Kept, \A i \in Ids : ~Finished(i) /\ Known(i) => Known(i)' PROVE Accounted'
  BY <1>1, <1>2, <1>9 DEF Kept, Finished
<1>10. ASSUME Answer PROVE Accounted'
  <2>1. Kept /\ kind' = kind /\ took' = took
    BY <1>10, HostKeeps DEF Answer, SyncDone, MapDone, PendingDone, ViewDone, Unviewed,
       VecDrop, usmVars
  <2>2. \A i \in call.on : Finished(i)
    BY <1>10 DEF Answer, SyncDone, MapDone, PendingDone, ViewDone, Unviewed, VecDrop
  <2>3. uses \subseteq uses' /\ (held = "gone" => held' = "gone")
    BY <1>10 DEF Answer, SyncDone, MapDone, PendingDone, ViewDone, Unviewed, VecDrop,
       useVars, Calls
  <2>4. \A i \in Ids : ~Finished(i) /\ cmds[i].op = "map" => cmds[i].q = "in" \/ LoosePending
    <3>1. call.op \in {"map", "view", "pending"} \/ (held # "pending" /\ call.op \notin {"map", "view"})
      BY <1>10 DEF Answer, SyncDone, MapDone, PendingDone, ViewDone, Unviewed, VecDrop,
         Calls
    <3>2. call.op \in {"map", "view", "pending"} => call.on = {Last}
      BY DEF Calls
    <3>. QED  BY <1>1, <2>2, <3>1, <3>2 DEF Known
  <2>. QED  BY <1>9, <2>1, <2>2, <2>3, <2>4 DEF Known, Kept
<1>11. ASSUME PendingWait \/ ReleaseRefused PROVE Accounted'
  <2>1. Kept /\ UNCHANGED <<kind, took, uses>>
    BY <1>11, HostKeeps DEF PendingWait, ReleaseRefused, usmVars, useVars
  <2>2. call.op = "none" /\ held \in {"pending", "view"}
    BY <1>11 DEF PendingWait, ReleaseRefused
  <2>3. (held = "pending" => held' = held) /\ held' # "gone"
    BY <1>11 DEF PendingWait, ReleaseRefused
  <2>. QED  BY <1>9, <2>1, <2>2, <2>3 DEF Known, Kept
<1>12. ASSUME UsmDrop PROVE Accounted'
  <2>1. Kept /\ UNCHANGED <<kind, took>> /\ kind = "usm" /\ held = "slice" /\ call.op = "none"
    BY <1>12, HostKeeps DEF UsmDrop, usmVars
  <2>2. call'.op = "vec" /\ call'.on = uses
    BY <1>12 DEF UsmDrop
  <2>. QED  BY <1>9, <2>1, <2>2 DEF Known, Kept, Calls
<1>13. ASSUME NEW t \in Threads,
             Deref(t) \/ Take(t) \/ Clear(t) \/ Enter(t) \/ Leave(t) \/ Reseed(t) \/ Reseeded(t)
      PROVE  Accounted'
  <2>1. Kept /\ UNCHANGED <<kind, held, call>>
    <3>1. Kept
      BY <1>13, HostKeeps DEF Access
    <3>. QED  BY <1>13, <3>1 DEF Deref, Take, Clear, Enter, Leave, Reseed, Reseeded,
       hostVars
  <2>2. CASE Deref(t) \/ Clear(t) \/ Leave(t) \/ Reseed(t)
    BY <1>9, <2>1, <2>2 DEF Deref, Clear, Leave, Reseed, Known, Kept, useVars
  <2>3. kind = "usm"
    <3>1. rd[t] # "out" => kind = "usm"
      BY DEF Inside
    <3>. QED  BY <1>13, <3>1 DEF Deref, Take, Clear, Enter, Leave, Reseed, Reseeded, Reader
  <2>4. CASE Take(t)
    <3>1. took[t] = {} /\ took' = [took EXCEPT ![t] = uses]
      BY <2>4 DEF Take, Inside
    <3>2. (\A i \in uses : i \in took'[t]) /\ \A s \in Threads : took[s] \subseteq took'[s]
      BY <3>1 DEF TypeOK
    <3>. QED  BY <1>9, <2>1, <2>3, <3>2 DEF Known, Kept, Calls
  <2>5. CASE Enter(t) \/ Reseeded(t)
    <3>1. HastyReseed \/ \A i \in took[t] : Finished(i)
      BY <2>5 DEF Enter, Reseeded, AllOver, Finished
    <3>2. uses' = uses /\ \A s \in Threads \ {t} : took'[s] = took[s]
      BY <2>5 DEF Enter, Reseeded, useVars, TypeOK
    <3>3. \A i \in Ids : ~Finished(i) /\ Known(i) => Known(i)'
      BY <2>1, <2>3, <3>1, <3>2 DEF Known, Kept
    <3>. QED  BY <1>9, <2>1, <3>3
  <2>. QED  BY <1>13, <2>2, <2>4, <2>5
<1>. QED
  BY <1>3, <1>5, <1>6, <1>7, <1>8, <1>10, <1>11, <1>12, <1>13
  DEF Next, Work, View, End, Access

-----------------------------------------------------------------------------
(* The host's mapping.                                                     *)

\* Where the record knows every kernel that is not over, it alone does.
LEMMA KernelsInUses ==
  ASSUME TypeOK, Inside, Accounted, Idle, held # "gone", kind # "usm" \/ ~HastyReseed,
         \A t \in Threads : rd[t] = "out"
  PROVE  \A k \in Kernels : ~Finished(k) => k \in Running(uses)
BY DEF Inside, Accounted, Idle, NoCall, Kernels, Of, Running

LEMMA MappedStep ==
  ASSUME TypeOK, Behind, Calls, Inside, Accounted, Mapped, Next
  PROVE  Mapped'
<1>. USE DEF Idle, NoCall, Await, AtHand, Answered, Next1
<1>1. Last \in Nat /\ Ids = 1..Last /\ DOMAIN st = Ids
  BY CommandTypes
<1>2. ASSUME Device PROVE Mapped'
  <2>. PICK i \in Ids : Moved(i)
    BY <1>2, DeviceMoves
  <2>1. Kernels' = Kernels /\ \A j \in Ids : Finished(j) => Finished(j)'
    BY DEF Moved, Of, Kernels, Finished
  <2>. QED  BY <2>1 DEF Moved, Mapped, Kernels, Of
<1>3. ASSUME NEW q \in Queues, Sync(q) \/ Submit(q) PROVE Mapped'
  BY <1>3 DEF Sync, Submit, Mapped, hostVars, usmVars
<1>4. ASSUME NEW q \in Queues, MapBlocking(q) \/ MapSubmit(q) \/ Acquire(q) PROVE Mapped'
  <2>1. PICK a : Appended("map", q, a) /\ Running(uses) \subseteq a
    BY <1>4, Enqueues
  <2>2. Last' = Last + 1 /\ cmds'[Last'] = [op |-> "map", q |-> q, after |-> a]
    BY <2>1 DEF Appended, Last
  <2>3. Kernels' = Kernels /\ \A k \in Kernels : Finished(k)' = Finished(k)
    BY <2>1 DEF Appended, Kernels, Of, Finished
  <2>4. \A k \in Kernels : ~Finished(k) => k \in a
    BY <1>4, <2>1, KernelsInUses DEF MapBlocking, MapSubmit, Acquire
  <2>. QED  BY <1>4, <2>2, <2>3, <2>4 DEF MapBlocking, MapSubmit, Acquire, Mapped, usmVars
<1>5. ASSUME GuardDrop \/ GuardRelease \/ ViewDrop \/ \E q \in Queues : Release(q)
     PROVE Mapped'
  <2>1. \E op \in {"unmap", "unguard"}, q \in Queues \cup {"in"} : Appended(op, q, {})
    BY <1>5, Enqueues DEF TypeOK
  <2>2. Kernels' = Kernels /\ \A k \in Kernels : Finished(k)' = Finished(k)
    BY <2>1 DEF Appended, Kernels, Of, Finished
  <2>. QED  BY <1>5, <2>2 DEF GuardDrop, GuardRelease, ViewDrop, Release, Mapped, Calls,
     Inside, usmVars
<1>6. ASSUME SvmDrop \/ MemDrop PROVE Mapped'
  BY <1>6 DEF SvmDrop, MemDrop, Mapped, Inside, usmVars
<1>7. ASSUME Answer \/ PendingWait \/ ReleaseRefused \/ UsmDrop PROVE Mapped'
  <2>1. Kept /\ Kernels' = Kernels /\ \A k \in Ids : Finished(k)' = Finished(k)
    BY <1>7, HostKeeps DEF Kept, Kernels, Of, Finished
  <2>2. UNCHANGED <<rd, took, hq>>
    BY <1>7 DEF Answer, SyncDone, MapDone, PendingDone, ViewDone, Unviewed, VecDrop,
       PendingWait, ReleaseRefused, UsmDrop, hostVars, usmVars
  <2>3. Kernels \subseteq Ids
    BY DEF Kernels, Of
  <2>4. CASE MapDone \/ PendingDone \/ ViewDone
    <3>1. call.op \in {"map", "view", "pending"} /\ call.on = {Last} /\ Last \in Ids /\ Finished(Last)
      BY <2>4 DEF MapDone, PendingDone, ViewDone, Calls
    <3>2. ASSUME ~AnyFailed PROVE \A k \in Kernels : Finished(k)
      <4>1. st[Last] = "ok"
        BY <3>1, <3>2 DEF AnyFailed, Finished
      <4>2. \A j \in cmds[Last].after : st[j] = "ok"
        BY <3>1, <4>1 DEF Behind
      <4>3. call.op \in {"map", "view"} \/ held = "pending"
        BY <3>1 DEF Calls
      <4>. QED  BY <4>2, <4>3 DEF Mapped, Finished
    <3>. QED  BY <2>1, <2>2, <2>3, <2>4, <3>2 DEF MapDone, PendingDone, ViewDone, Mapped,
       Calls
  <2>5. CASE SyncDone \/ Unviewed \/ VecDrop \/ PendingWait \/ ReleaseRefused \/ UsmDrop
    BY <2>1, <2>2, <2>3, <2>5 DEF SyncDone, Unviewed, VecDrop, PendingWait, ReleaseRefused,
       UsmDrop, Mapped, Calls, Kept
  <2>. QED  BY <1>7, <2>4, <2>5 DEF Answer
<1>8. ASSUME NEW t \in Threads,
             Deref(t) \/ Take(t) \/ Clear(t) \/ Enter(t) \/ Leave(t) \/ Reseed(t) \/ Reseeded(t)
      PROVE  Mapped'
  <2>1. Kept /\ UNCHANGED <<kind, held, call, hq>>
    <3>1. Kept
      BY <1>8, HostKeeps DEF Access
    <3>. QED  BY <1>8, <3>1 DEF Deref, Take, Clear, Enter, Leave, Reseed, Reseeded, hostVars
  <2>2. Kernels' = Kernels /\ Kernels \subseteq Ids /\ \A k \in Ids : Finished(k)' = Finished(k)
    BY <2>1 DEF Kept, Kernels, Of, Finished
  <2>3. ASSUME Lone, ~HastyReseed, rd'[t] = "in" PROVE \A k \in Kernels : Finished(k)
    <3>0. kind = "usm" /\ call = NoCall /\ held = "slice"
      <4>1. rd[t] # "out" => kind = "usm" /\ held = "slice" /\ Idle
        BY DEF Inside
      <4>. QED  BY <1>8, <4>1 DEF Deref, Take, Clear, Enter, Leave, Reseed, Reseeded, Reader
    <3>1. \A k \in Kernels : ~Finished(k) => k \in uses \/ k \in took[t]
      BY <2>3, <3>0 DEF Accounted, Kernels, Of, Lone
    <3>2. (\A k \in uses : Finished(k)) /\ (\A k \in took[t] : Finished(k))
      <4>1. CASE Deref(t)
        BY <2>3, <3>0, <4>1 DEF Deref, Reader, Flagged, Inside, TypeOK
      <4>2. CASE Enter(t) \/ Reseeded(t)
        BY <2>3, <3>0, <4>2 DEF Enter, Reseeded, Inside, AllOver, Finished, TypeOK
      <4>3. CASE Take(t) \/ Clear(t) \/ Leave(t) \/ Reseed(t)
        BY <2>3, <4>3 DEF Take, Clear, Leave, Reseed, TypeOK
      <4>. QED  BY <1>8, <4>1, <4>2, <4>3
    <3>. QED  BY <3>1, <3>2
  <2>. QED  BY <2>1, <2>2, <2>3 DEF Mapped, Lone, Kept
<1>. QED  BY <1>2, <1>3, <1>4, <1>5, <1>6, <1>7, <1>8 DEF Next, Work, View, End, Access

-----------------------------------------------------------------------------
(* The free.                                                               *)

LEMMA FreesStep ==
  ASSUME TypeOK, Behind, Calls, Inside, Accounted, Frees, Next
  PROVE  Frees'
<1>. USE DEF Idle, NoCall, Await, AtHand, Answered
<1>1. Last \in Nat /\ Ids = 1..Last /\ DOMAIN st = Ids
  BY CommandTypes
<1>2. ASSUME Device PROVE Frees'
  <2>. PICK i \in Ids : Moved(i)
    BY <1>2, DeviceMoves
  <2>1. Of({"free"})' = Of({"free"}) /\ \A j \in Ids : Finished(j) => Finished(j)' /\ st'[j] = st[j]
    BY DEF Moved, Of, Finished
  <2>2. freed' => freed \/ (cmds[i].op = "free" /\ st'[i] = "ok")
    BY DEF Moved
  <2>3. ASSUME kind # "svm", NEW f \in Of({"free"}), st'[f] \in {"running", "ok"}
        PROVE  \A j \in Ids \ {f} : Finished(j)
    <3>1. cmds[f].q = "driver" /\ f \in Ids
      BY <2>3 DEF Frees, Of
    <3>2. CASE f = i
      <4>1. st[f] = "running" \/ DriverStart(f)
        BY <2>3, <3>2 DEF Moved
      <4>. QED  BY <2>3, <3>1, <4>1 DEF Frees, DriverStart
    <3>3. CASE f # i
      BY <2>3, <3>1, <3>3 DEF Frees, Moved
    <3>. QED  BY <3>2, <3>3
  <2>. QED  BY <2>1, <2>2, <2>3 DEF Moved, Frees, Of
<1>3. ASSUME NEW op \in {"kernel", "map", "unmap", "unguard"}, NEW q, NEW a, Appended(op, q, a),
             held # "gone", held' # "gone", freed' = freed
      PROVE  Frees'
  <2>1. Of({"free"})' = {}
    BY <1>3 DEF Appended, Of, Frees
  <2>. QED  BY <1>3, <2>1 DEF Frees
<1>4. ASSUME Work \/ View PROVE Frees'
  <2>1. freed' = freed /\ held # "gone" /\ held' # "gone"
    BY <1>4 DEF Work, Sync, Submit, View, MapBlocking, MapSubmit, Acquire, Release,
       PendingWait, GuardDrop, GuardRelease, ViewDrop, ReleaseRefused, Calls, hostVars
  <2>2. CASE PendingWait \/ ReleaseRefused
    <3>1. Kept
      BY <2>2, HostKeeps
    <3>. QED  BY <2>1, <3>1 DEF Kept, Frees, Of
  <2>3. CASE Work \/ GuardDrop \/ GuardRelease \/ ViewDrop \/ \E q \in Queues : MapBlocking(q) \/ MapSubmit(q) \/ Acquire(q) \/ Release(q)
    <3>1. \E op \in {"kernel", "map", "unmap", "unguard"} : \E q, a : Appended(op, q, a)
      BY <2>3, Enqueues DEF Work
    <3>. QED  BY <1>3, <2>1, <3>1
  <2>. QED  BY <1>4, <2>2, <2>3 DEF View
<1>5. ASSUME SvmDrop PROVE Frees'
  <2>1. Appended("free", "in", uses)
    BY <1>5, Enqueues
  <2>2. held # "gone" /\ held # "pending" /\ call = NoCall /\ kind = "svm" /\ kind' = kind /\ held' = "gone" /\ freed' = freed
    BY <1>5 DEF SvmDrop, Dropping
  <2>3. Of({"free"})' = {Last + 1} /\ Last' = Last + 1
    BY <2>1, <2>2 DEF Appended, Of, Frees, Last
  <2>4. \A i \in Ids : Finished(i) \/ i \in uses \/ cmds[i].q = "in" \/ LoosePending
    BY <2>2, <1>1 DEF Accounted
  <2>. QED  BY <1>1, <2>1, <2>2, <2>3, <2>4 DEF Frees, Appended, Finished
<1>6. ASSUME MemDrop PROVE Frees'
  <2>1. Appended("free", "driver", {})
    BY <1>6, Enqueues
  <2>2. held # "gone" /\ kind = "mem" /\ kind' = kind /\ held' = "gone" /\ freed' = freed
    BY <1>6 DEF MemDrop, Dropping
  <2>3. Of({"free"})' = {Last + 1} /\ Last' = Last + 1
    BY <2>1, <2>2 DEF Appended, Of, Frees, Last
  <2>. QED  BY <1>1, <2>1, <2>2, <2>3 DEF Frees, Appended, Finished
<1>7. ASSUME Answer \/ UsmDrop \/ Access PROVE Frees'
  <2>1. Kept /\ Of({"free"})' = Of({"free"}) /\ \A k \in Ids : Finished(k)' = Finished(k)
    BY <1>7, HostKeeps DEF Kept, Of, Finished
  <2>2. Of({"free"}) \subseteq Ids /\ kind' = kind
    BY <1>7 DEF Answer, SyncDone, MapDone, PendingDone, ViewDone, Unviewed, VecDrop,
       UsmDrop, Access, Deref, Take, Clear, Enter, Leave, Reseed, Reseeded, Of
  <2>3. CASE VecDrop
    <3>1. kind = "usm" /\ held = "dropping" /\ (\A i \in call.on : Finished(i)) /\ call.op = "vec"
          /\ \A t \in Threads : took[t] = {}
      BY <2>3 DEF VecDrop, Calls, Inside
    <3>2. HastyReseed \/ \A i \in Ids : Finished(i)
      BY <3>1 DEF Accounted, Calls, Inside
    <3>. QED  BY <2>1, <2>2, <2>3, <3>1, <3>2 DEF VecDrop, Frees, Kept
  <2>4. CASE ~VecDrop
    <3>1. freed' = freed /\ (held = "gone" <=> held' = "gone")
      BY <1>7, <2>4 DEF Answer, SyncDone, MapDone, PendingDone, ViewDone, Unviewed, UsmDrop,
         Access, Deref, Take, Clear, Enter, Leave, Reseed, Reseeded, hostVars, Calls
    <3>. QED  BY <2>1, <2>2, <3>1 DEF Frees, Kept
  <2>. QED  BY <2>3, <2>4
<1>. QED  BY <1>2, <1>4, <1>5, <1>6, <1>7 DEF Next, End

-----------------------------------------------------------------------------
(* Unmaps and the kernels behind them.                                     *)

LEMMA UndoesStep ==
  ASSUME TypeOK, Calls, Mapped, Undoes, Next
  PROVE  Undoes'
<1>. USE DEF Idle, NoCall, Answered
<1>1. Last \in Nat /\ Ids = 1..Last
  BY CommandTypes
<1>. SUFFICES ASSUME ~LoosePending, NEW u \in Of({"unmap", "unguard"})', NEW i \in MapOf(u)'
              PROVE  Finished(i)' \/ (cmds'[u].q = "in" /\ cmds'[i].q = "in")
  BY DEF Undoes
<1>2. i \in Ids' /\ u \in Ids' /\ i < u /\ cmds'[i].op = "map" /\ cmds'[u].op \in {"unmap", "unguard"}
      /\ \A j \in Ids' : cmds'[j].op = "map" /\ j < u => j <= i
  BY DEF MapOf, Of
<1>3. /\ \A j \in Ids : cmds'[j] = cmds[j] /\ (Finished(j) => Finished(j)')
      /\ Ids \subseteq Ids'
  BY Onward
<1>4. CASE u \in Ids
  <2>1. i \in Ids
    BY <1>1, <1>2, <1>3, <1>4, Onward DEF Ids, TypeOK
  <2>2. u \in Of({"unmap", "unguard"}) /\ i \in MapOf(u)
    BY <1>2, <1>3, <1>4, <2>1 DEF MapOf, Of
  <2>. QED  BY <1>3, <1>4, <2>1, <2>2 DEF Undoes
<1>5. CASE u \notin Ids
  <2>1. \/ \E op \in {"kernel", "map", "free"} : \E q, a : Appended(op, q, a)
        \/ GuardDrop \/ GuardRelease \/ ViewDrop \/ (\E q \in Queues : Release(q)) \/ Device \/ Kept
    BY Enqueues, HostKeeps DEF Next, Work, View, End
  <2>2. CASE \E op \in {"kernel", "map", "free"} : \E q, a : Appended(op, q, a)
    BY <1>2, <1>5, <2>2 DEF Appended
  <2>3. CASE Device \/ Kept
    BY <1>2, <1>5, <2>3, DeviceMoves DEF Moved, Kept
  <2>4. CASE GuardDrop \/ GuardRelease \/ ViewDrop \/ \E q \in Queues : Release(q)
    <3>1. PICK op \in {"unmap", "unguard"}, q \in Queues \cup {"in"} :
             Appended(op, q, {}) /\ (GuardDrop => q = hq)
      BY <2>4, Enqueues DEF TypeOK
    <3>2. u = Last + 1 /\ cmds'[u].q = q /\ i \in Ids
      BY <1>1, <1>2, <1>5, <3>1 DEF Appended
    <3>3. Last \in Ids /\ cmds[Last].op = "map" /\ (Finished(Last) \/ (held = "pending" /\ GuardDrop))
      BY <2>4 DEF GuardDrop, GuardRelease, ViewDrop, Release, Calls, Of
    <3>4. i = Last
      BY <1>1, <1>2, <1>3, <3>2, <3>3
    <3>5. CASE Finished(Last)
      BY <1>3, <3>3, <3>4, <3>5
    <3>6. CASE held = "pending" /\ GuardDrop
      BY <1>3, <3>1, <3>2, <3>3, <3>4, <3>6 DEF Mapped
    <3>. QED  BY <3>3, <3>5, <3>6
  <2>. QED  BY <2>1, <2>2, <2>3, <2>4
<1>. QED  BY <1>4, <1>5

LEMMA GuardsStep ==
  ASSUME TypeOK, Guards, Next
  PROVE  Guards'
<1>. SUFFICES ASSUME ~CrossQueue, NEW k \in Kernels', NEW u \in Of({"unguard"})', u < k
              PROVE  Finished(u)' \/ (cmds'[k].q = "in" /\ cmds'[u].q = "in")
  BY DEF Guards
<1>1. Last \in Nat /\ Ids = 1..Last
  BY CommandTypes
<1>2. k \in Ids' /\ u \in Ids' /\ cmds'[k].op = "kernel" /\ cmds'[u].op = "unguard"
  BY DEF Kernels, Of
<1>3. /\ \A j \in Ids : cmds'[j] = cmds[j] /\ (Finished(j) => Finished(j)')
      /\ Ids' \subseteq Nat
  BY Onward DEF Ids, TypeOK
<1>4. CASE k \in Ids
  <2>1. u \in Ids
    BY <1>1, <1>2, <1>3, <1>4 DEF Ids
  <2>2. k \in Kernels /\ u \in Of({"unguard"})
    BY <1>2, <1>3, <1>4, <2>1 DEF Kernels, Of
  <2>. QED  BY <1>3, <1>4, <2>1, <2>2 DEF Guards
<1>5. CASE k \notin Ids
  <2>1. \/ \E op \in {"map", "unmap", "unguard", "free"} : \E q, a : Appended(op, q, a)
        \/ Work \/ Device \/ Kept
    BY Enqueues, HostKeeps DEF Next, View, End
  <2>2. CASE Work
    <3>1. PICK q \in Queues : Appended("kernel", q, deps) /\ Ordered(q)
      BY <2>2, Enqueues DEF Work, Sync, Submit
    <3>2. k = Last + 1 /\ cmds'[k].q = q /\ u \in Ids
      BY <1>1, <1>2, <1>5, <3>1 DEF Appended
    <3>3. cmds[u].op = "unguard"
      BY <1>2, <1>3, <3>2
    <3>4. Finished(u) \/ u \in LooseUnmaps
      BY <3>2, <3>3 DEF LooseUnmaps, Of
    <3>. QED  BY <1>3, <3>1, <3>2, <3>4 DEF Ordered
  <2>3. CASE \E op \in {"map", "unmap", "unguard", "free"} : \E q, a : Appended(op, q, a)
    BY <1>2, <1>5, <2>3 DEF Appended
  <2>4. CASE Device \/ Kept
    BY <1>2, <1>5, <2>4, DeviceMoves DEF Moved, Kept
  <2>. QED  BY <2>1, <2>2, <2>3, <2>4
<1>. QED  BY <1>4, <1>5

\* S stays a set that orders what waits for it.
LEMMA OrdersStay ==
  ASSUME Ids \subseteq Ids', \A j \in Ids : cmds'[j] = cmds[j]
  PROVE  /\ Kernels \subseteq Kernels' /\ Unmaps \subseteq Unmaps'
         /\ Kernels' \cap Ids \subseteq Kernels /\ Unmaps' \cap Ids \subseteq Unmaps
         /\ \A S, u : Orders(S, u) => u \in S \/ \E k \in S : k \in Kernels' /\ u < k
BY DEF Kernels, Unmaps, Of, Orders

\* A kernel that has left its queue is behind every unmap before it.
NoneLoose == \A k \in Kernels, u \in Unmaps : u < k /\ ~Finished(u) =>
  st[k] = "queued" /\ Orders(cmds[k].after, u)

\* Every released unmap that is not over is ahead of what comes next.
Ahead(u) ==
  \/ Orders(deps, u) \/ held \in {"lost", "dropping", "gone"}
  \/ call.op = "unview"
  \/ call.op = "sync" /\ u < Last
  \/ call.op = "view" /\ Orders(cmds[Last].after, u)

\* What waits for S does not run before the unmaps S orders are over.
LEMMA OrderedIsOver ==
  ASSUME TypeOK, NoneLoose, NEW S, \A j \in S : st[j] = "ok",
         NEW u \in Unmaps, Orders(S, u)
  PROVE  Finished(u)
BY DEF Orders, NoneLoose, Finished

LEMMA ClearedStep ==
  ASSUME Calls, Cleared, Next
  PROVE  Cleared'
<1>. USE DEF Idle, NoCall, Await, AtHand, Answered, Cleared
<1>1. CASE Device \/ Work
  <2>1. ASSUME Device PROVE UNCHANGED <<call, held, deps>>
    BY <2>1 DEF Device, Start, Finish, Abort, hostVars
  <2>2. ASSUME Work PROVE call'.op # "view" /\ held' = "slice"
    BY <2>2 DEF Work, Sync, Submit, hostVars
  <2>. QED  BY <1>1, <2>1, <2>2
<1>2. CASE View
  BY <1>2 DEF View, MapBlocking, MapSubmit, Acquire, Release, PendingWait, GuardDrop,
     GuardRelease, ViewDrop, ReleaseRefused, Calls, hostVars
<1>3. CASE Answer \/ End
  BY <1>3 DEF Answer, SyncDone, MapDone, PendingDone, ViewDone, Unviewed, VecDrop, End,
     SvmDrop, MemDrop, UsmDrop, Dropping, Calls
<1>4. CASE Access
  BY <1>4 DEF Access, Deref, Take, Clear, Enter, Leave, Reseed, Reseeded, hostVars
<1>. QED  BY <1>1, <1>2, <1>3, <1>4 DEF Next

LEMMA UnmappedStep ==
  ASSUME TypeOK, Behind, Calls, Mapped, Cleared, Unmapped, Next
  PROVE  Unmapped'
<1>. USE DEF Idle, NoCall, Await, AtHand, Answered, Next1
<1>1. Last \in Nat /\ Ids = 1..Last
  BY CommandTypes
<1>2. /\ Plain(deps) /\ NoneLoose /\ (\A k \in Kernels : Plain(cmds[k].after))
      /\ (\A u \in Unmaps : ~Finished(u) => Ahead(u))
      /\ Kernels \subseteq Ids /\ Unmaps \subseteq Ids
  BY DEF Unmapped, NoneLoose, Ahead, Kernels, Unmaps, Of
<1>3. ASSUME Plain(deps)', NoneLoose', \A k \in Kernels' : Plain(cmds[k].after)',
             \A u \in Unmaps' : ~Finished(u)' => Ahead(u)'
      PROVE  Unmapped'
  BY <1>3 DEF Unmapped, NoneLoose, Ahead
<1>4. ASSUME Device PROVE Unmapped'
  <2>. PICK i \in Ids : Moved(i)
    BY <1>4, DeviceMoves
  <2>1. Kernels' = Kernels /\ Unmaps' = Unmaps /\ \A j \in Ids : Finished(j) => Finished(j)' /\ st'[j] = st[j]
    BY DEF Moved, Of, Kernels, Unmaps, Finished
  <2>2. \A S, u : Orders(S, u) <=> u \in S \/ \E k \in S : k \in Kernels' /\ u < k
    BY <2>1 DEF Orders
  <2>3. \A S : Plain(S) <=> S \subseteq Unmaps' \/ \E k \in Kernels' : S = {k}
    BY <2>1 DEF Plain
  <2>4. Plain(deps)' /\ \A k \in Kernels' : Plain(cmds[k].after)'
    BY <1>2, <2>1 DEF Moved, Plain
  <2>5. \A u \in Unmaps' : ~Finished(u)' => Ahead(u)'
    BY <1>2, <2>1 DEF Moved, Ahead, Orders
  <2>6. NoneLoose'
    <3>. SUFFICES ASSUME NEW k \in Kernels, NEW u \in Unmaps, u < k, ~Finished(u)'
                  PROVE  st'[k] = "queued" /\ Orders(cmds[k].after, u)'
      BY <2>1 DEF NoneLoose, Moved
    <3>1. st[k] = "queued" /\ Orders(cmds[k].after, u) /\ k \in Ids
      BY <1>2, <2>1 DEF NoneLoose
    <3>2. Orders(cmds[k].after, u)'
      BY <2>1, <3>1 DEF Orders, Moved
    <3>3. ASSUME k = i PROVE FALSE
      <4>1. CASE st'[i] = "running"
        <5>1. \A j \in cmds[k].after : st[j] = "ok"
          BY <3>3, <4>1 DEF Moved
        <5>2. Finished(u)
          BY <1>2, <3>1, <5>1, OrderedIsOver
        <5>. QED  BY <1>2, <2>1, <5>2
      <4>2. CASE st'[i] = "err"
        <5>1. PICK j \in cmds[k].after : st[j] = "err"
          BY <3>1, <3>3, <4>2 DEF Moved
        <5>2. j \notin Unmaps
          BY <5>1 DEF Behind, Unmaps, Of
        <5>3. PICK m \in Kernels : cmds[k].after = {m}
          BY <1>2, <5>1, <5>2 DEF Plain
        <5>4. m = j /\ u # m
          BY <5>1, <5>2, <5>3
        <5>5. u < m
          BY <3>1, <5>3, <5>4 DEF Orders
        <5>6. Finished(u)
          BY <1>2, <5>1, <5>4, <5>5 DEF NoneLoose
        <5>. QED  BY <1>2, <2>1, <5>6
      <4>3. CASE st'[i] = "ok"
        BY <3>1, <3>3, <4>3 DEF Moved
      <4>. QED  BY <4>1, <4>2, <4>3 DEF Moved
    <3>. QED  BY <3>1, <3>2, <3>3 DEF Moved
  <2>. QED  BY <1>3, <2>4, <2>5, <2>6
<1>5. ASSUME NEW q \in Queues, Sync(q) \/ Submit(q) PROVE Unmapped'
  <2>. PICK n \in Nat : n = Last + 1
    BY <1>1
  <2>1. Appended("kernel", q, deps)
    BY <1>5, Enqueues
  <2>2. Kernels' = Kernels \cup {n} /\ Unmaps' = Unmaps /\ n \notin Ids /\ Last' = n
    BY <2>1 DEF Appended, Kernels, Unmaps, Of, Last
  <2>3. \A j \in Ids : cmds'[j] = cmds[j] /\ st'[j] = st[j] /\ j < n
    BY <1>1, <2>1 DEF Appended
  <2>4. cmds'[n].after = deps /\ st'[n] = "queued"
    BY <2>1 DEF Appended
  <2>5. held = "slice" /\ held' = "slice" /\ call = NoCall
    BY <1>5 DEF Sync, Submit, hostVars
  <2>6. \A u \in Unmaps : ~Finished(u) => Orders(deps, u)
    BY <1>2, <2>5 DEF Ahead
  <2>7. Plain(deps)' /\ \A k \in Kernels' : Plain(cmds[k].after)'
    <3>1. deps' = {} \/ deps' = {n}
      BY <1>5 DEF Sync, Submit, Last
    <3>. QED  BY <1>2, <2>2, <2>3, <2>4, <3>1 DEF Plain
  <2>8. NoneLoose'
    <3>. SUFFICES ASSUME NEW k \in Kernels', NEW u \in Unmaps, u < k, ~Finished(u)
                  PROVE  st'[k] = "queued" /\ Orders(cmds[k].after, u)'
      BY <1>2, <2>2, <2>3 DEF NoneLoose, Finished
    <3>1. \A S : Orders(S, u) => Orders(S, u)'
      BY <2>2 DEF Orders
    <3>2. CASE k \in Kernels
      BY <1>2, <2>3, <3>1, <3>2 DEF NoneLoose, Orders
    <3>3. CASE k = n
      BY <2>4, <2>6, <3>1, <3>3 DEF Orders
    <3>. QED  BY <2>2, <3>2, <3>3
  <2>9. \A u \in Unmaps' : ~Finished(u)' => Ahead(u)'
    <3>1. call'.op = "sync" \/ deps' = {n}
      BY <1>5 DEF Sync, Submit, Last
    <3>. QED  BY <1>2, <2>2, <2>3, <3>1 DEF Ahead, Orders
  <2>. QED  BY <1>3, <2>7, <2>8, <2>9
<1>6. ASSUME NEW op \in {"map", "unmap", "unguard", "free"}, NEW q, NEW a, Appended(op, q, a)
      PROVE  /\ Kernels' = Kernels /\ NoneLoose' /\ Unmaps \subseteq Unmaps'
             /\ \A k \in Kernels' : Plain(cmds[k].after)'
             /\ \A S, u : Orders(S, u) => u \in S \/ \E k \in S : k \in Kernels' /\ u < k
             /\ op # "unmap" => Unmaps' = Unmaps
             /\ op = "unmap" => Unmaps' = Unmaps \cup {Last + 1}
             /\ \A u \in Unmaps : Finished(u)' = Finished(u)
             /\ Plain(deps) => deps \subseteq Unmaps' \/ \E k \in Kernels' : deps = {k}
  <2>1. \A j \in Ids : cmds'[j] = cmds[j] /\ st'[j] = st[j] /\ j < Last + 1
    BY <1>1, <1>6 DEF Appended
  <2>2. Kernels' = Kernels
    BY <1>6 DEF Appended, Kernels, Of
  <2>3. Unmaps' = IF op = "unmap" THEN Unmaps \cup {Last + 1} ELSE Unmaps
    <3>1. cmds'[Last + 1].op = op /\ Ids' = Ids \cup {Last + 1}
      BY <1>6 DEF Appended
    <3>. QED  BY <2>1, <3>1 DEF Unmaps, Of
  <2>4. \A u \in Unmaps : Finished(u)' = Finished(u)
    BY <1>2, <2>1 DEF Finished
  <2>5. \A k \in Kernels' : Plain(cmds[k].after)'
    BY <1>2, <2>1, <2>2, <2>3 DEF Plain
  <2>6. NoneLoose'
    BY <1>1, <1>2, <2>1, <2>2, <2>3, <2>4 DEF NoneLoose, Orders
  <2>. QED  BY <2>2, <2>3, <2>4, <2>5, <2>6 DEF Orders, Plain
<1>7. ASSUME NEW q \in Queues, MapBlocking(q) \/ MapSubmit(q) \/ Acquire(q) PROVE Unmapped'
  <2>1. \A u \in Unmaps : ~Finished(u) => Orders(deps, u)
    BY <1>2, <1>7 DEF Ahead, MapBlocking, MapSubmit, Acquire
  <2>2. CASE MapBlocking(q) \/ MapSubmit(q)
    <3>1. deps' = deps /\ Appended("map", q, Running(uses))
      BY <2>2, Enqueues DEF MapBlocking, MapSubmit
    <3>. QED  BY <1>2, <1>3, <1>6, <2>1, <3>1 DEF Ahead, Orders, Plain
  <2>3. CASE Acquire(q)
    <3>1. deps' = {} /\ call'.op = "view" /\ Appended("map", q, deps \cup Running(uses))
      BY <2>3, Enqueues DEF Acquire
    <3>2. cmds'[Last'].after = deps \cup Running(uses)
      BY <3>1 DEF Appended, Last
    <3>. QED  BY <1>2, <1>3, <1>6, <2>1, <3>1, <3>2 DEF Ahead, Orders, Plain
  <2>. QED  BY <1>7, <2>2, <2>3
<1>8. ASSUME SvmDrop \/ MemDrop PROVE Unmapped'
  <2>1. deps' = deps /\ held' = "gone" /\ \E q, a : Appended("free", q, a)
    BY <1>8, Enqueues DEF SvmDrop, MemDrop
  <2>. QED  BY <1>2, <1>3, <1>6, <2>1 DEF Ahead, Plain
<1>9. ASSUME GuardDrop PROVE Unmapped'
  <2>1. deps' = deps /\ Appended("unguard", hq, {}) /\ held \in {"guard", "pending"} /\ call.op \in {"none", "pending"}
    BY <1>9, Enqueues DEF GuardDrop, Calls
  <2>2. \A u \in Unmaps : ~Finished(u) => Orders(deps, u)
    BY <1>2, <2>1 DEF Ahead
  <2>. QED  BY <1>2, <1>3, <1>6, <2>1, <2>2 DEF Ahead, Orders, Plain
<1>10. ASSUME ViewDrop PROVE Unmapped'
  <2>1. deps' = deps /\ Appended("unmap", hq, {}) /\ call'.op = "unview"
    BY <1>10, Enqueues DEF ViewDrop
  <2>. QED  BY <1>2, <1>3, <1>6, <2>1 DEF Ahead, Plain
<1>11. ASSUME GuardRelease \/ \E q \in Queues : Release(q) PROVE Unmapped'
  <2>. PICK n \in Nat : n = Last + 1
    BY <1>1
  <2>1. (\E q : Appended("unmap", q, {})) /\ held \in {"guard", "view"} /\ call = NoCall
    BY <1>11, Enqueues DEF GuardRelease, Release
  <2>2. n \in deps' /\ deps' \subseteq Unmaps \cup {n}
    BY <1>11 DEF GuardRelease, Release, Released, Loose, Last, Unmaps, Of, TypeOK
  <2>3. \A u \in Unmaps : Finished(u) \/ u \in deps'
    <3>. SUFFICES ASSUME NEW u \in Unmaps, ~Finished(u) PROVE u \in deps'
      OBVIOUS
    <3>1. Orders(deps, u)
      BY <1>2, <2>1 DEF Ahead
    <3>2. \A k \in Kernels : Finished(k)
      BY <2>1 DEF Mapped
    <3>3. u \in deps
      BY <1>2, <3>1, <3>2 DEF Orders, NoneLoose, Finished
    <3>. QED  BY <3>3, <1>11 DEF GuardRelease, Release, Loose, Unmaps, Of, Cleared
  <2>4. \A u \in Unmaps' : ~Finished(u)' => u \in deps'
    BY <1>6, <2>1, <2>2, <2>3
  <2>5. \A u \in Unmaps' : ~Finished(u)' => Ahead(u)'
    BY <2>4 DEF Ahead, Orders
  <2>6. Plain(deps)'
    BY <1>6, <2>1, <2>2 DEF Plain
  <2>. QED  BY <1>3, <1>6, <2>1, <2>5, <2>6
<1>12. ASSUME Answer \/ PendingWait \/ ReleaseRefused \/ UsmDrop \/ Access PROVE Unmapped'
  <2>1. Kept /\ deps' = deps /\ Kernels' = Kernels /\ Unmaps' = Unmaps
    <3>1. Kept
      BY <1>12, HostKeeps
    <3>. QED  BY <1>12, <3>1 DEF Answer, SyncDone, MapDone, PendingDone, ViewDone, Unviewed,
       VecDrop, PendingWait, ReleaseRefused, UsmDrop, Access, Deref, Take, Clear, Enter,
       Leave, Reseed, Reseeded, Kept, Kernels, Unmaps, Of
  <2>2. Plain(deps)' /\ NoneLoose' /\ \A k \in Kernels' : Plain(cmds[k].after)'
    BY <1>2, <2>1 DEF Kept, Plain, NoneLoose, Orders, Finished
  <2>3. \A u : Finished(u)' = Finished(u)
    BY <2>1 DEF Kept, Finished
  <2>4. \A S, u : Orders(S, u)' = Orders(S, u)
    BY <2>1 DEF Orders
  <2>5. ASSUME NEW u \in Unmaps, ~Finished(u) PROVE Ahead(u)'
    <3>1. Ahead(u) /\ u < Last + 1
      BY <1>1, <1>2, <2>5 DEF Ahead
    <3>2. CASE SyncDone
      <4>1. call.op = "sync" /\ Last \in Kernels /\ Finished(Last)
        BY <3>2 DEF SyncDone, Calls
      <4>2. held = "slice" /\ (u < Last => Finished(u))
        BY <1>2, <4>1 DEF NoneLoose, Calls, Finished
      <4>. QED  BY <2>1, <2>4, <2>5, <3>1, <3>2, <4>1, <4>2 DEF Ahead, SyncDone, Kept
    <3>3. CASE ViewDone
      <4>1. call.op = "view" /\ call.on = {Last} /\ Last \in Ids /\ Finished(Last) /\ held = "slice"
        BY <3>3 DEF ViewDone, Calls
      <4>2. CASE AnyFailed
        BY <3>3, <4>2 DEF ViewDone, Ahead
      <4>3. CASE ~AnyFailed
        <5>1. st[Last] = "ok"
          BY <4>1, <4>3 DEF AnyFailed, Finished
        <5>2. \A j \in cmds[Last].after : st[j] = "ok"
          BY <4>1, <5>1 DEF Behind
        <5>3. ~Orders(cmds[Last].after, u)
          BY <1>2, <2>5, <5>2, OrderedIsOver
        <5>. QED  BY <2>1, <2>4, <3>1, <4>1, <5>3 DEF Ahead
      <4>. QED  BY <4>2, <4>3
    <3>4. CASE Unviewed
      BY <3>4 DEF Unviewed, Ahead
    <3>5. CASE MapDone \/ PendingDone \/ VecDrop \/ PendingWait \/ ReleaseRefused \/ UsmDrop
      <4>1. \/ held' \in {"dropping", "gone"}
            \/ held \notin {"lost", "dropping", "gone"} /\ call.op \notin {"unview", "sync", "view"}
        BY <3>5 DEF MapDone, PendingDone, VecDrop, PendingWait, ReleaseRefused, UsmDrop,
           Calls
      <4>. QED  BY <2>1, <2>4, <3>1, <4>1 DEF Ahead
    <3>6. CASE Access
      <4>1. UNCHANGED <<held, call>>
        BY <3>6 DEF Access, Deref, Take, Clear, Enter, Leave, Reseed, Reseeded, hostVars
      <4>. QED  BY <2>1, <2>4, <3>1, <4>1 DEF Ahead, Kept
    <3>. QED  BY <1>12, <3>2, <3>3, <3>4, <3>5, <3>6 DEF Answer
  <2>. QED  BY <1>3, <2>1, <2>2, <2>3, <2>5
<1>. QED
  BY <1>4, <1>5, <1>7, <1>8, <1>9, <1>10, <1>11, <1>12 DEF Next, Work, View, End

LEMMA InitHolds == Init => IInv
<1>. SUFFICES ASSUME Init PROVE IInv
  OBVIOUS
<1>. USE StorageAssumption DEF NoCall
<1>. DEFINE c == [op |-> "unguard", q |-> "in", after |-> {}]
<1>0. cmds = <<>> \/ (kind = "svm" /\ cmds = <<c>>)
  <2>1. cmds \in IF kind = "svm" THEN {<<>>, <<c>>} ELSE {<<>>}
    BY DEF Init, Born
  <2>. HIDE DEF c
  <2>. QED  BY <2>1
<1>1. cmds \in Seq(Command)
  <2>1. c \in Command
    BY DEF Command
  <2>. HIDE DEF c
  <2>2. <<>> \in Seq(Command) /\ <<c>> \in Seq(Command)
    BY <2>1
  <2>. QED  BY <1>0, <2>2
<1>2. \A i \in Ids : cmds[i] = c /\ st[i] = "queued" /\ kind = "svm" /\ i = 1
  <2>1. st = [i \in 1..Len(cmds) |-> "queued"]
    BY DEF Init
  <2>. HIDE DEF c
  <2>2. cmds = <<>> => Ids = {}
    BY DEF Ids
  <2>3. cmds = <<c>> => Ids = {1} /\ cmds[1] = c
    BY DEF Ids
  <2>. QED  BY <1>0, <2>1, <2>2, <2>3 DEF Ids
<1>3. TypeOK
  <2>1. st \in Seq({"queued", "running", "ok", "err"}) /\ Len(st) = Len(cmds)
    BY <1>1 DEF Init
  <2>. QED  BY <1>1, <2>1 DEF Init, TypeOK
<1>4. Kernels = {} /\ Unmaps = {} /\ Of({"map"}) = {} /\ Of({"free"}) = {}
  BY <1>2 DEF Kernels, Unmaps, Of
<1>5. Behind /\ Accounted /\ Calls
  BY <1>2 DEF Init, Behind, Accounted, Calls, Idle
<1>6. Inside /\ Mapped /\ Frees /\ Cleared
  BY <1>4 DEF Init, Inside, Mapped, Frees, Cleared
<1>7. Undoes /\ Guards /\ Unmapped
  BY <1>4 DEF Init, Undoes, Guards, Unmapped, MapOf, Plain
<1>. QED  BY <1>3, <1>5, <1>6, <1>7 DEF IInv

LEMMA IInvHolds == Spec => []IInv
<1>1. IInv /\ Next => IInv'
  BY TypeStep, BehindStep, CallsStep, InsideStep, AccountedStep, MappedStep, FreesStep,
     UndoesStep, GuardsStep, UnmappedStep, ClearedStep DEF IInv
<1>2. IInv /\ UNCHANGED vars => IInv'
  <2>. SUFFICES ASSUME IInv, UNCHANGED vars PROVE IInv'
    OBVIOUS
  <2>. USE DEF vars, devVars, useVars, hostVars, usmVars, Ids, Of, Kernels, Unmaps, Last,
               Idle, NoCall, Finished
  <2>1. TypeOK' /\ Calls' /\ Inside'
    BY DEF IInv, TypeOK, Calls, Inside, Lone
  <2>3. Behind' /\ Accounted'
    BY DEF IInv, Behind, Earlier, Accounted
  <2>2. Mapped' /\ Frees' /\ Undoes' /\ Guards' /\ Unmapped' /\ Cleared'
    BY DEF IInv, Mapped, Frees, Undoes, MapOf, Guards, Unmapped, Plain, Orders, Cleared,
       Lone
  <2>. QED  BY <2>1, <2>2, <2>3 DEF IInv
<1>. QED  BY <1>1, <1>2, InitHolds, PTL DEF Spec

-----------------------------------------------------------------------------
(* The theorems.                                                           *)

\* The variables keep their types, for any kind of allocation, any queues and any
\* number of commands and threads (mapped.rs, usm.rs, buffer.rs, host_view.rs).
THEOREM TypeCorrect == Spec => []TypeOK
BY IInvHolds, PTL DEF IInv

\* Where one thread uses the slice and a re-seed waits for all it took, the host
\* looks at memory no kernel is still to use, whatever was launched before
\* (pending.rs: PendingUses; usm.rs: Deref).
THEOREM ViewsAreQuiet ==
  ASSUME \A s, t \in Threads : s = t, ~HastyReseed
  PROVE  Spec => []ViewIsQuiet
<1>1. IInv => ViewIsQuiet
  BY DEF IInv, Mapped, ViewIsQuiet, HostLooks, Kernels, Lone
<1>. QED  BY <1>1, IInvHolds, PTL

\* Where non-blocking maps go to in-order queues and a re-seed waits for all it
\* took, no command is left on memory that is freed (the Drops of mapped.rs,
\* buffer.rs, usm.rs).
THEOREM FreesAreLast ==
  ASSUME ~LoosePending, ~HastyReseed
  PROVE  Spec => []FreeIsLast
<1>1. IInv => FreeIsLast
  <2>. SUFFICES ASSUME IInv, freed \/ (\E i \in Of({"free"}) : st[i] = "running")
                PROVE  \A i \in Ids \ Of({"free"}) : Finished(i)
    BY DEF FreeIsLast
  <2>1. CASE freed /\ kind = "usm" /\ \A i \in Ids : Finished(i)
    BY <2>1
  <2>2. CASE \E f \in Of({"free"}) : st[f] \in {"running", "ok"}
    <3>. PICK f \in Of({"free"}) : st[f] \in {"running", "ok"}
      BY <2>2
    <3>1. f \in Ids /\ f = Last
      BY DEF IInv, Frees, Of
    <3>2. CASE kind # "svm"
      BY <3>2 DEF IInv, Frees
    <3>3. CASE kind = "svm"
      <4>1. (\A j \in cmds[f].after : st[j] = "ok") /\ \A j \in Earlier(f) : Finished(j)
        BY <3>1 DEF IInv, Behind
      <4>2. \A i \in Ids \ {f} : cmds[f].q = "in" /\ cmds[i].q = "in" => i \in Earlier(f)
        <5>1. Last \in Nat /\ Ids = 1..Last
          BY CommandTypes DEF IInv
        <5>. QED  BY <3>1, <5>1 DEF Earlier
      <4>. QED  BY <3>3, <4>1, <4>2 DEF IInv, Frees, Finished
    <3>. QED  BY <3>2, <3>3
  <2>. QED  BY <2>1, <2>2 DEF IInv, Frees
<1>. QED  BY <1>1, IInvHolds, PTL

\* Where non-blocking maps go to in-order queues, no unmap runs before the map it
\* undoes is over (mapped.rs, host_view.rs).
THEOREM UnmapsAfterMaps ==
  ASSUME ~LoosePending
  PROVE  Spec => []UnmapAfterMap
<1>1. IInv => UnmapAfterMap
  <2>. SUFFICES ASSUME IInv, NEW u \in Of({"unmap", "unguard"}), st[u] # "queued",
                       NEW i \in MapOf(u)
                PROVE  Finished(i)
    BY DEF UnmapAfterMap
  <2>1. Ids = 1..Last /\ Last \in Nat /\ u \in Ids /\ i \in Ids /\ i < u /\ st[u] \in {"running", "ok"}
    BY CommandTypes DEF IInv, Behind, Of, MapOf
  <2>2. \A j \in Earlier(u) : Finished(j)
    BY <2>1 DEF IInv, Behind
  <2>. QED  BY <2>1, <2>2 DEF IInv, Undoes, Earlier
<1>. QED  BY <1>1, IInvHolds, PTL

\* Where no kernel goes to another queue than a dropped guard's unmap, nothing is
\* mapped while a kernel runs: every view before it has been undone (mapped.rs).
THEOREM DeviceIsAlone ==
  ASSUME ~CrossQueue
  PROVE  Spec => []DeviceAlone
<1>1. IInv => DeviceAlone
  <2>. SUFFICES ASSUME IInv, NEW k \in Kernels, st[k] = "running"
                PROVE  /\ held \notin {"guard", "view"}
                       /\ \A u \in Of({"unmap", "unguard"}) : u < k => Finished(u)
    BY DEF DeviceAlone, Kernels
  <2>1. held \notin {"guard", "view"}
    BY DEF IInv, Mapped, Finished
  <2>2. ASSUME NEW u \in Unmaps, u < k PROVE Finished(u)
    BY <2>2 DEF IInv, Unmapped
  <2>3. ASSUME NEW u \in Of({"unguard"}), u < k PROVE Finished(u)
    <3>1. k \in Ids /\ u \in Ids /\ Ids = 1..Last /\ Last \in Nat
      BY CommandTypes DEF IInv, Kernels, Of
    <3>2. \A j \in Earlier(k) : Finished(j)
      BY <3>1 DEF IInv, Behind
    <3>. QED  BY <2>3, <3>1, <3>2 DEF IInv, Guards, Earlier
  <2>. QED  BY <2>1, <2>2, <2>3 DEF Unmaps, Of
<1>. QED  BY <1>1, IInvHolds, PTL
=============================================================================
