--------------------------- MODULE HostSeam_proofs ---------------------------
(***************************************************************************)
(* Proofs about HostSeam, for any graph: the type invariant and every      *)
(* safety property of a run.                                               *)
(*                                                                         *)
(* An ok event stays ok, and a command begins behind a wait list that is   *)
(* all ok.  So an ok event makes ok everything upstream of it, and a       *)
(* closure, a kernel or the terminal that waits for it sees finished work. *)
(***************************************************************************)
EXTENDS HostSeam, WellFoundedInduction, TLAPS

-----------------------------------------------------------------------------
(* The walk order: what a node depends on.                                 *)

\* A set of naturals that is not empty has a least member.
LEMMA LeastMember ==
  ASSUME NEW S, S \subseteq Nat, S # {}
  PROVE  \E x \in S : \A y \in S : x <= y
<1>. DEFINE R == OpToRel(<, Nat)
<1>1. PICK x \in S : \A y \in S : <<y, x>> \notin R
  <2>. HIDE DEF R
  <2>. QED  BY WFMin, NatLessThanWellFounded DEF R
<1>2. \A y \in S : x <= y
  <2>. TAKE y \in S
  <2>1. <<y, x>> \notin R /\ x \in Nat /\ y \in Nat
    BY <1>1
  <2>. QED  BY <2>1 DEF OpToRel
<1>. QED  BY <1>2

\* A table of what each of the first k nodes depends on.
Table(k, g) == g = [n \in 1..k |-> {n} \cup UNION {g[p] : p \in Preds[n]}]

LEMMA TableExists ==
  \A k \in Nat : k <= N => \E g : Table(k, g)
<1>. DEFINE Bad == {k \in Nat : k <= N /\ ~\E g : Table(k, g)}
<1>. SUFFICES ASSUME Bad # {}  PROVE FALSE
  OBVIOUS
<1>1. PICK k \in Bad : \A j \in Bad : k <= j
  BY LeastMember
<1>2. k # 0
  <2>1. Table(0, [n \in 1..0 |-> {}])
    BY DEF Table
  <2>. QED  BY <1>1, <2>1
<1>3. k - 1 \in Nat /\ k - 1 <= N /\ k - 1 \notin Bad /\ k \in Nodes
  BY <1>1, <1>2, NodeAssumption DEF Nodes
<1>4. PICK g : Table(k - 1, g)
  BY <1>3
<1>. DEFINE h == [n \in 1..k |-> {n} \cup UNION {g[p] : p \in Preds[n]}]
<1>5. \A n \in 1..k : Preds[n] \subseteq 1..(k - 1) /\ Preds[n] \subseteq 1..k
  BY <1>3, NodeAssumption DEF Nodes
<1>6. \A p \in 1..(k - 1) : h[p] = g[p]
  <2>. TAKE p \in 1..(k - 1)
  <2>1. p \in 1..k
    BY <1>3
  <2>2. h[p] = {p} \cup UNION {g[q] : q \in Preds[p]}
    BY <2>1
  <2>3. g[p] = {p} \cup UNION {g[q] : q \in Preds[p]}
    BY <1>4 DEF Table
  <2>. QED  BY <2>2, <2>3
<1>7. \A n \in 1..k : UNION {g[p] : p \in Preds[n]} = UNION {h[p] : p \in Preds[n]}
  <2>. HIDE DEF h
  <2>. TAKE n \in 1..k
  <2>1. \A p \in Preds[n] : h[p] = g[p]
    BY <1>5, <1>6
  <2>. QED  BY <2>1
<1>8. Table(k, h)
  BY <1>7 DEF Table
<1>. QED  BY <1>1, <1>8

\* A node depends on itself, its sources and what they depend on.
LEMMA UpstreamIs ==
  ASSUME NEW n \in Nodes
  PROVE  Upstream[n] = {n} \cup UNION {Upstream[p] : p \in Preds[n]}
<1>1. \E g : g = [m \in Nodes |-> {m} \cup UNION {g[p] : p \in Preds[m]}]
  <2>1. N \in Nat /\ N <= N
    BY NodeAssumption
  <2>2. PICK g : Table(N, g)
    BY <2>1, TableExists
  <2>3. g = [m \in Nodes |-> {m} \cup UNION {g[p] : p \in Preds[m]}]
    BY <2>2 DEF Table, Nodes
  <2>. QED  BY <2>3
<1>2. Upstream = [m \in Nodes |-> {m} \cup UNION {Upstream[p] : p \in Preds[m]}]
  BY <1>1 DEF Upstream
<1>. QED  BY <1>2
-----------------------------------------------------------------------------
(* Events.                                                                 *)

LEMMA EventSorts ==
  /\ Start \in Events /\ Marker \in Commands /\ Commands \subseteq Events
  /\ \A n \in Nodes : Cmd(n) \in Commands
  /\ \A s \in Seams : Unmap(s) \in Commands /\ FireEv(s) \in Events /\ Proceed(s) \in Events
BY DEF Events, Commands

\* No two events share a name.
LEMMA EventNames ==
  /\ \A n \in Nodes : Cmd(n) # Marker /\ Cmd(n) # Start
  /\ \A m, n \in Nodes : m # n => Cmd(m) # Cmd(n)
  /\ \A s \in Seams : Unmap(s) # Marker /\ FireEv(s) # Marker /\ Proceed(s) # Marker
  /\ \A s \in Seams : Unmap(s) # Start /\ FireEv(s) \notin Commands \cup {Start}
  /\ \A s \in Seams : Proceed(s) \notin Commands \cup {Start}
  /\ \A s \in Seams, n \in Nodes : Unmap(s) # Cmd(n)
  /\ \A s, r \in Seams : FireEv(s) # Proceed(r)
  /\ \A s, r \in Seams : s # r =>
       Unmap(s) # Unmap(r) /\ FireEv(s) # FireEv(r) /\ Proceed(s) # Proceed(r)
BY NodeAssumption DEF Commands, Cmd, Unmap, FireEv, Proceed, Marker, Start, Nodes

\* The wait lists.
LEMMA WaitLists ==
  /\ \A n \in Nodes : Waits(Cmd(n)) = Deps(n)
  /\ \A s \in Seams : Waits(Unmap(s)) = {FireEv(s)}
  /\ Waits(Marker) = UNION {Outs(n) : n \in Sinks}
BY DEF Waits, Cmd, Unmap, Marker

LEMMA ListsAreEvents ==
  /\ \A n \in Nodes : Outs(n) \subseteq Events /\ Deps(n) \subseteq Events
  /\ \A e \in Commands : Waits(e) \subseteq Events
<1>1. \A n \in Nodes : Outs(n) \subseteq Events
  BY EventSorts DEF Outs
<1>2. \A n \in Nodes : Deps(n) \subseteq Events
  BY <1>1, EventSorts, NodeAssumption DEF Deps, Gate
<1>3. Waits(Marker) \subseteq Events
  BY <1>1, WaitLists DEF Sinks
<1>4. \A s \in Seams : Waits(Unmap(s)) \subseteq Events
  BY EventSorts, WaitLists
<1>. QED  BY <1>1, <1>2, <1>3, <1>4, WaitLists DEF Commands

\* The events of a node: its command, and the three others of a seam.
LEMMA NodeEvents ==
  ASSUME NEW n \in Nodes
  PROVE  /\ EventsOf(n) \subseteq Events
         /\ n \notin Seams => EventsOf(n) = {Cmd(n)}
         /\ n \in Seams => EventsOf(n) = {Cmd(n), Unmap(n), FireEv(n), Proceed(n)}
BY NodeAssumption DEF EventsOf, Events, Commands, Cmd, Unmap, FireEv, Proceed, Marker, Start, Nodes

-----------------------------------------------------------------------------
(* The invariant.                                                          *)

\* What the walk has not reached is untouched.
Fresh ==
  pc = "walk" =>
    /\ ev[Marker] = "none" /\ ~failed
    /\ \A n \in Nodes : n >= at =>
         (\A e \in EventsOf(n) : ev[e] = "none") /\ (n \in Seams => worker[n] = "none")

\* A command begins once its wait list is over and ok.
Behind == \A e \in Commands : ev[e] \in {"running", "ok"} => AllOk(Waits(e))

\* What a worker has done by each of its steps.
StepsOf(s) ==
  /\ worker[s] \in {"map", "closure"} => AllOk(Deps(s))
  /\ worker[s] = "closure" => ev[Cmd(s)] = "ok"
  /\ worker[s] = "stash" => s \in fault
  /\ worker[s] \in {"fire", "proceed", "exited"} /\ verdict[s] = "ok" => ev[Cmd(s)] = "ok"
  /\ worker[s] \in {"proceed", "exited"} => ev[FireEv(s)] = "ok"
  /\ ev[Proceed(s)] = "ok" => worker[s] = "exited" /\ verdict[s] = "ok"
Steps == \A s \in Seams : StepsOf(s)

\* A seam that failed had its source, forwards an error and has seen to the stash.
Faults ==
  /\ stash \in fault \cup {NoSeam}
  /\ \A s \in fault :
       /\ AllOk(Deps(s)) /\ verdict[s] = "err"
       /\ worker[s] \in {"stash", "fire", "proceed", "exited"}
       /\ worker[s] = "stash" \/ stash # NoSeam

\* An error has a cause.
Causes ==
  (\E e \in Events : ev[e] = "err") \/ (\E s \in Seams : verdict[s] = "err") =>
    fault # {} \/ failed \/ terminal \in DeviceFails

\* What the terminal knows when it stops waiting.
Waited ==
  /\ pc = "wait" => ~failed
  /\ pc \in {"join", "reclaim", "done"} /\ ~failed /\ ~waitErr =>
       AllOk(Awaited) \/ fault # {} \/ (terminal = "run" /\ terminal \in DeviceFails)
  /\ pc = "done" => result = Outcome
  /\ pc # "done" => result = "none"

\* Where the buffers are not.
Homes ==
  pc # "done" => \A b \in Entries :
    place[b] # Out /\ (place[b] = Lost => terminal \in SetupFails)

\* Past the join no worker is alive.
Joined == pc \in {"reclaim", "done"} => \A s \in Seams : worker[s] \in {"none", "exited"}

IInv == TypeOK /\ Fresh /\ Behind /\ Steps /\ Faults /\ Causes /\ Waited /\ Joined /\ Homes

-----------------------------------------------------------------------------
(* How a step changes the events.                                          *)

LEMMA SetTo ==
  ASSUME NEW S, NEW x \in EventStates, TypeOK
  PROVE  /\ Set(S, x) \in [Events -> EventStates]
         /\ \A e \in Events : Set(S, x)[e] = IF e \in S THEN x ELSE ev[e]
BY DEF Set, TypeOK

\* The walk stands at a node whose events nobody has touched.
LEMMA AtFresh ==
  ASSUME IInv, NEW n \in Nodes, Walking(n)
  PROVE  /\ \A e \in EventsOf(n) : ev[e] = "none"
         /\ n \in Seams => worker[n] = "none"
<1>1. n >= at
  BY DEF Walking, Nodes, IInv, TypeOK
<1>. QED  BY <1>1 DEF Walking, IInv, Fresh

\* No event leaves the state ok.
LEMMA OkStays ==
  ASSUME IInv, Next
  PROVE  \A e \in Events : ev[e] = "ok" => ev'[e] = "ok"
<1>. SUFFICES ASSUME NEW e \in Events, ev[e] = "ok"  PROVE ev'[e] = "ok"
  OBVIOUS
<1>. USE DEF EventStates
<1>0. TypeOK
  BY DEF IInv
<1>1. ASSUME NEW c \in Commands, Device(c)  PROVE ev'[e] = "ok"
  BY <1>0, <1>1, SetTo DEF Device, Begin, Finish, Cancel
<1>2. ASSUME NEW s \in Seams, Worker(s)  PROVE ev'[e] = "ok"
  <2>1. CASE Fire(s)
    BY <1>0, <2>1, SetTo DEF Fire
  <2>2. CASE SignalProceed(s)
    <3>1. ev[Proceed(s)] # "ok"
      BY <2>2 DEF IInv, Steps, StepsOf, SignalProceed, AtWorker
    <3>2. verdict[s] \in EventStates
      BY <1>0 DEF TypeOK
    <3>. QED  BY <1>0, <2>2, <3>1, <3>2, SetTo DEF SignalProceed
  <2>3. CASE UNCHANGED ev
    BY <2>3
  <2>. QED
    BY <1>2, <2>1, <2>2, <2>3
    DEF Worker, WorkerCancelled, WorkerSourceOk, WorkerMapped, WorkerMapFailed,
        ClosureReturns, ClosureFails, Stash
<1>3. ASSUME Caller  PROVE ev'[e] = "ok"
  <2>1. ASSUME NEW n \in Nodes, Enqueue(n)  PROVE ev'[e] = "ok"
    <3>1. ev[Cmd(n)] = "none"
      BY <2>1, AtFresh, NodeEvents DEF Enqueue
    <3>. QED  BY <1>0, <2>1, <3>1, SetTo DEF Enqueue
  <2>2. ASSUME NEW n \in Nodes, EnqueueSeam(n)  PROVE ev'[e] = "ok"
    <3>1. \A c \in {Cmd(n), Unmap(n), FireEv(n), Proceed(n)} : ev[c] = "none"
      BY <2>2, AtFresh, NodeEvents DEF EnqueueSeam
    <3>. QED  BY <1>0, <2>2, <3>1, SetTo DEF EnqueueSeam
  <2>3. ASSUME NEW n \in Nodes, UnmapRefused(n)  PROVE ev'[e] = "ok"
    <3>1. \A c \in {Cmd(n), Unmap(n), FireEv(n), Proceed(n)} : ev[c] = "none"
      BY <2>3, AtFresh, NodeEvents DEF UnmapRefused
    <3>. QED  BY <2>3, <3>1 DEF UnmapRefused
  <2>4. CASE WalkEnds
    <3>1. ev[Marker] = "none"
      BY <2>4 DEF IInv, Fresh, WalkEnds, Walked
    <3>. QED  BY <1>0, <2>4, <3>1, SetTo DEF WalkEnds
  <2>5. CASE Release
    BY <1>0, <2>5, SetTo DEF Release
  <2>6. CASE UNCHANGED ev
    BY <2>6
  <2>. QED
    BY <1>3, <2>1, <2>2, <2>3, <2>4, <2>5, <2>6
    DEF Caller, Refused, MapRefused, MarkerRefused, WaitEnds, Join, Return
<1>. QED  BY <1>1, <1>2, <1>3 DEF Next

\* So a list that is all ok stays so.
LEMMA AllOkStays ==
  ASSUME IInv, Next, NEW S, S \subseteq Events, AllOk(S)
  PROVE  AllOk(S)'
BY OkStays DEF AllOk

-----------------------------------------------------------------------------
(* The invariant holds of every step.                                      *)

LEMMA InitHolds == Init => IInv
<1>. SUFFICES ASSUME Init  PROVE IInv
  OBVIOUS
<1>. USE DEF Init
<1>1. TypeOK
  <2>1. 1 \in 1..(N + 1)
    BY NodeAssumption
  <2>2. /\ ev \in [Events -> EventStates]
        /\ \A e \in Events \ Commands : ev[e] # "running"
    BY DEF EventStates
  <2>3. /\ worker \in [Seams -> WorkerSteps] /\ verdict \in [Seams -> {"ok", "err"}]
        /\ place \in [Entries -> {Cell, Lost, Out} \cup Nodes]
    BY DEF WorkerSteps
  <2>. QED  BY <2>1, <2>2, <2>3 DEF TypeOK
<1>2. \A e \in Events : ev[e] \in {"none", "pending"} /\ (e # Start => ev[e] = "none")
  OBVIOUS
<1>3. Fresh
  <2>1. \A n \in Nodes : \A e \in EventsOf(n) : e # Start
    BY DEF EventsOf, Start, Nodes
  <2>2. Marker \in Events /\ Marker # Start
    BY EventSorts DEF Marker, Start
  <2>. QED  BY <1>2, <2>1, <2>2, NodeEvents DEF Fresh
<1>4. Behind
  BY <1>2, EventSorts DEF Behind
<1>5. Steps /\ Faults /\ Causes
  BY <1>2, EventSorts DEF Steps, StepsOf, Faults, Causes
<1>6. Waited /\ Joined /\ Homes
  <2>1. Cell # Out /\ Cell # Lost
    BY NodeAssumption DEF Cell, Out, Lost
  <2>. QED  BY <2>1 DEF Waited, Joined, Homes
<1>. QED  BY <1>1, <1>3, <1>4, <1>5, <1>6 DEF IInv

LEMMA TypeStep ==
  ASSUME IInv, Next
  PROVE  TypeOK'
<1>0. TypeOK
  BY DEF IInv
<1>. USE DEF EventStates, WorkerSteps
<1>1. ASSUME NEW c \in Commands, Device(c)  PROVE TypeOK'
  <2>1. \A e \in Events : ev'[e] = "running" => e \in Commands
    BY <1>0, <1>1, SetTo DEF Device, Begin, Finish, Cancel, TypeOK
  <2>2. ev' \in [Events -> EventStates]
    BY <1>0, <1>1, SetTo DEF Device, Begin, Finish, Cancel
  <2>. QED
    BY <1>0, <1>1, <2>1, <2>2
    DEF Device, Begin, Finish, Cancel, TypeOK, workVars, walkVars
<1>2. ASSUME NEW s \in Seams, Worker(s)  PROVE TypeOK'
  <2>1. CASE Fire(s)
    BY <1>0, <1>2, <2>1, SetTo, EventNames DEF Fire, TypeOK, GoTo, WorkerOnly, Worker, walkVars
  <2>2. CASE SignalProceed(s)
    <3>1. verdict[s] \in {"ok", "err"}
      BY <1>0 DEF TypeOK
    <3>. QED
      BY <1>0, <1>2, <2>2, <3>1, SetTo, EventNames
      DEF SignalProceed, TypeOK, GoTo, WorkerOnly, Worker, walkVars
  <2>3. CASE Stash(s)
    <3>1. s \in fault
      BY <2>3 DEF Stash, AtWorker, IInv, Steps, StepsOf
    <3>. QED
      BY <1>0, <1>2, <2>3, <3>1 DEF Stash, TypeOK, GoTo, WorkerOnly, Worker, walkVars
  <2>4. CASE \/ WorkerCancelled(s) \/ WorkerSourceOk(s) \/ WorkerMapped(s)
             \/ WorkerMapFailed(s) \/ ClosureReturns(s) \/ ClosureFails(s)
    BY <1>0, <1>2, <2>4
    DEF WorkerCancelled, WorkerSourceOk, WorkerMapped, WorkerMapFailed, ClosureReturns,
        ClosureFails, TypeOK, GoTo, Forward, WorkerOnly, Worker, walkVars
  <2>. QED  BY <1>2, <2>1, <2>2, <2>3, <2>4 DEF Worker
<1>3. ASSUME Caller  PROVE TypeOK'
  <2>1. ASSUME NEW n \in Nodes, NEW w \in {Cell, Lost} \cup Nodes
        PROVE  Moved(n, w) \in [Entries -> {Cell, Lost, Out} \cup Nodes]
    BY <1>0, <2>1 DEF TypeOK, Moved
  <2>2. ASSUME NEW n \in Nodes, Walking(n)  PROVE at + 1 \in 1..(N + 1)
    BY <2>2, NodeAssumption DEF Walking, Nodes
  <2>3. ASSUME NEW n \in Nodes, Enqueue(n)  PROVE TypeOK'
    BY <1>0, <1>3, <2>1, <2>2, <2>3, SetTo, EventSorts
    DEF Enqueue, StepOn, TypeOK, workVars, Caller
  <2>4. ASSUME NEW n \in Nodes, Refused(n)  PROVE TypeOK'
    BY <1>0, <1>3, <2>1, <2>4 DEF Refused, Fails, TypeOK, workVars, Caller
  <2>5. ASSUME NEW n \in Nodes, EnqueueSeam(n)  PROVE TypeOK'
    BY <1>0, <1>3, <2>1, <2>2, <2>5, SetTo
    DEF EnqueueSeam, StepOn, GoTo, TypeOK, Caller
  <2>6. ASSUME NEW n \in Nodes, MapRefused(n)  PROVE TypeOK'
    BY <1>0, <1>3, <2>1, <2>6 DEF MapRefused, Fails, TypeOK, workVars, Caller
  <2>7. ASSUME NEW n \in Nodes, UnmapRefused(n)  PROVE TypeOK'
    BY <1>0, <1>3, <2>1, <2>7 DEF UnmapRefused, Fails, TypeOK, workVars, Caller
  <2>8. CASE WalkEnds \/ MarkerRefused \/ Release \/ WaitEnds \/ Join
    <3>1. CASE WalkEnds \/ Release
      <4>1. ev' \in [Events -> EventStates] /\ \A e \in Events : ev'[e] = "running" => e \in Commands
        BY <1>0, <3>1, SetTo DEF WalkEnds, Release, TypeOK
      <4>2. UNCHANGED <<terminal, workVars, walkVars, waitErr, place, result>>
        BY <1>3, <3>1 DEF WalkEnds, Release, Caller
      <4>3. pc' \in {"release", "join", "wait"}
        BY <3>1 DEF WalkEnds, Release
      <4>. QED  BY <1>0, <4>1, <4>2, <4>3 DEF TypeOK, workVars, walkVars
    <3>2. CASE MarkerRefused \/ Join
      BY <1>0, <1>3, <3>2 DEF MarkerRefused, Join, Fails, TypeOK, workVars, walkVars, Caller
    <3>3. CASE WaitEnds
      <4>1. waitErr' \in BOOLEAN
        BY <3>3 DEF WaitEnds
      <4>2. pc' = "join" /\ UNCHANGED <<terminal, ev, workVars, walkVars, place, result>>
        BY <1>3, <3>3 DEF WaitEnds, Caller
      <4>. QED  BY <1>0, <4>1, <4>2 DEF TypeOK, workVars, walkVars
    <3>. QED  BY <2>8, <3>1, <3>2, <3>3
  <2>9. CASE Return
    BY <1>0, <1>3, <2>9
    DEF Return, Output, Outcome, TypeOK, workVars, walkVars, Caller
  <2>. QED  BY <1>3, <2>3, <2>4, <2>5, <2>6, <2>7, <2>8, <2>9 DEF Caller
<1>. QED  BY <1>1, <1>2, <1>3 DEF Next

LEMMA FreshStep ==
  ASSUME IInv, Next
  PROVE  Fresh'
<1>0. TypeOK /\ Fresh
  BY DEF IInv
<1>. SUFFICES ASSUME pc' = "walk"  PROVE Fresh'
  BY DEF Fresh
<1>1. ASSUME NEW c \in Commands, Device(c)  PROVE Fresh'
  <2>1. ev[c] # "none" /\ pc = "walk"
    BY <1>1 DEF Device, Begin, Finish, Cancel
  <2>2. \A e \in Events : ev[e] = "none" => ev'[e] = "none"
    BY <1>0, <1>1, <2>1, SetTo DEF Device, Begin, Finish, Cancel, EventStates
  <2>3. UNCHANGED <<at, worker, failed, pc>>
    BY <1>1 DEF Device, Begin, Finish, Cancel, walkVars, workVars
  <2>. QED  BY <1>0, <2>2, <2>3, NodeEvents, EventSorts DEF Fresh
<1>2. ASSUME NEW s \in Seams, Worker(s)  PROVE Fresh'
  <2>1. worker[s] # "none" /\ UNCHANGED <<pc, at, failed>> /\ s \in Nodes
    BY <1>2, NodeAssumption
    DEF Worker, WorkerCancelled, WorkerSourceOk, WorkerMapped, WorkerMapFailed,
        ClosureReturns, ClosureFails, Stash, Fire, SignalProceed, AtWorker, WorkerOnly, walkVars
  <2>2. ~(s >= at)
    BY <1>0, <2>1 DEF Fresh
  <2>3. \A r \in Seams : r # s => worker'[r] = worker[r]
    BY <1>0, <1>2
    DEF Worker, WorkerCancelled, WorkerSourceOk, WorkerMapped, WorkerMapFailed,
        ClosureReturns, ClosureFails, Stash, Fire, SignalProceed, GoTo, TypeOK
  <2>4. \A e \in Events : ev'[e] # ev[e] => e \in {FireEv(s), Proceed(s)}
    <3>1. verdict[s] \in EventStates /\ "ok" \in EventStates
      BY <1>0 DEF TypeOK, EventStates
    <3>. QED
      BY <1>0, <1>2, <3>1, SetTo
      DEF Worker, WorkerCancelled, WorkerSourceOk, WorkerMapped, WorkerMapFailed,
          ClosureReturns, ClosureFails, Stash, Fire, SignalProceed
  <2>5. \A n \in Nodes : n >= at => \A e \in EventsOf(n) : ev'[e] = ev[e]
    BY <2>1, <2>2, <2>4, NodeEvents DEF EventsOf, FireEv, Proceed
  <2>6. ev'[Marker] = ev[Marker]
    BY <2>4, EventSorts, EventNames
  <2>. QED  BY <1>0, <2>1, <2>2, <2>3, <2>5, <2>6 DEF Fresh
<1>3. ASSUME Caller  PROVE Fresh'
  <2>1. PICK n \in Nodes : Enqueue(n) \/ EnqueueSeam(n)
    BY <1>3
    DEF Caller, Refused, MapRefused, UnmapRefused, WalkEnds, MarkerRefused, Release, WaitEnds,
        Join, Return, Fails
  <2>2. at = n /\ at' = at + 1 /\ pc = "walk" /\ UNCHANGED failed /\ n \in Nat
    BY <2>1 DEF Enqueue, EnqueueSeam, Walking, StepOn, Nodes
  <2>3. \A e \in Events : ev'[e] # ev[e] => e \in EventsOf(n)
    BY <1>0, <2>1, SetTo, NodeEvents DEF Enqueue, EnqueueSeam, EventStates
  <2>4. \A s \in Seams : s # n => worker'[s] = worker[s]
    BY <1>0, <2>1 DEF Enqueue, EnqueueSeam, GoTo, workVars, TypeOK
  <2>5. \A m \in Nodes : m >= at' => m # n /\ m >= at
    BY <2>2 DEF Nodes
  <2>6. \A m \in Nodes : m # n => \A e \in EventsOf(m) : ev'[e] = ev[e]
    BY <2>3, NodeEvents DEF EventsOf
  <2>7. ev'[Marker] = ev[Marker]
    BY <2>3, EventSorts DEF EventsOf, Marker, Nodes
  <2>. QED  BY <1>0, <2>2, <2>4, <2>5, <2>6, <2>7 DEF Fresh
<1>. QED  BY <1>1, <1>2, <1>3 DEF Next

LEMMA BehindStep ==
  ASSUME IInv, Next
  PROVE  Behind'
<1>0. TypeOK /\ Behind
  BY DEF IInv
<1>. SUFFICES ASSUME NEW e \in Commands, ev'[e] \in {"running", "ok"}
              PROVE  AllOk(Waits(e))'
  BY DEF Behind
<1>1. e \in Events /\ Waits(e) \subseteq Events
  BY EventSorts, ListsAreEvents
<1>2. AllOk(Waits(e))
  <2>1. CASE ev[e] \in {"running", "ok"}
    BY <1>0, <2>1 DEF Behind
  <2>2. CASE ev[e] \notin {"running", "ok"}
    <3>1. ASSUME NEW c \in Commands, Device(c)  PROVE AllOk(Waits(e))
      BY <1>0, <1>1, <2>2, <3>1, SetTo DEF Device, Begin, Finish, Cancel, EventStates
    <3>2. ASSUME NEW s \in Seams, Worker(s)  PROVE FALSE
      <4>1. verdict[s] \in EventStates /\ "ok" \in EventStates
        BY <1>0 DEF TypeOK, EventStates
      <4>2. \A x \in Events : ev'[x] # ev[x] => x \in {FireEv(s), Proceed(s)}
        BY <1>0, <3>2, <4>1, SetTo
        DEF Worker, WorkerCancelled, WorkerSourceOk, WorkerMapped, WorkerMapFailed,
            ClosureReturns, ClosureFails, Stash, Fire, SignalProceed
      <4>. QED  BY <1>1, <2>2, <4>2, EventNames
    <3>3. ASSUME Caller  PROVE FALSE
      <4>1. e # Start
        BY DEF Commands, Cmd, Unmap, Marker, Start
      <4>2. \A n \in Nodes : e \notin {FireEv(n), Proceed(n)}
        BY DEF Commands, Cmd, Unmap, Marker, FireEv, Proceed
      <4>3. ASSUME NEW n \in Nodes, Enqueue(n) \/ EnqueueSeam(n)  PROVE FALSE
        BY <1>0, <1>1, <2>2, <4>3, SetTo DEF Enqueue, EnqueueSeam, EventStates
      <4>4. ASSUME NEW n \in Nodes, UnmapRefused(n)  PROVE FALSE
        BY <1>1, <2>2, <4>2, <4>4 DEF UnmapRefused
      <4>5. CASE WalkEnds \/ Release
        BY <1>0, <1>1, <2>2, <4>1, <4>5, SetTo DEF WalkEnds, Release, EventStates
      <4>6. CASE UNCHANGED ev
        BY <2>2, <4>6
      <4>. QED
        BY <3>3, <4>3, <4>4, <4>5, <4>6
        DEF Caller, Refused, MapRefused, MarkerRefused, WaitEnds, Join, Return
    <3>. QED  BY <3>1, <3>2, <3>3 DEF Next
  <2>. QED  BY <2>1, <2>2
<1>. QED  BY <1>1, <1>2, AllOkStays

\* A step of a worker moves that worker only, and completes at most its own two
\* user events.
LEMMA WorkerMoves ==
  ASSUME TypeOK, NEW s \in Seams, Worker(s)
  PROVE  /\ \A r \in Seams : r # s => worker'[r] = worker[r] /\ verdict'[r] = verdict[r]
         /\ \A e \in Events : ev'[e] # ev[e] => e \in {FireEv(s), Proceed(s)}
         /\ fault \subseteq fault' /\ fault' \subseteq fault \cup {s}
         /\ worker[s] \notin {"none", "exited"}
         /\ worker'[s] \in WorkerSteps \ {"none", "source"}
<1>1. verdict[s] \in EventStates /\ "ok" \in EventStates
  BY DEF TypeOK, EventStates
<1>. QED
  BY <1>1, SetTo
  DEF Worker, WorkerCancelled, WorkerSourceOk, WorkerMapped, WorkerMapFailed, ClosureReturns,
      ClosureFails, Stash, Fire, SignalProceed, GoTo, Forward, AtWorker, TypeOK, WorkerSteps

LEMMA StepsStep ==
  ASSUME IInv, Next
  PROVE  Steps'
<1>0. TypeOK /\ Steps
  BY DEF IInv
<1>. SUFFICES ASSUME NEW s \in Seams  PROVE StepsOf(s)'
  BY DEF Steps
<1>1. s \in Nodes /\ Cmd(s) \in Events /\ FireEv(s) \in Events /\ Proceed(s) \in Events
  BY EventSorts, NodeAssumption
<1>2. Deps(s) \subseteq Events
  BY <1>1, ListsAreEvents
<1>3. AllOk(Deps(s)) => AllOk(Deps(s))'
  BY <1>2, AllOkStays
<1>4. /\ ev[Cmd(s)] = "ok" => ev'[Cmd(s)] = "ok"
      /\ ev[FireEv(s)] = "ok" => ev'[FireEv(s)] = "ok"
  BY <1>1, OkStays
<1>5. ASSUME worker'[s] = worker[s], verdict'[s] = verdict[s], s \in fault => s \in fault',
             ev'[Proceed(s)] = "ok" => ev[Proceed(s)] = "ok"
      PROVE  StepsOf(s)'
  BY <1>0, <1>3, <1>4, <1>5 DEF Steps, StepsOf
<1>6. ASSUME NEW c \in Commands, Device(c)  PROVE ev'[Proceed(s)] = ev[Proceed(s)]
  BY <1>0, <1>1, <1>6, SetTo, EventNames DEF Device, Begin, Finish, Cancel, EventStates
<1>7. ASSUME NEW r \in Seams, Worker(r), r # s
      PROVE  ev'[Proceed(s)] = ev[Proceed(s)]
  BY <1>0, <1>1, <1>7, WorkerMoves, EventNames
<1>8. CASE Worker(s)
  <2>. USE <1>0, <1>1, <1>3, <1>4 DEF Steps, StepsOf
  <2>1. CASE WorkerCancelled(s)
    BY <2>1 DEF WorkerCancelled, GoTo, Forward, AtWorker, TypeOK
  <2>2. CASE WorkerSourceOk(s)
    BY <2>2 DEF WorkerSourceOk, GoTo, AtWorker, TypeOK
  <2>3. CASE WorkerMapped(s)
    BY <2>3 DEF WorkerMapped, GoTo, AtWorker, TypeOK
  <2>4. CASE WorkerMapFailed(s)
    BY <2>4 DEF WorkerMapFailed, GoTo, Forward, AtWorker, TypeOK
  <2>5. CASE ClosureReturns(s)
    BY <2>5 DEF ClosureReturns, GoTo, Forward, AtWorker, TypeOK
  <2>6. CASE ClosureFails(s)
    BY <2>6 DEF ClosureFails, GoTo, Forward, AtWorker, TypeOK
  <2>7. CASE Stash(s)
    <3>1. s \in fault /\ verdict[s] = "err"
      BY <2>7 DEF Stash, AtWorker, IInv, Faults
    <3>. QED  BY <2>7, <3>1 DEF Stash, GoTo, AtWorker, TypeOK
  <2>8. CASE Fire(s)
    <3>1. ev'[FireEv(s)] = "ok" /\ ev'[Proceed(s)] = ev[Proceed(s)]
      BY <2>8, SetTo, EventNames DEF Fire, EventStates
    <3>. QED  BY <2>8, <3>1 DEF Fire, GoTo, AtWorker, TypeOK
  <2>9. CASE SignalProceed(s)
    <3>1. verdict[s] \in EventStates
      BY DEF TypeOK, EventStates
    <3>2. ev'[Proceed(s)] = verdict[s]
      BY <2>9, <3>1, SetTo DEF SignalProceed
    <3>. QED  BY <2>9, <3>2 DEF SignalProceed, GoTo, AtWorker, TypeOK
  <2>. QED
    BY <1>8, <2>1, <2>2, <2>3, <2>4, <2>5, <2>6, <2>7, <2>8, <2>9 DEF Worker
<1>9. CASE Caller
  <2>1. fault' = fault /\ verdict' = verdict
    BY <1>9
    DEF Caller, Enqueue, EnqueueSeam, Refused, MapRefused, UnmapRefused, WalkEnds, MarkerRefused,
        Release, WaitEnds, Join, Return, workVars
  <2>2. ev'[Proceed(s)] = "ok" => ev[Proceed(s)] = "ok"
    <3>1. ASSUME NEW n \in Nodes, Enqueue(n) \/ EnqueueSeam(n)
          PROVE  ev'[Proceed(s)] = "ok" => ev[Proceed(s)] = "ok"
      BY <1>0, <1>1, <3>1, SetTo DEF Enqueue, EnqueueSeam, EventStates
    <3>2. ASSUME NEW n \in Nodes, UnmapRefused(n)
          PROVE  ev'[Proceed(s)] = "ok" => ev[Proceed(s)] = "ok"
      BY <1>1, <3>2 DEF UnmapRefused
    <3>3. CASE WalkEnds \/ Release
      <4>1. Proceed(s) # Marker /\ Proceed(s) # Start
        BY EventNames
      <4>. QED  BY <1>0, <1>1, <3>3, <4>1, SetTo DEF WalkEnds, Release, EventStates
    <3>4. CASE UNCHANGED ev
      BY <3>4
    <3>. QED
      BY <1>9, <3>1, <3>2, <3>3, <3>4
      DEF Caller, Refused, MapRefused, MarkerRefused, WaitEnds, Join, Return
  <2>3. CASE worker'[s] = worker[s]
    BY <1>5, <2>1, <2>2, <2>3
  <2>4. CASE worker'[s] # worker[s]
    <3>1. EnqueueSeam(s)
      BY <1>0, <1>9, <2>4
      DEF Caller, Enqueue, EnqueueSeam, Refused, MapRefused, UnmapRefused, WalkEnds, MarkerRefused,
          Release, WaitEnds, Join, Return, workVars, GoTo, TypeOK
    <3>2. worker'[s] = "source"
      BY <1>0, <3>1 DEF EnqueueSeam, GoTo, TypeOK
    <3>3. ev[Proceed(s)] = "none"
      BY <1>1, <3>1, AtFresh, NodeEvents DEF EnqueueSeam
    <3>. QED  BY <2>2, <3>2, <3>3 DEF StepsOf
  <2>. QED  BY <2>3, <2>4
<1>10. CASE \E c \in Commands : Device(c)
  BY <1>5, <1>6, <1>10 DEF Device, Begin, Finish, Cancel, workVars
<1>11. CASE \E r \in Seams : r # s /\ Worker(r)
  BY <1>0, <1>5, <1>7, <1>11, WorkerMoves
<1>. QED  BY <1>8, <1>9, <1>10, <1>11 DEF Next

LEMMA FaultsStep ==
  ASSUME IInv, Next
  PROVE  Faults'
<1>0. TypeOK /\ Steps /\ Faults
  BY DEF IInv
<1>1. \A s \in fault : AllOk(Deps(s))'
  BY <1>0, AllOkStays, ListsAreEvents, NodeAssumption DEF Faults, TypeOK
<1>2. CASE UNCHANGED <<worker, verdict, fault, stash>>
  BY <1>0, <1>1, <1>2 DEF Faults
<1>3. ASSUME NEW s \in Seams, Worker(s)  PROVE Faults'
  <2>1. AllOk(Deps(s)) => AllOk(Deps(s))'
    BY AllOkStays, ListsAreEvents, NodeAssumption
  <2>2. StepsOf(s)
    BY <1>0 DEF Steps
  <2>3. \A r \in fault : r # s => worker'[r] = worker[r] /\ verdict'[r] = verdict[r]
    BY <1>0, <1>3, WorkerMoves DEF TypeOK
  <2>. USE <1>0, <1>1, <2>1, <2>2, <2>3 DEF Faults, StepsOf, AtWorker, GoTo, Forward, TypeOK
  <2>4. CASE WorkerCancelled(s) \/ WorkerSourceOk(s) \/ WorkerMapped(s) \/ ClosureReturns(s)
    <3>1. s \notin fault
      BY <2>4 DEF WorkerCancelled, WorkerSourceOk, WorkerMapped, ClosureReturns
    <3>2. UNCHANGED <<fault, stash>>
      BY <2>4 DEF WorkerCancelled, WorkerSourceOk, WorkerMapped, ClosureReturns
    <3>. QED  BY <3>1, <3>2
  <2>5. CASE WorkerMapFailed(s) \/ ClosureFails(s)
    <3>1. /\ fault' = fault \cup {s} /\ stash' = stash
          /\ worker'[s] = "stash" /\ verdict'[s] = "err" /\ AllOk(Deps(s))'
      BY <2>5 DEF WorkerMapFailed, ClosureFails
    <3>. QED  BY <3>1
  <2>6. CASE Stash(s)
    <3>1. /\ fault' = fault /\ s \in fault /\ worker'[s] = "fire" /\ verdict' = verdict
          /\ stash' = IF stash = NoSeam THEN s ELSE stash
      BY <2>6 DEF Stash
    <3>2. stash' # NoSeam
      BY <3>1, NodeAssumption DEF NoSeam, Nodes
    <3>. QED  BY <3>1, <3>2
  <2>7. CASE Fire(s) \/ SignalProceed(s)
    <3>1. /\ UNCHANGED <<fault, stash, verdict>>
          /\ worker[s] \in {"fire", "proceed"} /\ worker'[s] \in {"proceed", "exited"}
      BY <2>7 DEF Fire, SignalProceed
    <3>. QED  BY <3>1
  <2>. QED  BY <1>3, <2>4, <2>5, <2>6, <2>7 DEF Worker
<1>4. CASE Caller
  <2>1. CASE UNCHANGED workVars
    BY <1>2, <2>1 DEF workVars
  <2>2. ASSUME NEW s \in Nodes, EnqueueSeam(s)  PROVE Faults'
    <3>1. s \in Seams /\ worker[s] = "none" /\ s \notin fault
      BY <1>0, <2>2, AtFresh DEF EnqueueSeam, Faults
    <3>2. UNCHANGED <<fault, stash, verdict>> /\ \A r \in fault : worker'[r] = worker[r]
      BY <1>0, <2>2, <3>1 DEF EnqueueSeam, GoTo, TypeOK
    <3>. QED  BY <1>0, <1>1, <3>2 DEF Faults
  <2>. QED
    BY <1>4, <2>1, <2>2
    DEF Caller, Enqueue, Refused, MapRefused, UnmapRefused, WalkEnds, MarkerRefused, Release,
        WaitEnds, Join, Return
<1>. QED  BY <1>2, <1>3, <1>4 DEF Next, Device, Begin, Finish, Cancel, workVars

LEMMA CausesStep ==
  ASSUME IInv, Next
  PROVE  Causes'
<1>0. TypeOK /\ Causes
  BY DEF IInv
<1>. DEFINE Cause == fault # {} \/ failed \/ terminal \in DeviceFails
<1>1. Cause => Cause'
  <2>1. terminal' = terminal /\ fault \subseteq fault'
    BY <1>0, WorkerMoves
    DEF Next, Device, Begin, Finish, Cancel, Worker, Caller, Enqueue, EnqueueSeam, Refused, MapRefused,
        UnmapRefused, WalkEnds, MarkerRefused, Release, WaitEnds, Join, Return, workVars
  <2>2. failed => failed'
    BY <1>0
    DEF Next, Device, Begin, Finish, Cancel, Worker, WorkerCancelled, WorkerSourceOk, WorkerMapped,
        WorkerMapFailed, ClosureReturns, ClosureFails, Stash, Fire, SignalProceed, WorkerOnly,
        Caller, Enqueue, EnqueueSeam, Refused, MapRefused, UnmapRefused, WalkEnds, MarkerRefused,
        Release, WaitEnds, Join, Return, walkVars, StepOn, Fails
  <2>. QED  BY <2>1, <2>2
<1>2. SUFFICES ASSUME ~Cause'
               PROVE  /\ \A e \in Events : ev'[e] # "err"
                      /\ \A s \in Seams : verdict'[s] # "err"
  BY DEF Causes
<1>3. /\ \A e \in Events : ev[e] # "err"
      /\ \A s \in Seams : verdict[s] # "err"
  BY <1>0, <1>1, <1>2 DEF Causes
<1>4. \A S \in SUBSET Events : ~SomeFailed(S)
  BY <1>3 DEF SomeFailed
<1>5. ASSUME NEW c \in Commands, Device(c)  PROVE \A e \in Events : ev'[e] # "err"
  <2>1. ~Cancel(c)
    BY <1>4, ListsAreEvents DEF Cancel
  <2>2. terminal \notin DeviceFails
    BY <1>1, <1>2
  <2>. QED  BY <1>0, <1>3, <1>5, <2>1, <2>2, SetTo DEF Device, Begin, Finish, EventStates
<1>6. ASSUME NEW s \in Seams, Worker(s)
      PROVE  /\ \A e \in Events : ev'[e] # "err"
             /\ \A r \in Seams : verdict'[r] # "err"
  <2>1. ~WorkerCancelled(s)
    BY <1>4, ListsAreEvents, NodeAssumption DEF WorkerCancelled
  <2>2. ~WorkerMapFailed(s) /\ ~ClosureFails(s)
    BY <1>2 DEF WorkerMapFailed, ClosureFails
  <2>3. verdict[s] = "ok"
    BY <1>0, <1>3 DEF TypeOK
  <2>. QED
    BY <1>0, <1>3, <1>6, <2>1, <2>2, <2>3, SetTo
    DEF Worker, WorkerSourceOk, WorkerMapped, ClosureReturns, Stash, Fire, SignalProceed, Forward,
        EventStates, TypeOK
<1>7. ASSUME Caller
      PROVE  /\ \A e \in Events : ev'[e] # "err"
             /\ verdict' = verdict
  <2>1. ~failed'
    BY <1>2
  <2>2. ASSUME NEW n \in Nodes, Enqueue(n) \/ EnqueueSeam(n)
        PROVE  \A e \in Events : ev'[e] # "err"
    BY <1>0, <1>3, <2>2, SetTo DEF Enqueue, EnqueueSeam, EventStates
  <2>3. CASE WalkEnds \/ Release
    BY <1>0, <1>3, <2>3, SetTo DEF WalkEnds, Release, EventStates, workVars
  <2>4. CASE WaitEnds \/ Join \/ Return
    BY <1>3, <2>4 DEF WaitEnds, Join, Return, workVars
  <2>. QED
    BY <1>7, <2>1, <2>2, <2>3, <2>4
    DEF Caller, Enqueue, EnqueueSeam, Refused, MapRefused, UnmapRefused, MarkerRefused, Fails, workVars,
        WalkEnds, Release, WaitEnds, Join, Return
<1>. QED
  BY <1>3, <1>5, <1>6, <1>7 DEF Next, Device, Begin, Finish, Cancel, workVars

LEMMA JoinedStep ==
  ASSUME IInv, Next
  PROVE  Joined'
<1>0. TypeOK /\ Joined
  BY DEF IInv
<1>. SUFFICES ASSUME pc' \in {"reclaim", "done"}, NEW s \in Seams
              PROVE  worker'[s] \in {"none", "exited"}
  BY DEF Joined
<1>1. ASSUME NEW c \in Commands, Device(c)  PROVE worker' = worker /\ pc' = pc
  BY <1>1 DEF Device, Begin, Finish, Cancel, workVars
<1>2. ASSUME NEW r \in Seams, Worker(r)  PROVE FALSE
  <2>1. worker[r] \notin {"none", "exited"}
    BY <1>0, <1>2, WorkerMoves
  <2>2. pc' = pc
    BY <1>2
    DEF Worker, WorkerCancelled, WorkerSourceOk, WorkerMapped, WorkerMapFailed, ClosureReturns,
        ClosureFails, Stash, Fire, SignalProceed, WorkerOnly
  <2>. QED  BY <1>0, <2>1, <2>2 DEF Joined
<1>3. CASE Caller
  <2>1. CASE Join
    BY <2>1 DEF Join, workVars
  <2>2. CASE Return
    BY <1>0, <2>2 DEF Return, Joined, workVars
  <2>. QED
    BY <1>0, <1>3, <2>1, <2>2
    DEF Caller, Enqueue, EnqueueSeam, Refused, MapRefused, UnmapRefused, WalkEnds, MarkerRefused, Release,
        WaitEnds, StepOn, Fails, Walking, Walked
<1>. QED  BY <1>0, <1>1, <1>2, <1>3 DEF Next, Joined

LEMMA WaitedStep ==
  ASSUME IInv, Next
  PROVE  Waited'
<1>0. TypeOK /\ Fresh /\ Waited /\ Joined /\ Behind /\ Causes
  BY DEF IInv
<1>1. Awaited \subseteq Events /\ Awaited' = Awaited
  <2>1. terminal' = terminal
    BY DEF Next, Device, Worker, Caller
  <2>2. Outputs \subseteq Nodes
    BY NodeAssumption DEF Sinks
  <2>. QED  BY <2>1, <2>2, ListsAreEvents, EventSorts DEF Awaited
<1>2. AllOk(Awaited) => AllOk(Awaited)'
  <2>1. AllOk(Awaited) => \A e \in Awaited : ev'[e] = "ok"
    BY <1>1, OkStays DEF AllOk
  <2>. QED  BY <1>1, <2>1 DEF AllOk
<1>3. ASSUME UNCHANGED <<terminal, pc, failed, waitErr, result, stash>>, fault \subseteq fault'
      PROVE  Waited'
  BY <1>0, <1>2, <1>3 DEF Waited, Outcome
<1>4. ASSUME NEW c \in Commands, Device(c)  PROVE Waited'
  BY <1>3, <1>4 DEF Device, Begin, Finish, Cancel, workVars, walkVars
<1>5. ASSUME NEW s \in Seams, Worker(s)  PROVE Waited'
  <2>1. UNCHANGED <<terminal, pc, failed, waitErr, result>> /\ fault \subseteq fault'
    BY <1>0, <1>5, WorkerMoves
    DEF Worker, WorkerCancelled, WorkerSourceOk, WorkerMapped, WorkerMapFailed, ClosureReturns,
        ClosureFails, Stash, Fire, SignalProceed, WorkerOnly, walkVars
  <2>2. pc # "done"
    BY <1>0, <1>5, WorkerMoves DEF Joined
  <2>. QED  BY <1>0, <1>2, <2>1, <2>2 DEF Waited
<1>6. CASE Caller
  <2>1. ASSUME NEW n \in Nodes, Enqueue(n) \/ EnqueueSeam(n)  PROVE Waited'
    BY <1>0, <2>1 DEF Enqueue, EnqueueSeam, StepOn, Walking, Waited
  <2>2. ASSUME Fails, pc = "walk"  PROVE Waited'
    BY <1>0, <2>2 DEF Fails, Waited
  <2>3. CASE WalkEnds
    BY <1>0, <2>3 DEF WalkEnds, Walked, Waited, Fresh, walkVars
  <2>4. CASE Release
    BY <1>0, <2>4 DEF Release, Waited, walkVars
  <2>5. CASE WaitEnds
    <3>1. /\ pc = "wait" /\ pc' = "join" /\ failed' = failed /\ ~failed /\ result' = "none"
          /\ terminal' = terminal /\ ev' = ev /\ fault' = fault
      BY <1>0, <1>6, <2>5 DEF WaitEnds, Caller, Waited, walkVars, workVars
    <3>2. \A e \in Awaited : ev[e] \in {"ok", "err"}
      BY <2>5 DEF WaitEnds, Done
    <3>3. SUFFICES ASSUME ~waitErr'
          PROVE  \/ AllOk(Awaited)
                 \/ fault # {}
                 \/ terminal = "run" /\ terminal \in DeviceFails
      BY <1>2, <3>1 DEF Waited
    <3>4. terminal = "run" \/ fault # {} \/ ~SomeFailed(Awaited)
      BY <2>5, <3>3 DEF WaitEnds
    <3>5. AllOk(Awaited) \/ fault # {} \/ terminal \in DeviceFails
      BY <1>0, <1>1, <3>1, <3>2 DEF Causes, AllOk
    <3>. QED  BY <3>2, <3>4, <3>5 DEF SomeFailed, AllOk
  <2>6. CASE Join
    BY <1>0, <1>2, <1>6, <2>6 DEF Join, Waited, walkVars, workVars, Caller
  <2>7. CASE Return
    <3>1. UNCHANGED <<terminal, failed, waitErr, fault, stash>> /\ pc = "reclaim" /\ pc' = "done"
          /\ result' = Outcome
      BY <1>6, <2>7 DEF Return, Caller, walkVars, workVars
    <3>2. Outcome' = Outcome
      BY <3>1 DEF Outcome
    <3>. QED  BY <1>0, <1>2, <3>1, <3>2 DEF Waited
  <2>. QED
    BY <1>6, <2>1, <2>2, <2>3, <2>4, <2>5, <2>6, <2>7
    DEF Caller, Refused, MapRefused, UnmapRefused, MarkerRefused, Walking, Walked
<1>. QED  BY <1>4, <1>5, <1>6 DEF Next

LEMMA HomesStep ==
  ASSUME IInv, Next
  PROVE  Homes'
<1>0. TypeOK /\ Homes
  BY DEF IInv
<1>. SUFFICES ASSUME pc' # "done"  PROVE Homes'
  BY DEF Homes
<1>1. terminal' = terminal
  BY DEF Next, Device, Worker, Caller
<1>2. CASE UNCHANGED <<place, pc>>
  BY <1>0, <1>1, <1>2 DEF Homes
<1>3. CASE Caller
  <2>1. CASE UNCHANGED place
    <3>1. pc # "done"
      BY <1>3
      DEF Caller, Enqueue, EnqueueSeam, Refused, MapRefused, UnmapRefused, WalkEnds, MarkerRefused, Release,
          WaitEnds, Join, Return, Walking, Walked
    <3>. QED  BY <1>0, <1>1, <2>1, <3>1 DEF Homes
  <2>2. ASSUME NEW n \in Nodes, NEW w \in {Cell, Lost} \cup Nodes, Walking(n), place' = Moved(n, w),
               w = Lost => terminal \in SetupFails
        PROVE  Homes'
    <3>1. w # Out
      BY NodeAssumption DEF Cell, Lost, Out, Nodes
    <3>2. pc # "done"
      BY <2>2 DEF Walking
    <3>. QED  BY <1>0, <1>1, <2>2, <3>1, <3>2 DEF Homes, Moved
  <2>3. \A n \in Nodes : n # Lost /\ Cell # Lost
    BY NodeAssumption DEF Nodes, Cell, Lost
  <2>. QED
    BY <1>3, <2>1, <2>2, <2>3
    DEF Caller, Enqueue, EnqueueSeam, Refused, MapRefused, UnmapRefused, WalkEnds, MarkerRefused, Release,
        WaitEnds, Join, Return
<1>. QED
  BY <1>2, <1>3
  DEF Next, Device, Begin, Finish, Cancel, Worker, WorkerCancelled, WorkerSourceOk, WorkerMapped,
      WorkerMapFailed, ClosureReturns, ClosureFails, Stash, Fire, SignalProceed, WorkerOnly

\* The invariant holds of every run, under any fairness.
LEMMA IInvHolds == Spec => []IInv
<1>1. Init => IInv
  BY InitHolds
<1>2. IInv /\ [Next]_vars => IInv'
  <2>. SUFFICES ASSUME IInv, [Next]_vars  PROVE IInv'
    OBVIOUS
  <2>1. CASE Next
    BY <2>1, TypeStep, FreshStep, BehindStep, StepsStep, FaultsStep, CausesStep, WaitedStep, JoinedStep,
       HomesStep DEF IInv
  <2>2. CASE UNCHANGED vars
    BY <2>2
    DEF vars, workVars, walkVars, IInv, TypeOK, Fresh, Behind, Steps, StepsOf, Faults, Causes, Waited,
        Joined, Homes, AllOk, Awaited, Outcome
  <2>. QED  BY <2>1, <2>2
<1>. QED  BY <1>1, <1>2, PTL DEF Spec

-----------------------------------------------------------------------------
(* What the invariant says of everything upstream.                         *)

\* A node whose outputs are ok has all its events ok, and its sources' outputs.
LEMMA OutsAreOver ==
  ASSUME IInv, NEW n \in Nodes, AllOk(Outs(n))
  PROVE  AllOk(EventsOf(n)) /\ AllOk(Deps(n))
<1>0. Behind /\ Steps
  BY DEF IInv
<1>1. AllOk(EventsOf(n))
  <2>1. CASE n \notin Seams
    BY <2>1, NodeEvents DEF Outs, AllOk
  <2>2. CASE n \in Seams
    <3>1. ev[Unmap(n)] = "ok" /\ ev[Proceed(n)] = "ok"
      BY <2>2 DEF Outs, AllOk
    <3>2. ev[Cmd(n)] = "ok" /\ ev[FireEv(n)] = "ok"
      BY <1>0, <2>2, <3>1 DEF Steps, StepsOf
    <3>. QED  BY <2>2, <3>1, <3>2, NodeEvents DEF AllOk
  <2>. QED  BY <2>1, <2>2
<1>2. ev[Cmd(n)] = "ok"
  BY <1>1, NodeEvents DEF AllOk
<1>3. AllOk(Deps(n))
  BY <1>0, <1>2, EventSorts, WaitLists DEF Behind
<1>. QED  BY <1>1, <1>3

LEMMA DepsAreOuts ==
  ASSUME NEW n \in Nodes, AllOk(Deps(n)), NEW p \in Preds[n]
  PROVE  p \in Nodes /\ p < n /\ AllOk(Outs(p))
BY NodeAssumption DEF Deps, AllOk

\* So all the events upstream of an output that is ok are ok.
LEMMA UpstreamIsOver ==
  ASSUME IInv, NEW n \in Nodes, AllOk(Outs(n))
  PROVE  \A m \in Upstream[n] : m \in Nodes /\ AllOk(EventsOf(m)) /\ AllOk(Deps(m))
<1>. DEFINE Over(k) == \A m \in Upstream[k] : m \in Nodes /\ AllOk(EventsOf(m)) /\ AllOk(Deps(m))
            Bad == {k \in Nodes : AllOk(Outs(k)) /\ ~Over(k)}
<1>. SUFFICES ASSUME Bad # {}  PROVE FALSE
  OBVIOUS
<1>1. PICK k \in Bad : \A j \in Bad : k <= j
  <2>1. Bad \subseteq Nat
    BY DEF Nodes
  <2>. HIDE DEF Bad
  <2>. QED  BY <2>1, LeastMember
<1>2. AllOk(EventsOf(k)) /\ AllOk(Deps(k))
  BY <1>1, OutsAreOver
<1>3. \A p \in Preds[k] : p \in Nodes /\ p < k /\ AllOk(Outs(p))
  BY <1>1, <1>2, DepsAreOuts
<1>4. \A p \in Preds[k] : Over(p)
  <2>. TAKE p \in Preds[k]
  <2>1. p \notin Bad
    BY <1>1, <1>3 DEF Nodes
  <2>. QED  BY <1>3, <2>1
<1>5. Over(k)
  BY <1>1, <1>2, <1>4, UpstreamIs
<1>. QED  BY <1>1, <1>5

\* And all the events upstream of a wait list that is ok, but the node's own.
LEMMA SourcesAreOver ==
  ASSUME IInv, NEW n \in Nodes, AllOk(Deps(n))
  PROVE  \A m \in Upstream[n] :
           m \in Nodes /\ AllOk(Deps(m)) /\ (m # n => AllOk(EventsOf(m)))
<1>1. \A p \in Preds[n] : p \in Nodes /\ AllOk(Outs(p))
  BY DepsAreOuts
<1>. QED  BY <1>1, UpstreamIs, UpstreamIsOver

-----------------------------------------------------------------------------
(* The theorems.                                                           *)

\* The variables keep their types, whatever the graph, the terminal and what
\* fails (run_host_seam, run_host_worker, wait_on, run_eager_chain).
THEOREM TypeCorrect == Spec => []TypeOK
BY IInvHolds, PTL DEF IInv

\* In any graph a closure runs only when everything upstream of its seam has
\* succeeded, and no command downstream of a seam runs before its unmap
\* (run_host_worker; run_host_seam: fire and proceed are two events).
THEOREM HostIsAlone == Spec => []HostAlone
<1>1. IInv => HostAlone
  <2>1. ASSUME IInv, NEW s \in Seams, worker[s] = "closure"
        PROVE  \A m \in Upstream[s] \ {s} : AllOk(EventsOf(m))
    <3>1. s \in Nodes /\ AllOk(Deps(s))
      BY <2>1, NodeAssumption DEF IInv, Steps, StepsOf
    <3>. QED  BY <2>1, <3>1, SourcesAreOver
  <2>2. ASSUME IInv, NEW s \in Seams, NEW n \in Nodes, s # n, s \in Upstream[n],
               ev[Cmd(n)] = "running"
        PROVE  ev[Unmap(s)] = "ok"
    <3>1. AllOk(Deps(n))
      BY <2>2, EventSorts, WaitLists DEF IInv, Behind
    <3>2. AllOk(EventsOf(s))
      BY <2>2, <3>1, SourcesAreOver
    <3>. QED  BY <3>2, NodeEvents, NodeAssumption DEF AllOk
  <2>. QED  BY <2>1, <2>2 DEF HostAlone
<1>. QED  BY <1>1, IInvHolds, PTL

\* In any graph nothing that works on a buffer lent from a cell begins before the
\* start event (wait_on and run_eager_chain complete it after the walk).
THEOREM StartGates == Spec => []NothingBeforeStart
<1>1. IInv => NothingBeforeStart
  <2>. SUFFICES ASSUME IInv, ev[Start] = "pending", NEW n \in Nodes,
                       NEW m \in Upstream[n], m \in Entries, m \notin Ungated
                PROVE  /\ ev[Cmd(n)] \notin {"running", "ok"}
                       /\ n \in Seams => worker[n] \notin {"map", "closure"}
    BY DEF NothingBeforeStart
  <2>1. ~AllOk(Deps(m))
    BY DEF Deps, Gate, AllOk
  <2>2. ~AllOk(Deps(n))
    BY <2>1, SourcesAreOver
  <2>. QED
    BY <2>2, EventSorts, WaitLists DEF IInv, Behind, Steps, StepsOf
<1>. QED  BY <1>1, IInvHolds, PTL

\* A terminal that has returned has left no worker behind (join_workers).
THEOREM WorkersAreJoined == Spec => []NoWorkerLeft
<1>1. IInv => NoWorkerLeft
  BY DEF IInv, Joined, NoWorkerLeft
<1>. QED  BY <1>1, IInvHolds, PTL

\* A seam that failed is reported, and is one no other failed seam is upstream of
\* (the host-error slot).
THEOREM FaultsAreReported == Spec => []FaultIsReported
<1>1. IInv => FaultIsReported
  <2>. SUFFICES ASSUME IInv, pc = "done", fault # {}
                PROVE  /\ result = "fault" /\ stash \in fault
                       /\ \A s \in fault \ {stash} : s \notin Upstream[stash]
    BY DEF FaultIsReported
  <2>0. Faults /\ Joined /\ Waited /\ TypeOK /\ Steps
    BY DEF IInv
  <2>1. stash # NoSeam /\ stash \in fault
    BY <2>0 DEF Faults, Joined, TypeOK
  <2>2. result = "fault"
    BY <2>0, <2>1 DEF Waited, Outcome
  <2>3. ASSUME NEW s \in fault, s # stash, s \in Upstream[stash]  PROVE FALSE
    <3>1. stash \in Nodes /\ AllOk(Deps(stash))
      BY <2>0, <2>1, NodeAssumption DEF Faults, TypeOK
    <3>2. AllOk(EventsOf(s)) /\ s \in Seams /\ s \in Nodes
      BY <2>0, <2>3, <3>1, SourcesAreOver, NodeAssumption DEF TypeOK
    <3>3. ev[Proceed(s)] = "ok"
      BY <3>2, NodeEvents DEF AllOk
    <3>. QED  BY <2>0, <3>2, <3>3 DEF Faults, Steps, StepsOf
  <2>. QED  BY <2>1, <2>2, <2>3
<1>. QED  BY <1>1, IInvHolds, PTL

\* Where no command of a `run` fails on the device, a terminal that reports success
\* has waited for every command behind its outputs, and none has failed (wait_on,
\* DeviceChainFuture::poll).
THEOREM SuccessWasWaitedFor ==
  ASSUME "run" \notin DeviceFails
  PROVE  Spec => []SuccessIsReal
<1>1. IInv => SuccessIsReal
  <2>. SUFFICES ASSUME IInv, result = "ok", NEW n \in Outputs
                PROVE  \A m \in Upstream[n] : AllOk(EventsOf(m))
    BY DEF SuccessIsReal
  <2>0. Faults /\ Joined /\ Waited /\ TypeOK /\ Behind
    BY DEF IInv
  <2>1. pc = "done" /\ stash = NoSeam /\ ~failed /\ ~waitErr
    BY <2>0 DEF Waited, Outcome
  <2>2. fault = {}
    BY <2>0, <2>1 DEF Faults, Joined, TypeOK
  <2>3. AllOk(Awaited)
    BY <2>0, <2>1, <2>2 DEF Waited
  <2>4. n \in Sinks /\ n \in Nodes
    BY NodeAssumption DEF Sinks
  <2>5. AllOk(Outs(n))
    <3>1. CASE terminal = "run"
      <4>1. ev[Marker] = "ok"
        BY <2>3, <3>1 DEF Awaited, AllOk
      <4>2. AllOk(Waits(Marker))
        BY <2>0, <4>1, EventSorts DEF Behind
      <4>. QED  BY <2>4, <4>2, WaitLists DEF AllOk
    <3>2. CASE terminal # "run"
      BY <2>3, <3>2 DEF Awaited, AllOk
    <3>. QED  BY <3>1, <3>2
  <2>. QED  BY <2>4, <2>5, UpstreamIsOver
<1>. QED  BY <1>1, IInvHolds, PTL

\* Where no map or unmap is refused under `sync`, a failed sync leaves every buffer
\* in its cell (the error arms of wait_on).
THEOREM FailedSyncRearms ==
  ASSUME "sync" \notin SetupFails
  PROVE  Spec => []FailureRearms
<1>. DEFINE J == IInv /\ FailureRearms
<1>1. Init => J
  BY InitHolds DEF Init, FailureRearms
<1>2. ASSUME J, [Next]_vars  PROVE FailureRearms'
  <2>. SUFFICES ASSUME terminal' = "sync", pc' = "done", result' # "ok", NEW b \in Entries
                PROVE  place'[b] = Cell
    BY DEF FailureRearms
  <2>1. terminal = "sync"
    BY <1>2 DEF Next, Device, Worker, Caller, vars
  <2>2. CASE pc = "done"
    <3>1. UNCHANGED <<place, result>>
      BY <1>2, <2>2
      DEF Next, Device, Begin, Finish, Cancel, Worker, WorkerCancelled, WorkerSourceOk, WorkerMapped,
          WorkerMapFailed, ClosureReturns, ClosureFails, Stash, Fire, SignalProceed, WorkerOnly,
          Caller, Enqueue, EnqueueSeam, Refused, MapRefused, UnmapRefused, WalkEnds, MarkerRefused,
          Release, WaitEnds, Join, Return, Walking, Walked, vars
    <3>. QED  BY <1>2, <2>1, <2>2, <3>1 DEF FailureRearms
  <2>3. CASE pc # "done"
    <3>1. Return
      BY <1>2, <2>3
      DEF Next, Device, Begin, Finish, Cancel, Worker, WorkerCancelled, WorkerSourceOk, WorkerMapped,
          WorkerMapFailed, ClosureReturns, ClosureFails, Stash, Fire, SignalProceed, WorkerOnly,
          Caller, Enqueue, EnqueueSeam, Refused, MapRefused, UnmapRefused, WalkEnds, MarkerRefused,
          Release, WaitEnds, Join, StepOn, Fails, Walking, Walked, vars
    <3>2. place[b] \in {Cell} \cup Nodes
      BY <1>2, <2>1, <2>3 DEF IInv, TypeOK, Homes
    <3>3. Output = Cell
      BY <2>1, <3>1 DEF Return, Output
    <3>4. Cell \notin Nodes
      BY DEF Cell, Nodes
    <3>. QED  BY <3>1, <3>2, <3>3, <3>4 DEF Return
  <2>. QED  BY <2>2, <2>3
<1>3. IInv /\ FailureRearms /\ [Next]_vars => FailureRearms'
  BY <1>2
<1>. QED  BY <1>1, <1>3, IInvHolds, PTL DEF Spec
=============================================================================
