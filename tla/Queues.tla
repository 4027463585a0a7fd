------------------------------- MODULE Queues -------------------------------
(***************************************************************************)
(* The default queues that a Context keeps for its devices: made when they *)
(* are first asked for, handed out behind counted handles, thrown away     *)
(* after a failed chain, released with the Context.                        *)
(* (src/claspr/src/context.rs, src/claspr/src/queue.rs; run_eager_chain    *)
(* and the terminals use them)                                             *)
(*                                                                         *)
(* An out-of-order lookup holds the mutex of its slot and is one step.  An *)
(* in-order one goes through a OnceLock: looking, creating and setting are *)
(* steps of their own.  Each thread has one Queue at a time.               *)
(***************************************************************************)
EXTENDS Integers, Sequences, FiniteSets

CONSTANTS
  Devices,   \* the devices of the Context
  Main,      \* devices()[0], whose in-order queue is made with the Context
  Threads,
  Fails,     \* where chains fail: "early", in run(); "late", after it; "sync"
  MaxQueues  \* bound: the queues made

ASSUME MainIsThere == Main \in Devices
ASSUME FewThreads == IsFiniteSet(Threads)
ASSUME BoundIsSome == MaxQueues \in Nat

VARIABLES
  refs,     \* the reference count the driver keeps for each queue made
  inorder,  \* device -> the queue of its OnceLock, or None
  outorder, \* device -> the queue in its Mutex<Option>, or None
  ctx,      \* "held" by the program, "unheld", or "gone" once it is dropped
  stage,    \* thread -> where it is
  dev,      \* thread -> the device it looks up
  queue,    \* thread -> the queue it has made, is wrapping or has wrapped
  lost,     \* queues that lost the race for a OnceLock
  spoiled   \* <<queue, where>>: a command was terminated, the failed terminal returned

slots == <<inorder, outorder>>
threads == <<stage, dev, queue>>
qvars == <<refs, slots, ctx, threads, lost, spoiled>>

None == 0
Made == DOMAIN refs
\* A thread owns a reference: to what it has just made, or in a Queue.
Owning == {"set", "inorder", "outorder", "chain"}

\* What a thread needs to call a method of the Context.
Free(t) == ctx = "held" /\ stage[t] = "idle"
GoTo(t, where, d, q) ==
  /\ stage' = [stage EXCEPT ![t] = where]
  /\ dev' = [dev EXCEPT ![t] = d]
  /\ queue' = [queue EXCEPT ![t] = q]
Back(t) == GoTo(t, "idle", Main, None)

-----------------------------------------------------------------------------
(* In-order queues: once_lock_get_or_try_init                              *)

LookInorder(t, d) ==
  /\ Free(t)
  /\ IF inorder[d] # None THEN GoTo(t, "wrap", d, inorder[d]) ELSE GoTo(t, "create", d, None)
  /\ UNCHANGED <<refs, slots, ctx, lost, spoiled>>

CreateInorder(t) ==
  /\ stage[t] = "create" /\ Len(refs) < MaxQueues
  /\ refs' = Append(refs, 1)
  /\ GoTo(t, "set", dev[t], Len(refs) + 1)
  /\ UNCHANGED <<slots, ctx, lost, spoiled>>

\* A mutant of Winner: each thread goes on with the queue it made.
WinnerOwn(t) == queue[t]

\* The queue that is in the OnceLock once the thread has tried to set it.
Winner(t) == IF inorder[dev[t]] = None THEN queue[t] ELSE inorder[dev[t]]

\* The value that lost is discarded: a ManuallyDrop, which releases nothing.
SetInorder(t) ==
  /\ stage[t] = "set"
  /\ IF inorder[dev[t]] = None
     THEN inorder' = [inorder EXCEPT ![dev[t]] = queue[t]] /\ UNCHANGED lost
     ELSE lost' = lost \cup {queue[t]} /\ UNCHANGED inorder
  /\ GoTo(t, "wrap", dev[t], Winner(t))
  /\ UNCHANGED <<refs, outorder, ctx, spoiled>>

\* A mutant of Retained: the Queue shares the reference of the slot.
RetainedNot(q) == refs

\* Queue::wrap_default
Retained(q) == [refs EXCEPT ![q] = @ + 1]
Wrap(t) ==
  /\ stage[t] = "wrap"
  /\ refs' = Retained(queue[t])
  /\ GoTo(t, "inorder", dev[t], queue[t])
  /\ UNCHANGED <<slots, ctx, lost, spoiled>>

\* The driver refuses to make or to retain a queue.
Refused(t) ==
  /\ stage[t] \in {"create", "wrap"}
  /\ Back(t)
  /\ UNCHANGED <<refs, slots, ctx, lost, spoiled>>

-----------------------------------------------------------------------------
(* Out-of-order queues, and the chains that run on them                    *)

\* default_outoforder_queue, which makes the queue where there is none.
LookOutorder(t, d, where) ==
  /\ Free(t)
  /\ \/ /\ outorder[d] # None
        /\ refs' = Retained(outorder[d])
        /\ GoTo(t, where, d, outorder[d])
        /\ UNCHANGED outorder
     \/ /\ outorder[d] = None /\ Len(refs) < MaxQueues
        /\ refs' = Append(refs, 2)
        /\ outorder' = [outorder EXCEPT ![d] = Len(refs) + 1]
        /\ GoTo(t, where, d, Len(refs) + 1)
  /\ UNCHANGED <<inorder, ctx, lost, spoiled>>

\* It is made, and the driver refuses to retain it: it stays in the slot.
LookOutorderRefused(t, d) ==
  /\ Free(t) /\ outorder[d] = None /\ Len(refs) < MaxQueues
  /\ refs' = Append(refs, 1)
  /\ outorder' = [outorder EXCEPT ![d] = Len(refs) + 1]
  /\ UNCHANGED <<inorder, ctx, threads, lost, spoiled>>

\* QueueInner::drop, and what releases the handle of a slot
Released(q) == [refs EXCEPT ![q] = @ - 1]

\* A Queue is dropped: by the program, or by a chain that has succeeded.
DropQueue(t) ==
  /\ stage[t] \in {"inorder", "outorder", "chain"}
  /\ refs' = Released(queue[t])
  /\ Back(t)
  /\ UNCHANGED <<slots, ctx, lost, spoiled>>

\* A closure of the chain fails while the whole graph is still being enqueued;
\* run() drops its Queue and has yet to throw the cached one away.
FailsEarly(t) ==
  /\ "early" \in Fails /\ stage[t] = "chain"
  /\ refs' = Released(queue[t])
  /\ GoTo(t, "failed", dev[t], queue[t])
  /\ UNCHANGED <<slots, ctx, lost, spoiled>>

\* A mutant of Stale: a queue that others hold as well is kept.
StaleAlone(q) == q # None /\ refs[q] = 1

Stale(q) == q # None

\* invalidate_default_outoforder_queue, whatever the slot holds by then; run()
\* returns its error.
Invalidate(t) ==
  /\ stage[t] = "failed"
  /\ LET q == outorder[dev[t]] IN
     IF Stale(q)
     THEN refs' = Released(q) /\ outorder' = [outorder EXCEPT ![dev[t]] = None]
     ELSE UNCHANGED <<refs, outorder>>
  /\ spoiled' = spoiled \cup {<<queue[t], "early">>}
  /\ Back(t)
  /\ UNCHANGED <<inorder, ctx, lost>>

\* sync() returns the error of a closure, and so does the future of a run()
\* that had returned before; neither touches the cached queue.
FailsLate(t, where) ==
  /\ where \in Fails /\ stage[t] = "chain"
  /\ refs' = Released(queue[t])
  /\ spoiled' = spoiled \cup {<<queue[t], where>>}
  /\ Back(t)
  /\ UNCHANGED <<slots, ctx, lost>>

-----------------------------------------------------------------------------
(* The Context                                                             *)

\* The program drops its last Context; a Queue keeps the ContextInner.
DropContext ==
  /\ ctx = "held" /\ \A t \in Threads : stage[t] \in {"idle", "inorder", "outorder"}
  /\ ctx' = "unheld"
  /\ UNCHANGED <<refs, slots, threads, lost, spoiled>>

Cached == ({inorder[d] : d \in Devices} \cup {outorder[d] : d \in Devices}) \ {None}

\* ContextInner::drop releases what the slots hold.
DropInner ==
  /\ ctx = "unheld" /\ \A t \in Threads : stage[t] = "idle"
  /\ ctx' = "gone"
  /\ refs' = [q \in Made |-> IF q \in Cached THEN refs[q] - 1 ELSE refs[q]]
  /\ UNCHANGED <<slots, threads, lost, spoiled>>

-----------------------------------------------------------------------------

\* ContextBuilder::build
QInit ==
  /\ refs = <<1>>
  /\ inorder = [d \in Devices |-> IF d = Main THEN 1 ELSE None]
  /\ outorder = [d \in Devices |-> None]
  /\ ctx = "held"
  /\ stage = [t \in Threads |-> "idle"] /\ dev = [t \in Threads |-> Main] /\ queue = [t \in Threads |-> None]
  /\ lost = {} /\ spoiled = {}

QNext ==
  \/ \E t \in Threads, d \in Devices : LookInorder(t, d) \/ LookOutorder(t, d, "outorder") \/ LookOutorderRefused(t, d)
  \/ \E t \in Threads : LookOutorder(t, Main, "chain")
  \/ \E t \in Threads : CreateInorder(t) \/ SetInorder(t) \/ Wrap(t) \/ Refused(t)
  \/ \E t \in Threads : DropQueue(t) \/ FailsEarly(t) \/ Invalidate(t)
  \/ \E t \in Threads, where \in {"late", "sync"} : FailsLate(t, where)
  \/ DropContext \/ DropInner

QSpec == QInit /\ [][QNext]_qvars

-----------------------------------------------------------------------------
(* Properties                                                              *)

\* Every variable has its type, and a thread names only queues that were made.
QTypeOK ==
  /\ refs \in Seq(Int)
  /\ inorder \in [Devices -> Made \cup {None}] /\ outorder \in [Devices -> Made \cup {None}]
  /\ ctx \in {"held", "unheld", "gone"}
  /\ stage \in [Threads -> Owning \cup {"idle", "create", "wrap", "failed"}]
  /\ dev \in [Threads -> Devices] /\ queue \in [Threads -> Made \cup {None}]
  /\ lost \subseteq Made /\ spoiled \subseteq Made \X {"early", "late", "sync"}

\* The references to a queue that somebody will release, and that of a loser.
Owners(q) == {t \in Threads : stage[t] \in Owning /\ queue[t] = q}
Kept == lost \cup (IF ctx = "gone" THEN {} ELSE Cached)

\* The driver's count of each default queue is the number of its owners: the
\* slot of the Context while it is there, and each Queue handed out, whatever
\* the threads that race for a slot, invalidate it or drop the Context do.  So
\* no queue is used or released after its last release, and when the Context is
\* gone none is left but those that lost a race for a OnceLock.
Balanced == \A q \in Made : refs[q] = Cardinality(Owners(q)) + (IF q \in Kept THEN 1 ELSE 0)

\* "The same raw handle on every call": threads that ask for the in-order queue
\* of a device while it is being made all go on with the one that is kept.
Stable == \A t \in Threads : stage[t] \in {"wrap", "inorder"} => queue[t] = inorder[dev[t]]

\* After a run() has returned the error of a seam, nobody is handed the queue of
\* its terminated command again, though other threads still hold it, invalidate
\* it as well or fill the slot anew in between.
FreshAfterEarly == \A d \in Devices : <<outorder[d], "early">> \notin spoiled

\* The same of every terminal, sync() included.
FreshAfterFailure == \A d \in Devices, where \in Fails : <<outorder[d], where>> \notin spoiled

=============================================================================
