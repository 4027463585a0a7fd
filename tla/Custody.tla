------------------------------ MODULE Custody ------------------------------
(***************************************************************************)
(* What the home mechanism of reusable graphs promises about one buffer:   *)
(* a buffer a graph lends to a run stays claimed by the cell it came from  *)
(* until it returns there or its owner takes it out, no cell is claimed    *)
(* twice, and only a caller's own act destroys a buffer.                   *)
(* (src/claspr/src/eager.rs: Rehome, Homed, Checkout)                      *)
(***************************************************************************)
EXTENDS FiniteSets

CONSTANTS Buffers, Cells, None

VARIABLE custody   \* [Buffers -> claims]

Claim(k, s) == [k |-> k, cell |-> s]
Armed(s) == Claim("armed", s)        \* in its graph, ready for a run
Running(s) == Claim("running", s)    \* lent to a run, or waiting in a lent pipe
Out(s) == Claim("out", s)            \* in a live Checkout
Raw == Claim("raw", None)            \* the caller's own
Released == Claim("released", None)

Claims == {Armed(s) : s \in Cells} \cup {Running(s) : s \in Cells}
          \cup {Out(s) : s \in Cells} \cup {Raw, Released}

WithCaller(b) == custody[b].k \in {"raw", "out"}

\* No cell is claimed by two buffers.
OneClaim(c) == \A a, b \in Buffers : c[a].cell = c[b].cell /\ c[a].cell # None => a = b

Init ==
  /\ custody \in [Buffers -> {Raw} \cup {Armed(s) : s \in Cells}]
  /\ OneClaim(custody)

Move(b, from, to) == custody[b] = from /\ custody' = [custody EXCEPT ![b] = to]

Lend == \E b \in Buffers, s \in Cells : Move(b, Armed(s), Running(s))
Return == \E b \in Buffers, s \in Cells :
            Move(b, Running(s), Armed(s)) \/ Move(b, Out(s), Armed(s))
LendOnward == \E b \in Buffers, s \in Cells : Move(b, Out(s), Running(s))
Take == \E b \in Buffers, s \in Cells : Move(b, Out(s), Raw)
Discard == \E b \in Buffers : Move(b, Raw, Released)
Alloc == \E b \in Buffers : Move(b, Released, Raw)

\* A run that succeeds hands out what it gathered, all at once.
Deliver ==
  \E S \in SUBSET Buffers :
    /\ \A b \in S : custody[b].k = "running"
    /\ custody' = [b \in Buffers |->
         IF b \in S THEN Out(custody[b].cell) ELSE custody[b]]

\* A bind verb consumes buffers the caller holds.  Each ends in a cell nothing
\* but an armed buffer claims, or is released; the armed buffers it overwrites
\* are released.
Bind ==
  \E S \in (SUBSET Buffers) \ {{}} :
    /\ \A b \in S : WithCaller(b)
    /\ custody' \in [Buffers -> Claims]
    /\ \A b \in S : custody'[b].k \in {"armed", "released"}
    /\ \A b \in Buffers \ S :
         \/ custody'[b] = custody[b]
         \/ /\ custody[b].k = "armed" /\ custody'[b] = Released
            /\ \E c \in S : custody'[c] = custody[b]
    /\ OneClaim(custody')

\* Feeding a slot from a pipe drops the buffers it had.
Feed ==
  \E S \in SUBSET Buffers :
    /\ \A b \in S : custody[b].k = "armed"
    /\ custody' = [b \in Buffers |-> IF b \in S THEN Released ELSE custody[b]]

Next == Lend \/ Return \/ LendOnward \/ Take \/ Discard \/ Alloc \/ Deliver \/ Bind \/ Feed

Spec == Init /\ [][Next]_custody
=============================================================================
