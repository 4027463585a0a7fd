------------------------------ MODULE MCLeaves ------------------------------
(***************************************************************************)
(* Graphs for the model checker: all those a few steps make of two         *)
(* buffers, each from any source.                                          *)
(***************************************************************************)
EXTENDS Leaves, SequencesExt

Inputs == {"cell", "slot", "lent"}
Heads == [upload |-> <<Upload, "ReadWrite">>, table |-> <<Upload, "ReadOnly">>,
          usm |-> <<UsmSlice, "ReadWrite">>, mint |-> <<AllocUninit, "ReadWrite">>]

\* A step: a kind of leaf and the buffers, "x" or "y", it works on.
On(op, bufs) == [op |-> op, bufs |-> bufs]
Steps == <<
  On(FillDeviceUninit, <<"x">>), On(AcquireView, <<"x">>), On(FillUsmUninit, <<"x">>), On(WriteUsmUninit, <<"x">>),
  On(ReadInto, <<"x">>), On(CopyTo2, <<"x", "y">>), On(Download, <<"x">>),
  On(Fill, <<"x">>), On(TransferToDevice, <<"x">>), On(ImageWrite, <<"y">>), On(ImageRead, <<"y">>),
  On(Lift, <<"y">>), On(KernelN, <<"x", "y">>)>>
Fresh == {Steps[i] : i \in 1..4}

\* A graph under construction: its leaves, and where each buffer comes from.
MadeBy(b, of) == IF of[b] \in Inputs THEN <<>>
               ELSE <<[op |-> Heads[of[b]][1], mark |-> Heads[of[b]][2], in |-> <<>>]>>
Start(of) ==
  LET g == MadeBy("x", of) \o MadeBy("y", of) IN
  [leaves |-> g,
   at |-> [b \in {"x", "y"} |->
     IF of[b] \in Inputs THEN [from |-> of[b], of |-> <<0, 0>>]
     ELSE [from |-> "pipe", of |-> <<IF b = "x" THEN 1 ELSE Len(g), 1>>]]]
Add(g, step) ==
  LET k == Len(g.leaves) + 1
      out(b) == {p \in DOMAIN step.op.give :
                  step.op.give[p] \in DOMAIN step.bufs /\ step.bufs[step.op.give[p]] = b}
  IN [leaves |-> Append(g.leaves, [op |-> step.op, mark |-> "ReadWrite",
                                   in |-> [i \in DOMAIN step.bufs |-> g.at[step.bufs[i]]]]),
      at |-> [b \in {"x", "y"} |-> IF out(b) = {} THEN g.at[b]
                ELSE [from |-> "pipe", of |-> <<k, CHOOSE p \in out(b) : TRUE>>]]]
Build(of, steps) == FoldLeft(Add, Start(of), steps).leaves

Uses(step, b) == b \in ToSet(step.bufs)
WritesTo(step, b) == \E i \in step.op.writes \ {Made} : step.bufs[i] = b
\* What the code's types ask: what has been read back is used no more, an
\* uninitialised leaf starts with a buffer of the run, and an upload that kernels
\* only read is not written.
Legal(of, steps) ==
  /\ \A i, j \in DOMAIN steps : i < j /\ HostValue \in ToSet(steps[i].op.give) => ~Uses(steps[j], "x")
  /\ \A i \in DOMAIN steps : steps[i] \in Fresh => of.x = "mint" /\ \A j \in 1..(i - 1) : steps[j] \in Fresh
  /\ \A b \in {"x", "y"} : of[b] = "table" => \A i \in DOMAIN steps : ~WritesTo(steps[i], b)
  /\ \A b \in {"x", "y"} : of[b] \in Inputs => \E i \in DOMAIN steps : Uses(steps[i], b)

Sources == [x : {"upload", "table", "cell", "lent", "mint"}, y : {"slot", "usm"}]
Recipes(n, is) == {r \in Sources \X [1..n -> is] : Legal(r[1], [i \in 1..n |-> Steps[r[2][i]]])}

\* Two steps of any kind; three that end in a transfer.
AllRecipes == Recipes(2, DOMAIN Steps) \cup {r \in Recipes(3, DOMAIN Steps) : r[2][3] \in {5, 7}}
AllGraphs == {Build(r[1], [i \in DOMAIN r[2] |-> Steps[r[2][i]]]) : r \in AllRecipes}

\* These graphs are among those the theorems are about.
ASSUME GraphsAssumption ==
  \A g \in AllGraphs : DrainsAll(g) /\ SeedSafe(g) /\ HomeSafe(g) /\ LentFirst(g) /\ SeedMarks(g)

\* A kernel with one output on a slot.
OneOutput ==
  {<<[op |-> Kernel1, mark |-> "ReadWrite", in |-> <<[from |-> "slot", of |-> <<0, 0>>]>>]>>}
=============================================================================
