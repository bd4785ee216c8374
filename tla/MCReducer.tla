----------------------------- MODULE MCReducer ------------------------------
(***************************************************************************)
(* Small instances of Reducer: four parameters in three buckets.           *)
(***************************************************************************)
EXTENDS Reducer

MCParams == 0 .. 3
MCBuckets == << <<3, 2>>, <<1>>, <<0>> >>

\* as hash tables do: the order depends on the set
MCSetOrder == [S \in SUBSET MCParams |-> [p \in MCParams |-> IF 2 \in S THEN p ELSE 3 - p]]

\* an iteration with a tensor for each arrival, after zero_grad
Iter(u, s) == [uses |-> u, tensors |-> [k \in DOMAIN u |-> [name |-> k, from |-> 0]],
               sync |-> s, zero |-> TRUE]
Accumulating(i) == [i EXCEPT !.zero = FALSE]

\* the orders of up to three arrivals, none repeated
Orders == UNION {{u \in [1 .. n -> 0 .. 2] : \A k, l \in 1 .. n : u[k] = u[l] => k = l}
                   : n \in 1 .. 3}

Same(plan) == [r \in Ranks |-> plan]

\* the same on all ranks, synchronized after no_sync or twice
MCAlike == {Same(<<Iter(<<2, 3>>, s), Iter(u, TRUE)>>) :
              u \in {<<3, 2, 1, 0>>, <<1, 2, 3>>, <<0>>, <<3, 2>>}, s \in BOOLEAN}

\* rank 0 in another order than the others
MCApart == {[r \in Ranks |-> <<Iter(<<3>> \o (IF r = 0 THEN <<2, 1, 0>> ELSE u), TRUE)>>] :
              u \in {v \in Orders : Len(v) > 1}}

\* rank 0 has another set of unused parameters, which it may iterate over in another order
MCFewer == {[r \in Ranks |-> LET i == Iter(IF r = 0 THEN <<3, 2>> ELSE <<3>>, TRUE) IN <<i, i>>]}

\* a parameter used twice, and no_sync after a synchronized iteration
MCTwice == {Same(<<Iter(<<2, 2, 3, 1, 0>>, TRUE)>>),
            Same(<<Iter(<<0, 1, 0, 2, 3>>, TRUE), Accumulating(Iter(<<2, 0>>, FALSE))>>)}

\* tensors that parameters share, in one bucket, and over two with a third computed from it;
\* and a synchronized iteration that accumulates on one under no_sync
Sharing(u, names, from) ==
  [Iter(u, TRUE) EXCEPT !.tensors = [k \in DOMAIN u |-> [name |-> names[k], from |-> from[k]]]]
MCShared == {Same(<<Sharing(<<3, 2, 1, 0>>, <<1, 1, 2, 3>>, <<0, 0, 0, 0>>)>>),
             Same(<<Sharing(<<2, 1, 3, 0>>, <<1, 1, 2, 3>>, <<0, 0, 0, 1>>)>>),
             Same(<<Iter(<<2, 3>>, FALSE), Accumulating(Iter(<<3, 2, 1, 0>>, TRUE))>>)}

MCPrograms == MCAlike \cup MCApart \cup MCFewer \cup MCTwice \cup MCShared
MCConfigs == {c \in [find_unused : BOOLEAN, static : BOOLEAN, buffers : BOOLEAN] :
                ~(c.static /\ c.find_unused)}

=============================================================================
