------------------------------ MODULE Outcomes ------------------------------
(***************************************************************************)
(* Sequential code that may fail at many places.  What such code can do    *)
(* from a state s is the set of its outcomes: the states it may leave      *)
(* behind, with success or failure.                                        *)
(***************************************************************************)
EXTENDS Sequences, SequencesExt

Ok(s) == [ok |-> TRUE, s |-> s]
Err(s) == [ok |-> FALSE, s |-> s]

\* A step that takes s to t, and may instead be refused and leave s alone
Maybe(s, t) == {Ok(t), Err(s)}

\* A then B: B runs where A succeeded (if (a() || b()) return -1)
Then(A, B(_)) == UNION {IF o.ok THEN B(o.s) ELSE {o} : o \in A}

\* A, and where it fails the clean-up U, whose own result is lost (goto fail)
OrElse(A, U(_)) == UNION {IF o.ok THEN {o} ELSE {Err(u.s) : u \in U(o.s)} : o \in A}

\* A, and B instead where A fails
Or(A, B(_)) == UNION {IF o.ok THEN {o} ELSE B(o.s) : o \in A}

\* A, and B whether A succeeded or not; both must succeed (if (a()) ret = -1)
And(A, B(_)) == UNION {{[ok |-> a.ok /\ b.ok, s |-> b.s] : b \in B(a.s)} : a \in A}

\* One step for every element of a sequence, up to the first that fails
ForEach(s, list, Step(_, _)) == FoldLeft(LAMBDA A, x : Then(A, LAMBDA t : Step(t, x)), {Ok(s)}, list)

\* One step for every element of a sequence, whether earlier ones failed or not
ForAll(s, list, Step(_, _)) == FoldLeft(LAMBDA A, x : And(A, LAMBDA t : Step(t, x)), {Ok(s)}, list)
=============================================================================
