---------------------------- MODULE MCPointSync -----------------------------
(* The Point List sync, for model checking.                                *)
EXTENDS PointSync, SequencesExt

CONSTANTS p1, l1

\* The file knows one point.
MCFileList == p1 :> l1

Without(list, S) == Restrict(list, DOMAIN list \ S)

\* applyDiff's loop over the changed entries, one at a time.
ApplyLoop(cur, d, order) ==
    LET change(byID, p) ==
            (p :> d.changed[p]) @@ Without(byID, Holder(cur, p, d.changed[p]))
    IN  FoldLeft(change, d.added @@ Without(cur, d.removed), order)

\* What PointSync says of the loop's result is what the loop computes, whether or not
\* the diff starts from the list it is applied to.
ASSUME LoopAssumption ==
    \A cur, old, new \in Lists : \A renamed \in SUBSET Renames(old, new) :
        LET d == Diff(old, new, renamed)
        IN  \A order \in Orders(DOMAIN d.changed) :
              ApplyDiff(cur, d, order) = ApplyLoop(cur, d, order)
=============================================================================
