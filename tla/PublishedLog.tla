---------------------------- MODULE PublishedLog ----------------------------
(***************************************************************************)
(* What the indexer promises to those who read it: the log they can prove  *)
(* operations of is a prefix of the finalized chain, it only grows, and    *)
(* every finalized block gets into it.                                     *)
(***************************************************************************)
EXTENDS Naturals, Sequences

CONSTANT Last   \* bound on heights

VARIABLES finalized, log

vars == <<finalized, log>>

Chain(n) == [h \in 1..n |-> h]

\* What was finalized before this node indexes is in the log.
Init == finalized \in 0..Last /\ log = Chain(finalized)

Finalize == /\ finalized < Last
            /\ finalized' = finalized + 1
            /\ UNCHANGED log

Publish == /\ \E n \in (Len(log) + 1)..finalized : log' = Chain(n)
           /\ UNCHANGED finalized

Next == Finalize \/ Publish

Spec == Init /\ [][Next]_vars

FairSpec == Spec /\ WF_vars(Publish)
=============================================================================
