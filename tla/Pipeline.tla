------------------------------ MODULE Pipeline ------------------------------
(***************************************************************************)
(* What the stages of an exercise promise one another: a stage finishes    *)
(* its k-th piece of work only when the stage before it has finished its   *)
(* own k-th.  A program without stages never moves.                        *)
(***************************************************************************)
EXTENDS Naturals

VARIABLE done     \* how often each stage, in order, has finished its work

PipelineInit == \A k \in DOMAIN done : done[k] = 0

Finish(k) ==
  /\ k > 1 => done[k] < done[k - 1]
  /\ done' = [done EXCEPT ![k] = @ + 1]

PipelineNext == \E k \in DOMAIN done : Finish(k)

Spec == PipelineInit /\ [][PipelineNext]_done
=============================================================================
