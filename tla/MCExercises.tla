----------------------------- MODULE MCExercises -----------------------------
(* Every exercise, with two turns of each loop.                            *)
EXTENDS Exercises

MCPrograms ==
  {mars_rover, bottler, sfcModel, sfcModel_A, semaphore, xeno_1shot, multitask,
   multitask_a, multitask_b, multitask_c, multitask_d, xeno_3periodics, example1, test}

\* What the theorems about the exercises take for granted of a program.  Of the
\* rover and the scans it is itself proved (RoverHasItsShape, SfcHasItsShape).
ASSUME ExercisesAreDisciplined ==
  \A prog \in MCPrograms :
    /\ Disciplined(prog) /\ Private(prog) /\ Recognised(prog)
    /\ prog # mars_rover => Unnested(prog)
    /\ prog \notin {mars_rover, sfcModel} => Chained(prog)
=============================================================================
