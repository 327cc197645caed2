------------------------- MODULE MCSessionScheduler -------------------------
EXTENDS SessionScheduler

(* A model run on a target, a model that is only built, and a program.     *)
Mixed == <<{LOAD, BUILD, COMPILE, RUN, POSTPROCESS},
           {LOAD, BUILD},
           {LOAD, COMPILE, RUN, POSTPROCESS}>>
=============================================================================
