---------------------------- MODULE MCAdmission ----------------------------
(* Admission for TLC.                                                        *)
EXTENDS Admission

\* The locals of a call that has ended are not read any more.
View ==
    <<channels, blacklist, window, aged, pc, IF pc = "idle" THEN <<>> ELSE call,
      allocated, held, servedSince, served>>
=============================================================================
