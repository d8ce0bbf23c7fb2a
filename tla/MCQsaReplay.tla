------------------------------ MODULE MCQsaReplay ------------------------------
(* A small instance of QsaReplay: two requests in batches of two entries. *)
EXTENDS QsaReplay

MCLengths == Batches \cup {Unstaged}
=============================================================================
