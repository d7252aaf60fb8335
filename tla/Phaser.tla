-------------------------------- MODULE Phaser --------------------------------
(***************************************************************************)
(* The writer-reader phaser of src/hdr_writer_reader_phaser.c: writers     *)
(* pass through a critical section without ever waiting, a reader flips    *)
(* the phase and waits until the writers of the old phase have left.       *)
(*                                                                         *)
(* The phases take turns.  The epochs of an even phase count up from 0,    *)
(* those of an odd phase from INT64_MIN, so the sign tells the phase.      *)
(* start_epoch counts the writers that entered in the current phase, the   *)
(* end epoch of a phase the writers that left.  The operators are the      *)
(* atomic accesses of the functions, in their order.                       *)
(***************************************************************************)
EXTENDS Integers

CONSTANT INT64_MAX

ASSUME EpochAssumption == INT64_MAX \in Nat \ {0}

INT64_MIN == -INT64_MAX - 1

VARIABLES start_epoch, even_end_epoch, odd_end_epoch

epochVars == <<start_epoch, even_end_epoch, odd_end_epoch>>

\* hdr_writer_reader_phaser_init
PhaserInit == start_epoch = 0 /\ even_end_epoch = 0 /\ odd_end_epoch = INT64_MIN

\* Bound: a phase ends before its epochs run out (2^63 - 1 writers)
EpochsLeft == start_epoch # -1 /\ start_epoch # INT64_MAX

\* hdr_phaser_writer_enter; the caller keeps the new start_epoch'
WriterEnter == start_epoch' = start_epoch + 1 /\ UNCHANGED <<even_end_epoch, odd_end_epoch>>

\* Mutant of WriterExit: the writer leaves the phase of the moment, not its own
WriterExitCurrent(critical_value_at_enter) ==
  /\ IF start_epoch < 0
     THEN odd_end_epoch' = odd_end_epoch + 1 /\ UNCHANGED even_end_epoch
     ELSE even_end_epoch' = even_end_epoch + 1 /\ UNCHANGED odd_end_epoch
  /\ UNCHANGED start_epoch

\* hdr_phaser_writer_exit: leaves the phase it entered
WriterExit(critical_value_at_enter) ==
  /\ IF critical_value_at_enter < 0
     THEN odd_end_epoch' = odd_end_epoch + 1 /\ UNCHANGED even_end_epoch
     ELSE even_end_epoch' = even_end_epoch + 1 /\ UNCHANGED odd_end_epoch
  /\ UNCHANGED start_epoch

\* hdr_phaser_flip_phase, in three parts.  Only the reader that holds the mutex
\* changes the phase, so reading it and clearing the end epoch of the next phase
\* can be one step.
NextPhaseIsEven == start_epoch < 0

\* Mutant of ClearNextEnd: the end epoch keeps the count of its last phase
ClearNextEndNot == UNCHANGED epochVars

ClearNextEnd ==
  /\ IF NextPhaseIsEven THEN even_end_epoch' = 0 /\ UNCHANGED odd_end_epoch
                        ELSE odd_end_epoch' = INT64_MIN /\ UNCHANGED even_end_epoch
  /\ UNCHANGED start_epoch

\* The exchange; the caller keeps the old start_epoch
StartNextPhase ==
  /\ start_epoch' = IF NextPhaseIsEven THEN 0 ELSE INT64_MIN
  /\ UNCHANGED <<even_end_epoch, odd_end_epoch>>

\* The condition of the waiting loop: all writers of the old phase have left
CaughtUp(next_phase_is_even, start_value_at_flip) ==
  (IF next_phase_is_even THEN odd_end_epoch ELSE even_end_epoch) = start_value_at_flip
==============================================================================
