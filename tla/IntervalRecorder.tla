--------------------------- MODULE IntervalRecorder ---------------------------
(***************************************************************************)
(* The interval recorder of src/hdr_interval_recorder.c: writers update    *)
(* the active one of two histograms, a sampler swaps the two under the     *)
(* mutex of the phaser and gets the other one, to read it undisturbed.     *)
(* One step per access to shared memory; all of them are sequentially      *)
(* consistent (src/hdr_atomic.h:50-55) or under the mutex.  The locals of  *)
(* a function go back to their initial values when it returns.             *)
(***************************************************************************)
EXTENDS Phaser, FiniteSets

CONSTANTS Writers, Samplers,   \* the threads
          Nobody               \* holds the mutex when it is free

ASSUME ThreadAssumption ==
  /\ IsFiniteSet(Writers)
  /\ Nobody \notin Samplers

Histograms == {"A", "B"}

VARIABLES
  active, inactive,     \* struct hdr_interval_recorder
  reader_mutex,         \* who holds it
  wpc, val, target,     \* hdr_interval_recorder_update: pc, its epoch, the histogram it updates
  spc, temp,            \* hdr_interval_recorder_sample: pc and locals
  next_phase_is_even, start_value_at_flip,
  sample                \* what sample returned

recorderVars == <<active, inactive, reader_mutex>>
writerVars   == <<wpc, val, target>>
samplerVars  == <<spc, temp, next_phase_is_even, start_value_at_flip, sample>>
vars         == <<epochVars, recorderVars, writerVars, samplerVars>>

TypeOK ==
  /\ start_epoch \in INT64_MIN .. INT64_MAX
  /\ even_end_epoch \in 0 .. INT64_MAX /\ odd_end_epoch \in INT64_MIN .. -1
  /\ active \in Histograms /\ inactive \in Histograms
  /\ reader_mutex \in Samplers \union {Nobody}
  /\ wpc \in [Writers -> {"idle", "entered", "updating"}]
  /\ val \in [Writers -> INT64_MIN .. INT64_MAX]
  /\ target \in [Writers -> Histograms]
  /\ spc \in [Samplers -> {"idle", "locked", "loaded", "swapped", "cleared", "flipped",
                           "caught up", "unlocked", "reading"}]
  /\ temp \in [Samplers -> Histograms]
  /\ next_phase_is_even \in [Samplers -> BOOLEAN]
  /\ start_value_at_flip \in [Samplers -> INT64_MIN .. INT64_MAX]
  /\ sample \in [Samplers -> Histograms]

Init ==
  /\ PhaserInit
  /\ active = "A" /\ inactive = "B" /\ reader_mutex = Nobody
  /\ wpc = [w \in Writers |-> "idle"]
  /\ val = [w \in Writers |-> 0]
  /\ target = [w \in Writers |-> "A"]
  /\ spc = [r \in Samplers |-> "idle"]
  /\ temp = [r \in Samplers |-> "A"]
  /\ next_phase_is_even = [r \in Samplers |-> FALSE]
  /\ start_value_at_flip = [r \in Samplers |-> 0]
  /\ sample = [r \in Samplers |-> "A"]

(***************************************************************************)
(* hdr_interval_recorder_update                                            *)
(***************************************************************************)

Enter(w) ==
  /\ wpc[w] = "idle" /\ EpochsLeft
  /\ WriterEnter
  /\ val' = [val EXCEPT ![w] = start_epoch']
  /\ wpc' = [wpc EXCEPT ![w] = "entered"]
  /\ UNCHANGED <<recorderVars, target, samplerVars>>

\* update_action runs on the histogram loaded here until the writer leaves
LoadActive(w) ==
  /\ wpc[w] = "entered"
  /\ target' = [target EXCEPT ![w] = active]
  /\ wpc' = [wpc EXCEPT ![w] = "updating"]
  /\ UNCHANGED <<epochVars, recorderVars, val, samplerVars>>

Exit(w) ==
  /\ wpc[w] = "updating"
  /\ WriterExit(val[w])
  /\ wpc' = [wpc EXCEPT ![w] = "idle"]
  /\ val' = [val EXCEPT ![w] = 0] /\ target' = [target EXCEPT ![w] = "A"]
  /\ UNCHANGED <<recorderVars, samplerVars>>

Update(w) == Enter(w) \/ LoadActive(w) \/ Exit(w)

(***************************************************************************)
(* hdr_interval_recorder_sample                                            *)
(***************************************************************************)

Goto(r, from, to) == spc[r] = from /\ spc' = [spc EXCEPT ![r] = to]

\* Mutant of Lock: the sampler does not wait for the mutex
LockAnyway(r) ==
  /\ Goto(r, "idle", "locked")
  /\ reader_mutex' = r
  /\ UNCHANGED <<epochVars, active, inactive, writerVars, temp, next_phase_is_even,
                 start_value_at_flip, sample>>

Lock(r) ==
  /\ Goto(r, "idle", "locked")
  /\ reader_mutex = Nobody /\ reader_mutex' = r
  /\ UNCHANGED <<epochVars, active, inactive, writerVars, temp, next_phase_is_even,
                 start_value_at_flip, sample>>

TakeActive(r) ==
  /\ Goto(r, "locked", "loaded")
  /\ temp' = [temp EXCEPT ![r] = inactive]
  /\ inactive' = active
  /\ UNCHANGED <<epochVars, active, reader_mutex, writerVars, next_phase_is_even,
                 start_value_at_flip, sample>>

\* Mutant of SetActive: the old histogram stays active
SetActiveNot(r) ==
  /\ Goto(r, "loaded", "swapped")
  /\ UNCHANGED <<epochVars, recorderVars, writerVars, temp, next_phase_is_even,
                 start_value_at_flip, sample>>

SetActive(r) ==
  /\ Goto(r, "loaded", "swapped")
  /\ active' = temp[r]
  /\ UNCHANGED <<epochVars, inactive, reader_mutex, writerVars, temp, next_phase_is_even,
                 start_value_at_flip, sample>>

Clear(r) ==
  /\ Goto(r, "swapped", "cleared")
  /\ next_phase_is_even' = [next_phase_is_even EXCEPT ![r] = NextPhaseIsEven]
  /\ ClearNextEnd
  /\ UNCHANGED <<recorderVars, writerVars, temp, start_value_at_flip, sample>>

Flip(r) ==
  /\ Goto(r, "cleared", "flipped")
  /\ start_value_at_flip' = [start_value_at_flip EXCEPT ![r] = start_epoch]
  /\ StartNextPhase
  /\ UNCHANGED <<recorderVars, writerVars, temp, next_phase_is_even, sample>>

\* The loop yields and tries again
Spin(r) ==
  /\ spc[r] = "flipped" /\ ~CaughtUp(next_phase_is_even[r], start_value_at_flip[r])
  /\ UNCHANGED vars

Wait(r) ==
  /\ Goto(r, "flipped", "caught up")
  /\ CaughtUp(next_phase_is_even[r], start_value_at_flip[r])
  /\ next_phase_is_even' = [next_phase_is_even EXCEPT ![r] = FALSE]
  /\ start_value_at_flip' = [start_value_at_flip EXCEPT ![r] = 0]
  /\ UNCHANGED <<epochVars, recorderVars, writerVars, temp, sample>>

Unlock(r) ==
  /\ Goto(r, "caught up", "unlocked")
  /\ reader_mutex' = Nobody
  /\ UNCHANGED <<epochVars, active, inactive, writerVars, temp, next_phase_is_even,
                 start_value_at_flip, sample>>

\* return r->inactive, after the mutex is given back
Return(r) ==
  /\ Goto(r, "unlocked", "reading")
  /\ sample' = [sample EXCEPT ![r] = inactive]
  /\ temp' = [temp EXCEPT ![r] = "A"]
  /\ UNCHANGED <<epochVars, recorderVars, writerVars, next_phase_is_even,
                 start_value_at_flip>>

\* The caller has read the sample, and may take another
Finish(r) ==
  /\ Goto(r, "reading", "idle")
  /\ sample' = [sample EXCEPT ![r] = "A"]
  /\ UNCHANGED <<epochVars, recorderVars, writerVars, temp, next_phase_is_even,
                 start_value_at_flip>>

InSample(r) == TakeActive(r) \/ SetActive(r) \/ Clear(r) \/ Flip(r) \/ Wait(r) \/ Unlock(r)
               \/ Return(r)

Next == \/ \E w \in Writers : Update(w)
        \/ \E r \in Samplers : Lock(r) \/ InSample(r) \/ Spin(r) \/ Finish(r)

Spec == Init /\ [][Next]_vars

\* Threads that are in an update or a sample run on; nobody has to start one
FairSpec == /\ Spec
            /\ \A w \in Writers : WF_vars(LoadActive(w) \/ Exit(w))
            /\ \A r \in Samplers : WF_vars(InSample(r))

(***************************************************************************)
(* Properties                                                              *)
(***************************************************************************)

\* What flip_phase is for: when the waiting loop ends, no writer is still updating
\* the histogram that was active before the swap, although other samplers compete for
\* the mutex and writers overtake each other (hdr_writer_reader_phaser.c:72-135).
FlipExclusive ==
  \A r \in Samplers, w \in Writers :
    spc[r] = "caught up" /\ wpc[w] = "updating" => target[w] # inactive

\* The return reads r->inactive after the unlock (hdr_interval_recorder.c:50-52): the
\* sample of r is undisturbed unless another sampler is in its swap, or has swapped since
NotOvertaken(r) == reader_mutex = Nobody /\ inactive = sample[r]

\* Nobody updates the histogram a sampler reads, unless another sampler overtakes it
\* (hdr_interval_recorder.c:33-53): then it may be the active one.
SampleQuiescent ==
  \A r \in Samplers, w \in Writers :
    spc[r] = "reading" /\ NotOvertaken(r) /\ wpc[w] = "updating" => target[w] # sample[r]

\* The waiting loop ends although writers keep coming: they count in the new phase
FlipTerminates == \A r \in Samplers : spc[r] = "flipped" ~> spc[r] = "reading"
==============================================================================
