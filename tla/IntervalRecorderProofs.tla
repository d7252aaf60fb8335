------------------------ MODULE IntervalRecorderProofs ------------------------
(***************************************************************************)
(* Proofs about the interval recorder and its phaser, for any number of    *)
(* writers and samplers and any width of the epochs.                       *)
(*                                                                         *)
(* The inductive invariant counts: the writers inside a phase are those    *)
(* its start epoch counts and its end epoch does not, and outside the wait *)
(* of a flip nobody is inside the phase that is not current.  A writer     *)
(* that is inside the current phase entered it after the last swap, unless *)
(* a sampler is between its swap and its flip.                             *)
(***************************************************************************)
EXTENDS IntervalRecorder, FiniteSetTheorems, TLAPS

EvenIn == {w \in Writers : wpc[w] # "idle" /\ val[w] >= 0}
OddIn  == {w \in Writers : wpc[w] # "idle" /\ val[w] < 0}

Holding == {"locked", "loaded", "swapped", "cleared", "flipped", "caught up"}

\* The mutex is held by the sampler that is between lock and unlock
MutexInv == \A r \in Samplers : spc[r] \in Holding <=> reader_mutex = r

\* The epochs count the writers inside the current phase
CurrentInv ==
  /\ start_epoch >= 0 => even_end_epoch + Cardinality(EvenIn) = start_epoch
  /\ start_epoch < 0  => odd_end_epoch + Cardinality(OddIn) = start_epoch

\* Outside the wait of a flip, nobody is inside the other phase
OtherInv ==
  (\A r \in Samplers : spc[r] # "flipped") =>
    /\ start_epoch >= 0 => OddIn = {}
    /\ start_epoch < 0  => EvenIn = {}

\* What the locals of a sampler say about the epochs
ClearedInv ==
  \A r \in Samplers : spc[r] = "cleared" =>
    IF start_epoch < 0 THEN next_phase_is_even[r] /\ even_end_epoch = 0
                       ELSE ~next_phase_is_even[r] /\ odd_end_epoch = INT64_MIN

FlippedInv ==
  \A r \in Samplers : spc[r] = "flipped" =>
    IF start_epoch >= 0
    THEN next_phase_is_even[r] /\ odd_end_epoch + Cardinality(OddIn) = start_value_at_flip[r]
                               /\ start_value_at_flip[r] < 0
    ELSE ~next_phase_is_even[r] /\ even_end_epoch + Cardinality(EvenIn) = start_value_at_flip[r]
                                /\ start_value_at_flip[r] >= 0

Current(w) == (start_epoch >= 0 /\ val[w] >= 0) \/ (start_epoch < 0 /\ val[w] < 0)

\* The two histograms, and which one a writer updates
SwapInv ==
  /\ (\A r \in Samplers : spc[r] # "loaded") => active # inactive
  /\ \A r \in Samplers : spc[r] = "loaded" => active = inactive /\ temp[r] # active

TargetInv ==
  (\A r \in Samplers : spc[r] \notin {"swapped", "cleared"}) =>
    \A w \in Writers : wpc[w] = "updating" /\ Current(w) => target[w] = active

EpochInv == CurrentInv /\ OtherInv /\ ClearedInv /\ FlippedInv

IInv == TypeOK /\ MutexInv /\ EpochInv /\ SwapInv /\ TargetInv

-------------------------------------------------------------------------------
\* The writers inside are finitely many
LEMMA InsideFinite ==
  /\ IsFiniteSet(EvenIn) /\ IsFiniteSet(OddIn)
  /\ Cardinality(EvenIn) \in Nat /\ Cardinality(OddIn) \in Nat
  BY ThreadAssumption, FS_Subset, FS_CardinalityType DEF EvenIn, OddIn

\* The bounds of the epochs are integers, and so are the epochs
LEMMA EpochTypes ==
  ASSUME TypeOK
  PROVE  /\ INT64_MAX \in Int /\ INT64_MIN \in Int /\ INT64_MIN < 0 /\ INT64_MAX > 0
         /\ start_epoch \in Int /\ even_end_epoch \in Int /\ odd_end_epoch \in Int
         /\ \A w \in Writers : val[w] \in Int
         /\ \A r \in Samplers : start_value_at_flip[r] \in Int
<1>1. INT64_MAX \in Int /\ INT64_MIN \in Int /\ INT64_MIN < 0 /\ INT64_MAX > 0
  BY EpochAssumption DEF INT64_MIN
<1>2. \A e \in INT64_MIN .. INT64_MAX : e \in Int
  BY <1>1
<1>3. start_epoch \in Int /\ even_end_epoch \in Int /\ odd_end_epoch \in Int
  <2>1. /\ start_epoch \in INT64_MIN .. INT64_MAX
        /\ even_end_epoch \in 0 .. INT64_MAX /\ odd_end_epoch \in INT64_MIN .. -1
    BY DEF TypeOK
  <2> QED BY <2>1, <1>1
<1>4. \A w \in Writers : val[w] \in INT64_MIN .. INT64_MAX
  BY DEF TypeOK
<1>5. \A r \in Samplers : start_value_at_flip[r] \in INT64_MIN .. INT64_MAX
  BY DEF TypeOK
<1> QED BY <1>1, <1>2, <1>3, <1>4, <1>5

\* A writer that enters joins the current phase
LEMMA EnterInside ==
  ASSUME TypeOK, NEW w \in Writers, Enter(w)
  PROVE  /\ start_epoch >= 0 => /\ start_epoch' >= 0
                                /\ OddIn' = OddIn
                                /\ Cardinality(EvenIn') = Cardinality(EvenIn) + 1
         /\ start_epoch < 0  => /\ start_epoch' < 0
                                /\ EvenIn' = EvenIn
                                /\ Cardinality(OddIn') = Cardinality(OddIn) + 1
<1>1. start_epoch' = start_epoch + 1 /\ start_epoch # -1 /\ start_epoch \in Int
  BY EpochTypes DEF Enter, EpochsLeft, WriterEnter
<1>2. /\ wpc[w] = "idle" /\ wpc'[w] = "entered" /\ val'[w] = start_epoch'
      /\ \A v \in Writers \ {w} : wpc'[v] = wpc[v] /\ val'[v] = val[v]
  <2>1. /\ wpc \in [Writers -> {"idle", "entered", "updating"}]
        /\ val \in [Writers -> INT64_MIN .. INT64_MAX]
    BY DEF TypeOK
  <2> QED BY <2>1 DEF Enter
<1>3. CASE start_epoch >= 0
  <2>1. start_epoch' >= 0 BY <1>1, <1>3
  <2>2. OddIn' = OddIn BY <1>1, <1>2, <2>1 DEF OddIn
  <2>3. EvenIn' = EvenIn \union {w} /\ w \notin EvenIn BY <1>2, <2>1 DEF EvenIn
  <2>4. Cardinality(EvenIn') = Cardinality(EvenIn) + 1
    BY <2>3, InsideFinite, FS_AddElement
  <2> QED BY <2>1, <2>2, <2>4, <1>1, <1>3
<1>4. CASE start_epoch < 0
  <2>1. start_epoch' < 0 BY <1>1, <1>4
  <2>2. EvenIn' = EvenIn BY <1>1, <1>2, <2>1 DEF EvenIn
  <2>3. OddIn' = OddIn \union {w} /\ w \notin OddIn BY <1>2, <2>1 DEF OddIn
  <2>4. Cardinality(OddIn') = Cardinality(OddIn) + 1
    BY <2>3, InsideFinite, FS_AddElement
  <2> QED BY <2>1, <2>2, <2>4, <1>1, <1>4
<1> QED BY <1>1, <1>3, <1>4

\* A writer that leaves is counted by the end epoch of the phase it entered
LEMMA ExitInside ==
  ASSUME TypeOK, NEW w \in Writers, Exit(w)
  PROVE  /\ start_epoch' = start_epoch
         /\ OddIn' \subseteq OddIn /\ EvenIn' \subseteq EvenIn
         /\ even_end_epoch' + Cardinality(EvenIn') = even_end_epoch + Cardinality(EvenIn)
         /\ odd_end_epoch' + Cardinality(OddIn') = odd_end_epoch + Cardinality(OddIn)
         /\ Cardinality(EvenIn') \in Nat /\ Cardinality(OddIn') \in Nat
         /\ OddIn = {} => UNCHANGED odd_end_epoch
         /\ EvenIn = {} => UNCHANGED even_end_epoch
<1>1. /\ wpc[w] # "idle" /\ wpc'[w] = "idle" /\ val[w] \in Int
      /\ \A v \in Writers \ {w} : wpc'[v] = wpc[v] /\ val'[v] = val[v]
      /\ start_epoch' = start_epoch
      /\ even_end_epoch \in Int /\ odd_end_epoch \in Int
  <2>1. /\ wpc \in [Writers -> {"idle", "entered", "updating"}]
        /\ val \in [Writers -> INT64_MIN .. INT64_MAX]
    BY DEF TypeOK
  <2>2. /\ wpc[w] = "updating" /\ wpc' = [wpc EXCEPT ![w] = "idle"]
        /\ val' = [val EXCEPT ![w] = 0] /\ start_epoch' = start_epoch
    BY DEF Exit, WriterExit
  <2> QED BY <2>1, <2>2, EpochTypes
<1>2. CASE val[w] >= 0
  <2>1. even_end_epoch' = even_end_epoch + 1 /\ odd_end_epoch' = odd_end_epoch
    BY <1>1, <1>2 DEF Exit, WriterExit
  <2>2. OddIn' = OddIn BY <1>1, <1>2 DEF OddIn
  <2>3. EvenIn' = EvenIn \ {w} /\ w \in EvenIn BY <1>1, <1>2 DEF EvenIn
  <2>4. Cardinality(EvenIn') = Cardinality(EvenIn) - 1
    BY <2>3, InsideFinite, FS_RemoveElement
  <2>5. Cardinality(EvenIn') \in Nat
    BY <2>3, InsideFinite, FS_Subset, FS_CardinalityType, FS_RemoveElement
  <2> QED BY <2>1, <2>2, <2>3, <2>4, <2>5, <1>1, InsideFinite
<1>3. CASE val[w] < 0
  <2>1. odd_end_epoch' = odd_end_epoch + 1 /\ even_end_epoch' = even_end_epoch
    BY <1>1, <1>3 DEF Exit, WriterExit
  <2>2. EvenIn' = EvenIn BY <1>1, <1>3 DEF EvenIn
  <2>3. OddIn' = OddIn \ {w} /\ w \in OddIn BY <1>1, <1>3 DEF OddIn
  <2>4. Cardinality(OddIn') = Cardinality(OddIn) - 1
    BY <2>3, InsideFinite, FS_RemoveElement
  <2>5. Cardinality(OddIn') \in Nat
    BY <2>3, InsideFinite, FS_Subset, FS_CardinalityType, FS_RemoveElement
  <2> QED BY <2>1, <2>2, <2>3, <2>4, <2>5, <1>1, InsideFinite
<1> QED BY <1>1, <1>2, <1>3

\* Nobody else changes who is inside
LEMMA OthersInside ==
  ASSUME UNCHANGED <<wpc, val>>
  PROVE  EvenIn' = EvenIn /\ OddIn' = OddIn
  BY DEF EvenIn, OddIn

-------------------------------------------------------------------------------
\* The mutex keeps the samplers apart
LEMMA Alone ==
  ASSUME MutexInv, NEW r \in Samplers, spc[r] \in Holding
  PROVE  \A q \in Samplers \ {r} : spc[q] \notin Holding
  BY DEF MutexInv

\* A step of a sampler moves its own pc only
LEMMA GotoMoves ==
  ASSUME TypeOK, NEW r \in Samplers, NEW from, NEW to, Goto(r, from, to)
  PROVE  /\ spc[r] = from /\ spc'[r] = to
         /\ \A q \in Samplers \ {r} : spc'[q] = spc[q]
<1>1. /\ spc \in [Samplers -> {"idle", "locked", "loaded", "swapped", "cleared", "flipped",
                              "caught up", "unlocked", "reading"}]
      /\ spc[r] = from /\ spc' = [spc EXCEPT ![r] = to]
  BY DEF TypeOK, Goto
<1> QED BY <1>1

\* The initial state satisfies the invariant
LEMMA InitIInv == Init => IInv
<1> SUFFICES ASSUME Init PROVE IInv
  OBVIOUS
<1>1. /\ INT64_MIN \in Int /\ INT64_MIN < 0 /\ INT64_MAX \in Int /\ INT64_MAX > 0
  BY EpochAssumption DEF INT64_MIN
<1>2. EvenIn = {} /\ OddIn = {} /\ Cardinality(EvenIn) = 0
  <2>1. EvenIn = {} /\ OddIn = {} BY DEF Init, EvenIn, OddIn
  <2> QED BY <2>1, FS_EmptySet
<1>3. TypeOK
  BY <1>1 DEF Init, PhaserInit, TypeOK, Histograms
<1>4. MutexInv
  BY ThreadAssumption DEF Init, MutexInv, Holding
<1>5. EpochInv
  BY <1>2 DEF Init, PhaserInit, EpochInv, CurrentInv, OtherInv, ClearedInv, FlippedInv
<1>6. SwapInv /\ TargetInv
  BY DEF Init, SwapInv, TargetInv
<1> QED BY <1>3, <1>4, <1>5, <1>6 DEF IInv

-------------------------------------------------------------------------------
\* The steps of the writers

LEMMA EnterIInv ==
  ASSUME IInv, NEW w \in Writers, Enter(w)
  PROVE  MutexInv' /\ EpochInv' /\ SwapInv' /\ TargetInv'
<1> USE DEF IInv
<1>1. /\ UNCHANGED recorderVars /\ UNCHANGED samplerVars /\ UNCHANGED target
      /\ even_end_epoch' = even_end_epoch /\ odd_end_epoch' = odd_end_epoch
      /\ start_epoch' = start_epoch + 1
  BY DEF Enter, WriterEnter
<1>2. /\ wpc'[w] = "entered"
      /\ \A v \in Writers \ {w} : wpc'[v] = wpc[v] /\ val'[v] = val[v]
  <2>1. /\ wpc \in [Writers -> {"idle", "entered", "updating"}]
        /\ val \in [Writers -> INT64_MIN .. INT64_MAX]
    BY DEF TypeOK
  <2> QED BY <2>1 DEF Enter
<1>3. MutexInv' BY <1>1 DEF MutexInv, recorderVars, samplerVars
<1>4. CurrentInv'
  BY <1>1, EnterInside, InsideFinite, EpochTypes DEF EpochInv, CurrentInv
<1>5. OtherInv'
  BY <1>1, EnterInside, EpochTypes DEF EpochInv, OtherInv, samplerVars
<1>6. ClearedInv'
  BY <1>1, EnterInside, EpochTypes DEF EpochInv, ClearedInv, samplerVars
<1>7. FlippedInv'
  BY <1>1, EnterInside, EpochTypes DEF EpochInv, FlippedInv, samplerVars
<1>8. SwapInv' BY <1>1 DEF SwapInv, recorderVars, samplerVars
<1>9. TargetInv'
  BY <1>1, <1>2, EnterInside, EpochTypes DEF TargetInv, Current, recorderVars, samplerVars
<1> QED BY <1>3, <1>4, <1>5, <1>6, <1>7, <1>8, <1>9 DEF EpochInv

LEMMA LoadActiveIInv ==
  ASSUME IInv, NEW w \in Writers, LoadActive(w)
  PROVE  MutexInv' /\ EpochInv' /\ SwapInv' /\ TargetInv'
<1> USE DEF IInv
<1>1. /\ UNCHANGED recorderVars /\ UNCHANGED samplerVars /\ UNCHANGED epochVars
      /\ val' = val
  BY DEF LoadActive
<1>2. /\ wpc[w] # "idle" /\ wpc'[w] # "idle" /\ target'[w] = active
      /\ \A v \in Writers \ {w} : wpc'[v] = wpc[v] /\ target'[v] = target[v]
  <2>1. wpc \in [Writers -> {"idle", "entered", "updating"}] /\ target \in [Writers -> Histograms]
    BY DEF TypeOK
  <2> QED BY <2>1 DEF LoadActive
<1>3. EvenIn' = EvenIn /\ OddIn' = OddIn
  BY <1>1, <1>2 DEF EvenIn, OddIn
<1>4. MutexInv' BY <1>1 DEF MutexInv, recorderVars, samplerVars
<1>5. EpochInv'
  BY <1>1, <1>3 DEF EpochInv, CurrentInv, OtherInv, ClearedInv, FlippedInv, samplerVars, epochVars
<1>6. SwapInv' BY <1>1 DEF SwapInv, recorderVars, samplerVars
<1>7. TargetInv'
  BY <1>1, <1>2 DEF TargetInv, Current, recorderVars, samplerVars, epochVars
<1> QED BY <1>4, <1>5, <1>6, <1>7

LEMMA ExitIInv ==
  ASSUME IInv, NEW w \in Writers, Exit(w)
  PROVE  MutexInv' /\ EpochInv' /\ SwapInv' /\ TargetInv'
<1> USE DEF IInv
<1>1. UNCHANGED recorderVars /\ UNCHANGED samplerVars /\ start_epoch' = start_epoch
  BY DEF Exit, WriterExit
<1>2. /\ wpc'[w] = "idle"
      /\ \A v \in Writers \ {w} : /\ wpc'[v] = wpc[v] /\ val'[v] = val[v]
                                  /\ target'[v] = target[v]
  <2>1. /\ wpc \in [Writers -> {"idle", "entered", "updating"}]
        /\ val \in [Writers -> INT64_MIN .. INT64_MAX] /\ target \in [Writers -> Histograms]
    BY DEF TypeOK
  <2> QED BY <2>1 DEF Exit
<1>3. MutexInv' BY <1>1 DEF MutexInv, recorderVars, samplerVars
<1>4. CurrentInv'
  BY <1>1, ExitInside DEF EpochInv, CurrentInv
<1>5. OtherInv'
  BY <1>1, ExitInside DEF EpochInv, OtherInv, samplerVars
<1>6. ClearedInv'
  <2> SUFFICES ASSUME NEW r \in Samplers, spc[r] = "cleared"
               PROVE  IF start_epoch < 0
                      THEN next_phase_is_even[r] /\ even_end_epoch' = 0
                      ELSE ~next_phase_is_even[r] /\ odd_end_epoch' = INT64_MIN
    BY <1>1 DEF ClearedInv, samplerVars
  <2>1. \A q \in Samplers : spc[q] # "flipped"
    BY Alone DEF Holding
  <2>2. (start_epoch < 0 => EvenIn = {}) /\ (start_epoch >= 0 => OddIn = {})
    BY <2>1 DEF EpochInv, OtherInv
  <2> QED BY <2>2, ExitInside, EpochTypes DEF EpochInv, ClearedInv
<1>7. FlippedInv'
  BY <1>1, ExitInside DEF EpochInv, FlippedInv, samplerVars
<1>8. SwapInv' BY <1>1 DEF SwapInv, recorderVars, samplerVars
<1>9. TargetInv'
  BY <1>1, <1>2 DEF TargetInv, Current, recorderVars, samplerVars
<1> QED BY <1>3, <1>4, <1>5, <1>6, <1>7, <1>8, <1>9 DEF EpochInv

-------------------------------------------------------------------------------
\* The steps of the samplers.  Those that leave the epochs and the writers alone
\* keep the epoch invariant as long as they neither enter nor leave a flip.

\* The states in which a sampler is in a flip
Flipping == {"cleared", "flipped"}

LEMMA EpochKept ==
  ASSUME TypeOK, EpochInv, NEW r \in Samplers, NEW from, NEW to, Goto(r, from, to),
         from \notin Flipping, to \notin Flipping,
         UNCHANGED <<epochVars, writerVars, next_phase_is_even, start_value_at_flip>>
  PROVE  EpochInv'
<1>1. /\ spc[r] = from /\ spc'[r] = to /\ \A q \in Samplers \ {r} : spc'[q] = spc[q]
  BY GotoMoves
<1>2. EvenIn' = EvenIn /\ OddIn' = OddIn
  BY OthersInside DEF writerVars
<1>3. \A q \in Samplers : /\ spc'[q] = "cleared" => spc[q] = "cleared"
                          /\ spc'[q] = "flipped" => spc[q] = "flipped"
                          /\ spc[q] = "flipped" => spc'[q] = "flipped"
  BY <1>1 DEF Flipping
<1>4. /\ start_epoch' = start_epoch /\ even_end_epoch' = even_end_epoch
      /\ odd_end_epoch' = odd_end_epoch /\ next_phase_is_even' = next_phase_is_even
      /\ start_value_at_flip' = start_value_at_flip
  BY DEF epochVars
<1>5. CurrentInv' BY <1>2, <1>4 DEF EpochInv, CurrentInv
<1>6. OtherInv' BY <1>2, <1>3, <1>4 DEF EpochInv, OtherInv
<1>7. ClearedInv'
  <2> SUFFICES ASSUME NEW q \in Samplers, spc'[q] = "cleared"
               PROVE  IF start_epoch < 0 THEN next_phase_is_even[q] /\ even_end_epoch = 0
                      ELSE ~next_phase_is_even[q] /\ odd_end_epoch = INT64_MIN
    BY <1>4, Zenon DEF ClearedInv
  <2>1. spc[q] = "cleared" BY <1>3
  <2> QED BY <2>1, Zenon DEF EpochInv, ClearedInv
<1>8. FlippedInv'
  <2> SUFFICES ASSUME NEW q \in Samplers, spc'[q] = "flipped"
               PROVE  IF start_epoch >= 0
                      THEN /\ next_phase_is_even[q] /\ start_value_at_flip[q] < 0
                           /\ odd_end_epoch + Cardinality(OddIn) = start_value_at_flip[q]
                      ELSE /\ ~next_phase_is_even[q] /\ start_value_at_flip[q] >= 0
                           /\ even_end_epoch + Cardinality(EvenIn) = start_value_at_flip[q]
    BY <1>2, <1>4, Zenon DEF FlippedInv
  <2>1. spc[q] = "flipped" BY <1>3
  <2> QED BY <2>1, Zenon DEF EpochInv, FlippedInv
<1> QED BY <1>5, <1>6, <1>7, <1>8 DEF EpochInv

LEMMA MutexKept ==
  ASSUME TypeOK, MutexInv, NEW r \in Samplers, NEW from, NEW to, Goto(r, from, to),
         from \in Holding <=> to \in Holding, UNCHANGED reader_mutex
  PROVE  MutexInv'
<1>1. /\ spc[r] = from /\ spc'[r] = to /\ \A q \in Samplers \ {r} : spc'[q] = spc[q]
  BY GotoMoves
<1> QED BY <1>1 DEF MutexInv, Holding

LEMMA LockIInv ==
  ASSUME IInv, NEW r \in Samplers, Lock(r)
  PROVE  MutexInv' /\ EpochInv' /\ SwapInv' /\ TargetInv'
<1> USE DEF IInv
<1>1. /\ spc[r] = "idle" /\ spc'[r] = "locked"
      /\ \A q \in Samplers \ {r} : spc'[q] = spc[q]
  BY GotoMoves DEF Lock
<1>2. reader_mutex = Nobody /\ reader_mutex' = r
  BY DEF Lock
<1>3. MutexInv'
  BY <1>1, <1>2, ThreadAssumption DEF MutexInv, Holding
<1>4. EpochInv'
  BY EpochKept DEF Lock, Flipping
<1>5. SwapInv' BY <1>1 DEF SwapInv, Lock
<1>6. TargetInv' BY <1>1 DEF TargetInv, Current, Lock, epochVars, writerVars
<1> QED BY <1>3, <1>4, <1>5, <1>6

LEMMA TakeActiveIInv ==
  ASSUME IInv, NEW r \in Samplers, TakeActive(r)
  PROVE  MutexInv' /\ EpochInv' /\ SwapInv' /\ TargetInv'
<1> USE DEF IInv
<1>1. /\ spc[r] = "locked" /\ spc'[r] = "loaded"
      /\ \A q \in Samplers \ {r} : spc'[q] = spc[q]
  BY GotoMoves DEF TakeActive
<1>2. active' = active /\ inactive' = active /\ temp'[r] = inactive
  <2>1. temp \in [Samplers -> Histograms] BY DEF TypeOK
  <2> QED BY <2>1 DEF TakeActive
<1>3. \A q \in Samplers \ {r} : spc[q] \notin Holding
  BY <1>1, Alone DEF Holding
<1>4. MutexInv' BY MutexKept DEF TakeActive, Holding
<1>5. EpochInv'
  BY EpochKept DEF TakeActive, Flipping
<1>6. SwapInv'
  BY <1>1, <1>2, <1>3 DEF SwapInv, Holding
<1>7. TargetInv' BY <1>1 DEF TargetInv, Current, TakeActive, epochVars, writerVars
<1> QED BY <1>4, <1>5, <1>6, <1>7

LEMMA SetActiveIInv ==
  ASSUME IInv, NEW r \in Samplers, SetActive(r)
  PROVE  MutexInv' /\ EpochInv' /\ SwapInv' /\ TargetInv'
<1> USE DEF IInv
<1>1. /\ spc[r] = "loaded" /\ spc'[r] = "swapped"
      /\ \A q \in Samplers \ {r} : spc'[q] = spc[q]
  BY GotoMoves DEF SetActive
<1>2. active' = temp[r] /\ inactive' = inactive
  BY DEF SetActive
<1>3. \A q \in Samplers \ {r} : spc[q] \notin Holding
  BY <1>1, Alone DEF Holding
<1>4. MutexInv' BY MutexKept DEF SetActive, Holding
<1>5. EpochInv'
  BY EpochKept DEF SetActive, Flipping
<1>6. SwapInv'
  BY <1>1, <1>2, <1>3 DEF SwapInv, Holding
<1>7. TargetInv' BY <1>1 DEF TargetInv
<1> QED BY <1>4, <1>5, <1>6, <1>7

LEMMA ClearIInv ==
  ASSUME IInv, NEW r \in Samplers, Clear(r)
  PROVE  MutexInv' /\ EpochInv' /\ SwapInv' /\ TargetInv'
<1> USE DEF IInv
<1>1. /\ spc[r] = "swapped" /\ spc'[r] = "cleared"
      /\ \A q \in Samplers \ {r} : spc'[q] = spc[q]
  BY GotoMoves DEF Clear
<1>2. /\ start_epoch' = start_epoch
      /\ start_epoch < 0 => even_end_epoch' = 0 /\ odd_end_epoch' = odd_end_epoch
      /\ start_epoch >= 0 => odd_end_epoch' = INT64_MIN /\ even_end_epoch' = even_end_epoch
  BY EpochTypes DEF Clear, ClearNextEnd, NextPhaseIsEven
<1>3. /\ start_epoch < 0 => next_phase_is_even'[r] = TRUE
      /\ ~(start_epoch < 0) => next_phase_is_even'[r] = FALSE
  <2>1. next_phase_is_even \in [Samplers -> BOOLEAN] BY DEF TypeOK
  <2>2. next_phase_is_even'[r] = NextPhaseIsEven BY <2>1, Zenon DEF Clear
  <2>3. NextPhaseIsEven = TRUE \/ NextPhaseIsEven = FALSE BY DEF NextPhaseIsEven
  <2>4. /\ start_epoch < 0 => NextPhaseIsEven
        /\ ~(start_epoch < 0) => ~NextPhaseIsEven
    BY Zenon DEF NextPhaseIsEven
  <2> HIDE DEF NextPhaseIsEven
  <2> QED BY <2>2, <2>3, <2>4, Zenon
<1>4. \A q \in Samplers \ {r} : spc[q] \notin Holding
  BY <1>1, Alone DEF Holding
<1>5. EvenIn' = EvenIn /\ OddIn' = OddIn
  BY OthersInside DEF Clear, writerVars
<1>6. MutexInv' BY MutexKept DEF Clear, Holding, recorderVars
<1>7. CurrentInv' BY <1>2, <1>5, EpochTypes DEF EpochInv, CurrentInv
<1>8. OtherInv' BY <1>1, <1>2, <1>5 DEF EpochInv, OtherInv
<1>9. ClearedInv'
  <2>1. \A q \in Samplers : spc'[q] = "cleared" => q = r
    BY <1>1, <1>4 DEF Holding
  <2>2. start_epoch' < 0 => next_phase_is_even'[r] /\ even_end_epoch' = 0
    BY <1>2, <1>3
  <2>3. ~(start_epoch' < 0) => ~next_phase_is_even'[r] /\ odd_end_epoch' = INT64_MIN
    BY <1>2, <1>3, EpochTypes
  <2> QED BY <2>1, <2>2, <2>3 DEF ClearedInv
<1>10. FlippedInv' BY <1>1, <1>4 DEF FlippedInv, Holding
<1>11. SwapInv' BY <1>1 DEF SwapInv, Clear, recorderVars
<1>12. TargetInv' BY <1>1 DEF TargetInv
<1> QED BY <1>6, <1>7, <1>8, <1>9, <1>10, <1>11, <1>12 DEF EpochInv

LEMMA FlipIInv ==
  ASSUME IInv, NEW r \in Samplers, Flip(r)
  PROVE  MutexInv' /\ EpochInv' /\ SwapInv' /\ TargetInv'
<1> USE DEF IInv
<1>1. /\ spc[r] = "cleared" /\ spc'[r] = "flipped"
      /\ \A q \in Samplers \ {r} : spc'[q] = spc[q]
  BY GotoMoves DEF Flip
<1>2. /\ start_epoch < 0 => start_epoch' = 0
      /\ start_epoch >= 0 => start_epoch' = INT64_MIN
      /\ even_end_epoch' = even_end_epoch /\ odd_end_epoch' = odd_end_epoch
      /\ next_phase_is_even' = next_phase_is_even
  BY EpochTypes DEF Flip, StartNextPhase, NextPhaseIsEven
<1>3. start_value_at_flip'[r] = start_epoch
  <2>1. start_value_at_flip \in [Samplers -> INT64_MIN .. INT64_MAX] BY DEF TypeOK
  <2> QED BY <2>1 DEF Flip
<1>4. \A q \in Samplers \ {r} : spc[q] \notin Holding /\ spc'[q] \notin Holding
  BY <1>1, Alone DEF Holding
<1>5. EvenIn' = EvenIn /\ OddIn' = OddIn
  BY OthersInside DEF Flip, writerVars
\* The phase that begins is empty, and its end epoch was cleared
<1>6. /\ start_epoch < 0 => EvenIn = {} /\ next_phase_is_even[r] /\ even_end_epoch = 0
      /\ start_epoch >= 0 => OddIn = {} /\ ~next_phase_is_even[r] /\ odd_end_epoch = INT64_MIN
  <2>1. \A q \in Samplers : spc[q] # "flipped" BY <1>1, <1>4 DEF Holding
  <2>2. (start_epoch < 0 => EvenIn = {}) /\ (start_epoch >= 0 => OddIn = {})
    BY <2>1 DEF EpochInv, OtherInv
  <2>3. IF start_epoch < 0 THEN next_phase_is_even[r] /\ even_end_epoch = 0
                           ELSE ~next_phase_is_even[r] /\ odd_end_epoch = INT64_MIN
    BY <1>1 DEF EpochInv, ClearedInv
  <2> QED BY <2>2, <2>3, EpochTypes
<1>7. Cardinality({}) = 0 BY FS_EmptySet
<1>8. MutexInv' BY MutexKept DEF Flip, Holding, recorderVars
<1>9. CurrentInv'
  BY <1>2, <1>5, <1>6, <1>7, EpochTypes DEF CurrentInv
<1>10. OtherInv' BY <1>1 DEF OtherInv
<1>11. ClearedInv' BY <1>1, <1>4 DEF ClearedInv, Holding
<1>12. FlippedInv'
  <2>1. \A q \in Samplers : spc'[q] = "flipped" => q = r
    BY <1>4 DEF Holding
  <2>2. CASE start_epoch < 0
    <3>1. start_epoch' >= 0 /\ odd_end_epoch' + Cardinality(OddIn') = start_epoch
      BY <1>2, <1>5, <2>2 DEF EpochInv, CurrentInv
    <3> QED BY <2>1, <2>2, <3>1, <1>2, <1>3, <1>6 DEF FlippedInv
  <2>3. CASE start_epoch >= 0
    <3>1. ~(start_epoch' >= 0) /\ even_end_epoch' + Cardinality(EvenIn') = start_epoch
      BY <1>2, <1>5, <2>3, EpochTypes DEF EpochInv, CurrentInv
    <3> QED BY <2>1, <2>3, <3>1, <1>2, <1>3, <1>6 DEF FlippedInv
  <2> QED BY <2>2, <2>3, EpochTypes
<1>13. SwapInv' BY <1>1 DEF SwapInv, Flip, recorderVars
<1>14. TargetInv'
  <2>1. /\ start_epoch < 0 => start_epoch' >= 0 /\ \A w \in Writers : wpc[w] = "updating" => ~(val[w] >= 0)
        /\ start_epoch >= 0 => start_epoch' < 0 /\ \A w \in Writers : wpc[w] = "updating" => ~(val[w] < 0)
    BY <1>2, <1>6, EpochTypes DEF EvenIn, OddIn
  <2>2. wpc' = wpc /\ val' = val BY DEF Flip, writerVars
  <2>3. \A w \in Writers : wpc'[w] = "updating" => ~Current(w)'
    BY <2>1, <2>2, EpochTypes, <1>2 DEF Current
  <2> QED BY <2>3 DEF TargetInv
<1> QED BY <1>8, <1>9, <1>10, <1>11, <1>12, <1>13, <1>14 DEF EpochInv

LEMMA WaitIInv ==
  ASSUME IInv, NEW r \in Samplers, Wait(r)
  PROVE  MutexInv' /\ EpochInv' /\ SwapInv' /\ TargetInv'
<1> USE DEF IInv
<1>1. /\ spc[r] = "flipped" /\ spc'[r] = "caught up"
      /\ \A q \in Samplers \ {r} : spc'[q] = spc[q]
  BY GotoMoves DEF Wait
<1>2. /\ start_epoch' = start_epoch
      /\ even_end_epoch' = even_end_epoch /\ odd_end_epoch' = odd_end_epoch
  BY DEF Wait, epochVars
<1>3. \A q \in Samplers \ {r} : spc[q] \notin Holding /\ spc'[q] \notin Holding
  BY <1>1, Alone DEF Holding
<1>4. EvenIn' = EvenIn /\ OddIn' = OddIn
  BY OthersInside DEF Wait, writerVars
\* The counts agree, so the writers of the old phase are gone
<1>5. (start_epoch >= 0 => OddIn = {}) /\ (start_epoch < 0 => EvenIn = {})
  <2>1. CASE start_epoch >= 0
    <3>1. /\ next_phase_is_even[r]
          /\ odd_end_epoch + Cardinality(OddIn) = start_value_at_flip[r]
      BY <1>1, <2>1 DEF EpochInv, FlippedInv
    <3>2. odd_end_epoch = start_value_at_flip[r]
      BY <3>1 DEF Wait, CaughtUp
    <3>3. Cardinality(OddIn) = 0
      BY <3>1, <3>2, EpochTypes, InsideFinite
    <3> QED BY <2>1, <3>3, InsideFinite, FS_EmptySet, EpochTypes
  <2>2. CASE start_epoch < 0
    <3>1. /\ ~next_phase_is_even[r]
          /\ even_end_epoch + Cardinality(EvenIn) = start_value_at_flip[r]
      <4>1. ~(start_epoch >= 0) BY <2>2, EpochTypes
      <4> QED BY <1>1, <4>1 DEF EpochInv, FlippedInv
    <3>2. even_end_epoch = start_value_at_flip[r]
      BY <3>1 DEF Wait, CaughtUp
    <3>3. Cardinality(EvenIn) = 0
      BY <3>1, <3>2, EpochTypes, InsideFinite
    <3> QED BY <2>2, <3>3, InsideFinite, FS_EmptySet, EpochTypes
  <2> QED BY <2>1, <2>2, EpochTypes
<1>6. MutexInv' BY MutexKept DEF Wait, Holding, recorderVars
<1>7. CurrentInv' BY <1>2, <1>4 DEF EpochInv, CurrentInv
<1>8. OtherInv' BY <1>2, <1>4, <1>5 DEF OtherInv
<1>9. ClearedInv' BY <1>1, <1>3 DEF ClearedInv, Holding
<1>10. FlippedInv' BY <1>1, <1>3 DEF FlippedInv, Holding
<1>11. SwapInv' BY <1>1 DEF SwapInv, Wait, recorderVars
<1>12. TargetInv'
  <2>1. \A q \in Samplers : spc[q] \notin {"swapped", "cleared"}
    BY <1>1, <1>3 DEF Holding
  <2> QED BY <2>1, <1>2 DEF TargetInv, Current, Wait, recorderVars, writerVars
<1> QED BY <1>6, <1>7, <1>8, <1>9, <1>10, <1>11, <1>12 DEF EpochInv

LEMMA UnlockIInv ==
  ASSUME IInv, NEW r \in Samplers, Unlock(r)
  PROVE  MutexInv' /\ EpochInv' /\ SwapInv' /\ TargetInv'
<1> USE DEF IInv
<1>1. /\ spc[r] = "caught up" /\ spc'[r] = "unlocked"
      /\ \A q \in Samplers \ {r} : spc'[q] = spc[q]
  BY GotoMoves DEF Unlock
<1>2. reader_mutex' = Nobody
  BY DEF Unlock
<1>3. \A q \in Samplers \ {r} : spc[q] \notin Holding
  BY <1>1, Alone DEF Holding
<1>4. MutexInv' BY <1>1, <1>2, <1>3, ThreadAssumption DEF MutexInv, Holding
<1>5. EpochInv' BY EpochKept DEF Unlock, Flipping
<1>6. SwapInv' BY <1>1 DEF SwapInv, Unlock
<1>7. TargetInv' BY <1>1 DEF TargetInv, Current, Unlock, epochVars, writerVars
<1> QED BY <1>4, <1>5, <1>6, <1>7

LEMMA ReturnIInv ==
  ASSUME IInv, NEW r \in Samplers, Return(r) \/ Finish(r)
  PROVE  MutexInv' /\ EpochInv' /\ SwapInv' /\ TargetInv'
<1> USE DEF IInv
<1>1. PICK from \in {"unlocked", "reading"}, to \in {"reading", "idle"} : Goto(r, from, to)
  BY DEF Return, Finish
<1>2. /\ spc[r] = from /\ spc'[r] = to
      /\ \A q \in Samplers \ {r} : spc'[q] = spc[q]
  BY <1>1, GotoMoves
<1>3. /\ UNCHANGED <<epochVars, recorderVars, writerVars, next_phase_is_even,
                     start_value_at_flip>>
      /\ \A q \in Samplers \ {r} : temp'[q] = temp[q]
  <2>1. temp \in [Samplers -> Histograms] BY DEF TypeOK
  <2> QED BY <2>1 DEF Return, Finish
<1>4. MutexInv' BY <1>1, <1>3, MutexKept DEF Holding, recorderVars
<1>5. EpochInv' BY <1>1, <1>3, EpochKept DEF Flipping
<1>6. SwapInv'
  <2>1. \A q \in Samplers : spc'[q] = "loaded" => spc[q] = "loaded" /\ temp'[q] = temp[q]
    BY <1>2, <1>3
  <2>2. (\A q \in Samplers : spc'[q] # "loaded") => \A q \in Samplers : spc[q] # "loaded"
    BY <1>2
  <2> QED BY <2>1, <2>2, <1>3 DEF SwapInv, recorderVars
<1>7. TargetInv' BY <1>2, <1>3 DEF TargetInv, Current, epochVars, recorderVars, writerVars
<1> QED BY <1>4, <1>5, <1>6, <1>7

-------------------------------------------------------------------------------
\* Every step keeps the invariant, but for the types

LEMMA StepInv == IInv /\ [Next]_vars => MutexInv' /\ EpochInv' /\ SwapInv' /\ TargetInv'
<1> SUFFICES ASSUME IInv, [Next]_vars PROVE MutexInv' /\ EpochInv' /\ SwapInv' /\ TargetInv'
  OBVIOUS
<1>1. CASE UNCHANGED vars
  <2>1. /\ start_epoch' = start_epoch /\ even_end_epoch' = even_end_epoch
        /\ odd_end_epoch' = odd_end_epoch /\ wpc' = wpc /\ val' = val
        /\ next_phase_is_even' = next_phase_is_even /\ spc' = spc
        /\ start_value_at_flip' = start_value_at_flip
    BY <1>1 DEF vars, epochVars, writerVars, samplerVars
  <2>2. EvenIn' = EvenIn /\ OddIn' = OddIn
    BY <2>1 DEF EvenIn, OddIn
  <2>3. EpochInv'
    BY <2>1, <2>2, Zenon DEF IInv, EpochInv, CurrentInv, OtherInv, ClearedInv, FlippedInv
  <2>4. MutexInv' /\ SwapInv' /\ TargetInv'
    BY <1>1, Zenon DEF IInv, MutexInv, SwapInv, TargetInv, Current, vars, epochVars, recorderVars,
                  writerVars, samplerVars
  <2> QED BY <2>3, <2>4
<1>2. ASSUME NEW w \in Writers, Update(w)
      PROVE  MutexInv' /\ EpochInv' /\ SwapInv' /\ TargetInv'
  BY <1>2, EnterIInv, LoadActiveIInv, ExitIInv DEF Update
<1>3. ASSUME NEW r \in Samplers, Lock(r) \/ InSample(r) \/ Finish(r)
      PROVE  MutexInv' /\ EpochInv' /\ SwapInv' /\ TargetInv'
  BY <1>3, LockIInv, TakeActiveIInv, SetActiveIInv, ClearIInv, FlipIInv, WaitIInv,
     UnlockIInv, ReturnIInv DEF InSample
<1> QED BY <1>1, <1>2, <1>3 DEF Next, Spin

\* The epochs stay in the ranges of their phases: an end epoch never counts more
\* writers than entered
LEMMA ExitRange ==
  ASSUME TypeOK, EpochInv, EpochInv', NEW w \in Writers, Exit(w)
  PROVE  even_end_epoch' \in 0 .. INT64_MAX /\ odd_end_epoch' \in INT64_MIN .. -1
<1>1. /\ INT64_MAX \in Int /\ INT64_MIN \in Int /\ INT64_MIN < 0
      /\ start_epoch \in INT64_MIN .. INT64_MAX
      /\ even_end_epoch \in 0 .. INT64_MAX /\ odd_end_epoch \in INT64_MIN .. -1
      /\ \A r \in Samplers : start_value_at_flip[r] \in INT64_MIN .. INT64_MAX
  BY EpochTypes DEF TypeOK
<1>2. /\ start_epoch' = start_epoch /\ UNCHANGED samplerVars
      /\ even_end_epoch' \in {even_end_epoch, even_end_epoch + 1}
      /\ odd_end_epoch' \in {odd_end_epoch, odd_end_epoch + 1}
  BY DEF Exit, WriterExit
<1>3. /\ Cardinality(EvenIn') \in Nat /\ Cardinality(OddIn') \in Nat
      /\ OddIn = {} => UNCHANGED odd_end_epoch
      /\ EvenIn = {} => UNCHANGED even_end_epoch
  BY ExitInside
<1>4. even_end_epoch' <= INT64_MAX
  <2>1. CASE start_epoch >= 0
    BY <2>1, <1>1, <1>2, <1>3 DEF EpochInv, CurrentInv
  <2>2. CASE EvenIn = {}
    BY <2>2, <1>1, <1>3
  <2>3. CASE ~(start_epoch >= 0) /\ EvenIn # {}
    <3>1. PICK r \in Samplers : spc[r] = "flipped"
      BY <2>3, <1>1 DEF EpochInv, OtherInv
    <3>2. even_end_epoch' + Cardinality(EvenIn') = start_value_at_flip[r]
      BY <2>3, <3>1, <1>2 DEF EpochInv, FlippedInv, samplerVars
    <3> QED BY <3>2, <1>1, <1>2, <1>3
  <2> QED BY <2>1, <2>2, <2>3
<1>5. odd_end_epoch' < 0
  <2>1. CASE start_epoch < 0
    BY <2>1, <1>1, <1>2, <1>3 DEF EpochInv, CurrentInv
  <2>2. CASE OddIn = {}
    BY <2>2, <1>1, <1>3
  <2>3. CASE start_epoch >= 0 /\ OddIn # {}
    <3>1. PICK r \in Samplers : spc[r] = "flipped"
      BY <2>3, <1>1 DEF EpochInv, OtherInv
    <3>2. /\ odd_end_epoch' + Cardinality(OddIn') = start_value_at_flip[r]
          /\ start_value_at_flip[r] < 0
      BY <2>3, <3>1, <1>2 DEF EpochInv, FlippedInv, samplerVars
    <3> QED BY <3>2, <1>1, <1>2, <1>3
  <2> QED BY <2>1, <2>2, <2>3, <1>1
<1> QED BY <1>1, <1>2, <1>4, <1>5

\* The types of the writers' and of the samplers' variables
WriterTypes ==
  /\ wpc \in [Writers -> {"idle", "entered", "updating"}]
  /\ val \in [Writers -> INT64_MIN .. INT64_MAX]
  /\ target \in [Writers -> Histograms]

SamplerTypes ==
  /\ spc \in [Samplers -> {"idle", "locked", "loaded", "swapped", "cleared", "flipped",
                           "caught up", "unlocked", "reading"}]
  /\ temp \in [Samplers -> Histograms]
  /\ next_phase_is_even \in [Samplers -> BOOLEAN]
  /\ start_value_at_flip \in [Samplers -> INT64_MIN .. INT64_MAX]
  /\ sample \in [Samplers -> Histograms]

EpochRanges ==
  /\ start_epoch \in INT64_MIN .. INT64_MAX
  /\ even_end_epoch \in 0 .. INT64_MAX /\ odd_end_epoch \in INT64_MIN .. -1

RecorderTypes ==
  /\ active \in Histograms /\ inactive \in Histograms
  /\ reader_mutex \in Samplers \union {Nobody}

LEMMA TypeParts == TypeOK <=> EpochRanges /\ RecorderTypes /\ WriterTypes /\ SamplerTypes
  BY DEF TypeOK, EpochRanges, RecorderTypes, WriterTypes, SamplerTypes

LEMMA WriterStepTypes ==
  ASSUME IInv, EpochInv', NEW w \in Writers, Update(w)
  PROVE  TypeOK'
<1>1. EpochRanges /\ RecorderTypes /\ WriterTypes /\ SamplerTypes
  BY TypeParts DEF IInv
<1>2. UNCHANGED samplerVars /\ UNCHANGED recorderVars
  BY DEF Update, Enter, LoadActive, Exit
<1>3. RecorderTypes' /\ SamplerTypes'
  BY <1>1, <1>2 DEF RecorderTypes, SamplerTypes, recorderVars, samplerVars
<1>4. EpochRanges'
  <2>1. CASE Enter(w)
    <3>1. /\ start_epoch' = start_epoch + 1 /\ start_epoch # INT64_MAX
          /\ even_end_epoch' = even_end_epoch /\ odd_end_epoch' = odd_end_epoch
      BY <2>1 DEF Enter, WriterEnter, EpochsLeft
    <3> QED BY <3>1, <1>1, EpochTypes DEF IInv, EpochRanges
  <2>2. CASE LoadActive(w)
    BY <2>2, <1>1 DEF LoadActive, EpochRanges, epochVars
  <2>3. CASE Exit(w)
    BY <2>3, <1>1, ExitRange DEF IInv, EpochRanges, Exit, WriterExit
  <2> QED BY <2>1, <2>2, <2>3 DEF Update
<1>5. WriterTypes'
  <2>1. 0 \in INT64_MIN .. INT64_MAX /\ "A" \in Histograms
    BY EpochTypes DEF IInv, Histograms
  <2>2. CASE Enter(w)
    BY <2>2, <1>1, <1>4 DEF Enter, WriterTypes, EpochRanges
  <2>3. CASE LoadActive(w)
    BY <2>3, <1>1 DEF LoadActive, WriterTypes, RecorderTypes
  <2>4. CASE Exit(w)
    BY <2>4, <2>1, <1>1 DEF Exit, WriterTypes
  <2> QED BY <2>2, <2>3, <2>4 DEF Update
<1> QED BY <1>3, <1>4, <1>5, TypeParts, PTL

LEMMA SamplerStepTypes ==
  ASSUME TypeOK, NEW r \in Samplers, Lock(r) \/ InSample(r) \/ Finish(r)
  PROVE  TypeOK'
<1>1. EpochRanges /\ RecorderTypes /\ WriterTypes /\ SamplerTypes
  BY TypeParts
<1>2. WriterTypes'
  BY <1>1 DEF WriterTypes, writerVars, Lock, InSample, Finish, TakeActive, SetActive, Clear,
              Flip, Wait, Unlock, Return
<1>3. EpochRanges'
  <2>1. CASE UNCHANGED epochVars
    BY <2>1, <1>1 DEF EpochRanges, epochVars
  <2>2. CASE ClearNextEnd
    <3>1. /\ start_epoch' = start_epoch
          /\ even_end_epoch' \in {even_end_epoch, 0}
          /\ odd_end_epoch' \in {odd_end_epoch, INT64_MIN}
      BY <2>2 DEF ClearNextEnd
    <3> QED BY <3>1, <1>1, EpochTypes DEF EpochRanges
  <2>3. CASE StartNextPhase
    <3>1. /\ start_epoch' \in {0, INT64_MIN}
          /\ even_end_epoch' = even_end_epoch /\ odd_end_epoch' = odd_end_epoch
      BY <2>3 DEF StartNextPhase
    <3> QED BY <3>1, <1>1, EpochTypes DEF EpochRanges
  <2> QED BY <2>1, <2>2, <2>3 DEF Lock, InSample, Finish, TakeActive, SetActive, Clear,
                                  Flip, Wait, Unlock, Return
<1>4. RecorderTypes'
  BY <1>1 DEF RecorderTypes, SamplerTypes, recorderVars, Lock, InSample, Finish, TakeActive,
              SetActive, Clear, Flip, Wait, Unlock, Return
<1>5. SamplerTypes'
  <2>1. /\ start_epoch \in INT64_MIN .. INT64_MAX /\ NextPhaseIsEven \in BOOLEAN
        /\ 0 \in INT64_MIN .. INT64_MAX /\ "A" \in Histograms
    BY <1>1, EpochTypes DEF EpochRanges, NextPhaseIsEven, Histograms
  <2>2. spc' \in [Samplers -> {"idle", "locked", "loaded", "swapped", "cleared", "flipped",
                              "caught up", "unlocked", "reading"}]
    BY <1>1 DEF SamplerTypes, Goto, Lock, InSample, Finish, TakeActive, SetActive, Clear, Flip,
                Wait, Unlock, Return
  <2>3. temp' \in [Samplers -> Histograms] /\ sample' \in [Samplers -> Histograms]
    BY <1>1, <2>1 DEF SamplerTypes, RecorderTypes, recorderVars, Lock, InSample, Finish, TakeActive,
                SetActive, Clear, Flip, Wait, Unlock, Return
  <2>4. next_phase_is_even' \in [Samplers -> BOOLEAN]
    BY <1>1, <2>1 DEF SamplerTypes, Lock, InSample, Finish, TakeActive, SetActive, Clear, Flip,
                Wait, Unlock, Return
  <2>5. start_value_at_flip' \in [Samplers -> INT64_MIN .. INT64_MAX]
    BY <1>1, <2>1 DEF SamplerTypes, Lock, InSample, Finish, TakeActive, SetActive, Clear, Flip,
                Wait, Unlock, Return
  <2> QED BY <2>2, <2>3, <2>4, <2>5 DEF SamplerTypes
<1> QED BY <1>2, <1>3, <1>4, <1>5, TypeParts, PTL

-------------------------------------------------------------------------------
\* The inductive invariant holds
THEOREM RecorderInvariant == Spec => []IInv
<1>1. Init => IInv
  BY InitIInv
<1>2. IInv /\ [Next]_vars => IInv'
  <2> SUFFICES ASSUME IInv, [Next]_vars PROVE IInv'
    OBVIOUS
  <2>1. MutexInv' /\ EpochInv' /\ SwapInv' /\ TargetInv'
    BY StepInv
  <2>2. TypeOK'
    <3>1. CASE UNCHANGED vars
      <4>1. EpochRanges /\ RecorderTypes /\ WriterTypes /\ SamplerTypes
        BY TypeParts DEF IInv
      <4>2. EpochRanges' /\ RecorderTypes' /\ WriterTypes' /\ SamplerTypes'
        BY <3>1, <4>1 DEF EpochRanges, RecorderTypes, WriterTypes, SamplerTypes, vars,
                          epochVars, recorderVars, writerVars, samplerVars
      <4> QED BY <4>2, TypeParts, PTL
    <3>2. CASE \E w \in Writers : Update(w)
      BY <3>2, <2>1, WriterStepTypes
    <3>3. CASE \E r \in Samplers : Lock(r) \/ InSample(r) \/ Finish(r)
      BY <3>3, SamplerStepTypes DEF IInv
    <3> QED BY <3>1, <3>2, <3>3 DEF Next, Spin
  <2> QED BY <2>1, <2>2 DEF IInv
<1> QED BY <1>1, <1>2, PTL DEF Spec

\* Type correctness: the end epoch of a phase never leaves the range of the phase.
THEOREM RecorderTypeOK == Spec => []TypeOK
  BY RecorderInvariant, PTL DEF IInv

\* When no sampler is between its swap and the end of its wait, every update under
\* way is to the active histogram
LEMMA Undisturbed ==
  ASSUME IInv, NEW w \in Writers, wpc[w] = "updating",
         \A q \in Samplers : spc[q] \notin {"loaded", "swapped", "cleared", "flipped"}
  PROVE  target[w] # inactive
<1>1. active # inactive
  BY DEF IInv, SwapInv
<1>2. Current(w)
  <2>1. (start_epoch >= 0 => OddIn = {}) /\ (start_epoch < 0 => EvenIn = {})
    BY DEF IInv, EpochInv, OtherInv
  <2> QED BY <2>1, EpochTypes DEF IInv, OddIn, EvenIn, Current
<1> QED BY <1>1, <1>2 DEF IInv, TargetInv

\* What flip_phase promises, for any number of writers and samplers.
THEOREM FlipIsExclusive == Spec => []FlipExclusive
<1>1. IInv => FlipExclusive
  <2> SUFFICES ASSUME IInv, NEW r \in Samplers, NEW w \in Writers,
                      spc[r] = "caught up", wpc[w] = "updating"
               PROVE  target[w] # inactive
    BY DEF FlipExclusive
  <2>1. \A q \in Samplers : spc[q] \notin {"loaded", "swapped", "cleared", "flipped"}
    BY Alone DEF IInv, Holding
  <2> QED BY <2>1, Undisturbed
<1> QED BY <1>1, RecorderInvariant, PTL

\* A sampler reads its sample undisturbed, unless another one overtakes it.
THEOREM SampleIsQuiescent == Spec => []SampleQuiescent
<1>1. IInv => SampleQuiescent
  <2> SUFFICES ASSUME IInv, NEW r \in Samplers, NEW w \in Writers,
                      NotOvertaken(r), wpc[w] = "updating"
               PROVE  target[w] # inactive
    BY DEF SampleQuiescent, NotOvertaken
  <2>1. \A q \in Samplers : spc[q] \notin Holding
    BY ThreadAssumption DEF IInv, MutexInv, NotOvertaken
  <2>2. \A q \in Samplers : spc[q] \notin {"loaded", "swapped", "cleared", "flipped"}
    BY <2>1 DEF Holding
  <2> QED BY <2>2, Undisturbed
<1> QED BY <1>1, RecorderInvariant, PTL

\* A single sampler is never overtaken: what it reads stays its own.
THEOREM LoneSamplerKeepsSample ==
  ASSUME NEW s, Samplers = {s}
  PROVE  Spec => [](spc[s] = "reading" => NotOvertaken(s))
<1> DEFINE Held == spc[s] = "reading" => sample[s] = inactive
<1>1. Init => Held
  BY DEF Init
<1>2. IInv /\ Held /\ [Next]_vars => Held'
  <2> SUFFICES ASSUME IInv, Held, [Next]_vars PROVE Held'
    OBVIOUS
  <2>1. SamplerTypes BY TypeParts DEF IInv
  <2>2. CASE UNCHANGED vars
    BY <2>2 DEF vars, recorderVars, samplerVars
  <2>3. ASSUME NEW w \in Writers, Update(w) PROVE Held'
    BY <2>3 DEF Update, Enter, LoadActive, Exit, recorderVars, samplerVars
  <2>4. ASSUME NEW r \in Samplers, Lock(r) \/ InSample(r) \/ Finish(r) PROVE Held'
    BY <2>4, <2>1 DEF SamplerTypes, Goto, Lock, InSample, Finish, TakeActive, SetActive, Clear,
                      Flip, Wait, Unlock, Return, recorderVars
  <2> QED BY <2>2, <2>3, <2>4 DEF Next, Spin
<1>3. IInv /\ Held => (spc[s] = "reading" => NotOvertaken(s))
  <2> SUFFICES ASSUME IInv, Held, spc[s] = "reading" PROVE NotOvertaken(s)
    OBVIOUS
  <2>1. reader_mutex # s
    BY DEF IInv, MutexInv, Holding
  <2>2. reader_mutex \in Samplers \union {Nobody}
    BY DEF IInv, TypeOK
  <2> QED BY <2>1, <2>2 DEF NotOvertaken
<1> QED BY <1>1, <1>2, <1>3, RecorderInvariant, PTL DEF Spec
==============================================================================
