------------------------- MODULE AudioStreamsProofs -------------------------
(***************************************************************************)
(* Proofs about AudioStreams for every set of output and input streams:    *)
(* the inductive invariant IInv, and from it that the assertion of         *)
(* out_write and out_set_parameters never fires.                           *)
(***************************************************************************)
EXTENDS AudioStreams, TLAPS

-----------------------------------------------------------------------------
(* The inductive invariant.                                                *)

Streams == Outputs \cup Inputs

Labels(t) ==
    IF t \in Outputs THEN {"idle", "inputs", "again", "write", "failed", "force"}
    ELSE IF t \in Inputs THEN {"idle", "inputs", "again", "read", "failed", "closing"}
    ELSE {"idle", "stream", "force"}

(* The types of the variables that the argument is about.                  *)
StreamTypes ==
    /\ DOMAIN pc = Threads /\ \A t \in Threads : pc[t] \in Labels(t)
    /\ job \in [op : InputCalls \cup {"none", "out_set_parameters"},
                stream : Streams \cup {Nobody}]
    /\ lock \in [Locks -> Threads \cup {Nobody}]
    /\ opened \subseteq Inputs
    /\ standby \in [Streams -> BOOLEAN]
    /\ active_input \in Inputs \cup {Nobody}
    /\ forced \in [Threads -> Inputs \cup {Nobody}]
    /\ aborted \in BOOLEAN

(* Who may change the inputs: a thread between its taking of lock_inputs   *)
(* and its release, and that is one thread at a time.                      *)
InputsLocked ==
    \A t \in Threads :
        pc[t] \in {"again", "closing", "stream", "force"} \/ forced[t] # Nobody
            => lock[LockInputs] = t

(* The input that a thread has chosen to reset is still the active one.    *)
ChosenIsActive ==
    \A t \in Threads :
        /\ forced[t] # Nobody => /\ forced[t] = active_input
                                 /\ pc[t] \in {"write", "failed", "force"}
                                 /\ t \notin Inputs
        /\ pc[t] = "force" => forced[t] # Nobody

(* The active input is open and runs.                                      *)
ActiveRuns ==
    active_input # Nobody => active_input \in opened /\ ~standby[active_input]

(* An input that is read from is open; the control thread works on a       *)
(* stream there is, and nobody reads from the input that it closes.        *)
CallsOnOpen ==
    /\ \A i \in Inputs : pc[i] # "idle" => i \in opened
    /\ pc[Control] = "stream" =>
         /\ job.op \in InputCalls => job.stream \in opened
         /\ job.op \notin InputCalls => job.stream \in Outputs
         /\ job.op = "adev_close_input_stream" => pc[job.stream] = "idle"

IInv ==
    /\ StreamTypes /\ InputsLocked /\ ChosenIsActive /\ ActiveRuns /\ CallsOnOpen
    /\ ~aborted

-----------------------------------------------------------------------------
(* Streams, threads and locks are told apart.                              *)
LEMMA Distinct ==
    /\ Primary \in Outputs /\ LowLatency \subseteq Outputs /\ Talking \subseteq Inputs
    /\ Nobody \notin Outputs /\ Nobody \notin Inputs
    /\ Nobody # "control" /\ Nobody # "lock_inputs"
    /\ \A o \in Outputs : o \notin Inputs /\ o # "control" /\ o # "lock_inputs"
    /\ \A i \in Inputs : i \notin Outputs /\ i # "control" /\ i # "lock_inputs"
BY StreamsAssumption DEF Threads, Locks, Control, LockInputs

-----------------------------------------------------------------------------
(* Every step keeps the invariant.                                         *)

USE Distinct DEF Streams, Threads, Locks, Control, LockInputs, Labels, Goto, Take, Released
USE DEF IInv, StreamTypes, InputsLocked, ChosenIsActive, ActiveRuns, CallsOnOpen, streams

(* The thread that writes: it chooses the input in WriteStarts, while it   *)
(* has lock_inputs, which it then keeps.                                   *)
LEMMA WriterKeeps ==
    ASSUME IInv, NEW o \in Outputs,
           \/ out_write(o)
           \/ WriteTakesInputs(o)
           \/ WriteFalseAlarm(o)
           \/ WriteStarts(o)
           \/ WriteCannotStart(o)
           \/ WriteData(o)
           \/ WriteFails(o)
    PROVE  IInv'
<1>1. CASE out_write(o)
    BY <1>1 DEF out_write
<1>2. CASE WriteTakesInputs(o)
    BY <1>2 DEF WriteTakesInputs
<1>3. CASE WriteFalseAlarm(o)
    BY <1>3 DEF WriteFalseAlarm
<1>4. CASE WriteStarts(o)
  <2>1. Resets = Nobody \/ (Resets = active_input /\ active_input \in Inputs)
    BY DEF Resets
  <2>2. lock[LockInputs] = o /\ \A t \in Threads \ {o} : forced[t] = Nobody
    BY <1>4 DEF WriteStarts
  <2>3. StreamTypes'
    BY <1>4, <2>1 DEF WriteStarts
  <2>4. InputsLocked' /\ ChosenIsActive'
    BY <1>4, <2>1, <2>2 DEF WriteStarts
  <2>5. ActiveRuns' /\ CallsOnOpen' /\ ~aborted'
    BY <1>4 DEF WriteStarts
  <2> QED
    BY <2>3, <2>4, <2>5
<1>5. CASE WriteCannotStart(o)
    BY <1>5 DEF WriteCannotStart
<1>6. CASE WriteData(o)
    BY <1>6 DEF WriteData, WriteReturns
<1>7. CASE WriteFails(o)
    BY <1>7 DEF WriteFails, WriteReturns, do_out_standby_l
<1> QED
    BY <1>1, <1>2, <1>3, <1>4, <1>5, <1>6, <1>7

(* The thread that reads: it changes the active input in ReadStarts,       *)
(* ReadCannotStart and ReadCloses, and there no thread has chosen one.     *)
LEMMA ReaderKeeps ==
    ASSUME IInv, NEW i \in Inputs,
           \/ in_read(i)
           \/ ReadTakesInputs(i)
           \/ ReadFalseAlarm(i)
           \/ ReadStarts(i)
           \/ ReadCannotStart(i)
           \/ ReadData(i)
           \/ ReadFails(i)
           \/ ReadCloses(i)
    PROVE  IInv'
<1>0. pc[i] \in {"again", "closing"} => \A t \in Threads : forced[t] = Nobody
    OBVIOUS
<1>1. CASE in_read(i)
    BY <1>1 DEF in_read
<1>2. CASE ReadTakesInputs(i)
    BY <1>2 DEF ReadTakesInputs
<1>3. CASE ReadFalseAlarm(i)
    BY <1>3 DEF ReadFalseAlarm
<1>4. CASE ReadStarts(i)
    BY <1>0, <1>4 DEF ReadStarts
<1>5. CASE ReadCannotStart(i)
    BY <1>0, <1>5 DEF ReadCannotStart
<1>6. CASE ReadData(i)
    BY <1>6 DEF ReadData
<1>7. CASE ReadFails(i)
    BY <1>7 DEF ReadFails
<1>8. CASE ReadCloses(i)
    BY <1>0, <1>8 DEF ReadCloses, do_in_standby_l
<1> QED
    BY <1>1, <1>2, <1>3, <1>4, <1>5, <1>6, <1>7, <1>8

(* The control thread has lock_inputs in every call that changes the       *)
(* inputs; opening one and out_standby change nothing that is chosen.      *)
LEMMA ControlKeeps ==
    ASSUME IInv,
           \/ \E o \in Outputs : out_standby(o)
           \/ \E j \in Jobs : Call(j)
           \/ \E i \in Inputs : adev_open_input_stream(i)
           \/ in_standby
           \/ in_set_parameters
           \/ add_remove_audio_effect
           \/ adev_close_input_stream
           \/ \E differ \in BOOLEAN : out_set_parameters(differ)
    PROVE  IInv'
<1> USE DEF On, Answer, NoJob, InputCalls
<1>0. pc[Control] = "stream" => \A t \in Threads : forced[t] = Nobody
    OBVIOUS
<1>1. CASE \E o \in Outputs : out_standby(o)
    BY <1>1 DEF out_standby, do_out_standby_l
<1>2. CASE \E j \in Jobs : Call(j)
    BY <1>2 DEF Call, Jobs
<1>3. CASE \E i \in Inputs : adev_open_input_stream(i)
    BY <1>3 DEF adev_open_input_stream
<1>4. CASE in_standby
    BY <1>0, <1>4 DEF in_standby, do_in_standby_l
<1>5. CASE in_set_parameters
  <2>1. CASE do_in_standby_l(job.stream)
    BY <1>0, <1>5, <2>1 DEF in_set_parameters, do_in_standby_l
  <2>2. CASE UNCHANGED <<standby, active_input, echo>>
    BY <1>0, <1>5, <2>2 DEF in_set_parameters
  <2> QED
    BY <1>5, <2>1, <2>2 DEF in_set_parameters
<1>6. CASE add_remove_audio_effect
    BY <1>0, <1>6 DEF add_remove_audio_effect, do_in_standby_l
<1>7. CASE adev_close_input_stream
    BY <1>0, <1>7 DEF adev_close_input_stream
<1>8. CASE \E differ \in BOOLEAN : out_set_parameters(differ)
  <2>1. /\ On("out_set_parameters") /\ job.stream \in Outputs
        /\ opened' = opened /\ active_input' = active_input
        /\ \A i \in Inputs : standby'[i] = standby[i]
    BY <1>8 DEF out_set_parameters, do_out_standby_l
  <2>2. standby' \in [Streams -> BOOLEAN]
    <3>1. CASE do_out_standby_l(job.stream)
      BY <3>1 DEF do_out_standby_l
    <3>2. CASE UNCHANGED streams
      BY <3>2
    <3> QED
      BY <1>8, <3>1, <3>2 DEF out_set_parameters
  <2>3. CASE Answer
    BY <1>0, <2>1, <2>2, <2>3
  <2>4. CASE /\ Resets # Nobody
             /\ forced' = [forced EXCEPT ![Control] = Resets]
             /\ Goto(Control, "force")
             /\ job' = NoJob
             /\ UNCHANGED <<lock, aborted>>
    BY <1>0, <2>1, <2>2, <2>4 DEF Resets
  <2> QED
    BY <1>8, <2>3, <2>4 DEF out_set_parameters
<1> QED
    BY <1>1, <1>2, <1>3, <1>4, <1>5, <1>6, <1>7, <1>8

(* The chosen input goes to standby: it is the active one, and after that  *)
(* none is.                                                                *)
LEMMA ForceKeeps ==
    ASSUME IInv, NEW t \in Threads, t \notin Inputs, ForceInput(t)
    PROVE  IInv'
<1>1. forced[t] = active_input /\ active_input \in Inputs /\ ~standby[active_input]
    BY DEF ForceInput
<1>2. \A u \in Threads \ {t} : forced[u] = Nobody
    BY DEF ForceInput
<1>3. active_input' = Nobody /\ ~aborted'
    BY <1>1 DEF ForceInput, do_in_standby_l
<1> QED
    BY <1>1, <1>2, <1>3 DEF ForceInput, do_in_standby_l

HIDE Distinct DEF Streams, Threads, Locks, Control, LockInputs, Labels, Goto, Take, Released
HIDE DEF IInv, StreamTypes, InputsLocked, ChosenIsActive, ActiveRuns, CallsOnOpen, streams

LEMMA Invariance == Spec => []IInv
<1>1. Init => IInv
  <2> SUFFICES ASSUME Init PROVE IInv
    OBVIOUS
  <2>1. StreamTypes
    BY Distinct DEF Init, NoJob, InputCalls, StreamTypes, Streams, Threads, Locks, Labels
  <2>2. InputsLocked /\ ChosenIsActive /\ ActiveRuns /\ CallsOnOpen /\ ~aborted
    BY Distinct DEF Init, InputsLocked, ChosenIsActive, ActiveRuns, CallsOnOpen, Threads, Control
  <2> QED
    BY <2>1, <2>2 DEF IInv
<1>2. IInv /\ [Next]_vars => IInv'
  <2> SUFFICES ASSUME IInv, [Next]_vars PROVE IInv'
    OBVIOUS
  <2>1. CASE \E o \in Outputs : out_write(o) \/ out_standby(o)
    BY <2>1, WriterKeeps, ControlKeeps
  <2>2. CASE \E i \in Inputs : in_read(i) \/ adev_open_input_stream(i)
    BY <2>2, ReaderKeeps, ControlKeeps
  <2>3. CASE \E j \in Jobs : Call(j)
    BY <2>3, ControlKeeps
  <2>4. CASE \E t \in Threads : Continue(t)
    <3> PICK t \in Threads : Continue(t)
      BY <2>4
    <3> QED
      BY WriterKeeps, ReaderKeeps, ControlKeeps, ForceKeeps DEF Continue
  <2>5. CASE UNCHANGED vars
    BY <2>5 DEF vars, IInv, StreamTypes, InputsLocked, ChosenIsActive, ActiveRuns, CallsOnOpen
  <2> QED
    BY <2>1, <2>2, <2>3, <2>4, <2>5 DEF Next
<1> QED
    BY <1>1, <1>2, PTL DEF Spec

-----------------------------------------------------------------------------
(* LOG_ALWAYS_FATAL_IF(in != adev->active_input) at the end of out_write   *)
(* and of out_set_parameters never fires, and the input they reset has not *)
(* been freed, with any number of outputs, inputs and threads on them:     *)
(* between the choice of the input under adev->lock and its reset,         *)
(* lock_inputs is not given back (InputsLocked), and without it no other   *)
(* thread starts, stops or closes an input (ChosenIsActive).               *)
THEOREM NeverAbortsHolds == Spec => []NeverAborts
<1>1. IInv => NeverAborts
    BY DEF IInv, StreamTypes, ChosenIsActive, ActiveRuns, NeverAborts
<1> QED
    BY <1>1, Invariance, PTL

-----------------------------------------------------------------------------
(* The echo reference, with one output and one input that use it: there is *)
(* one adev->echo_reference, made for the primary output, and a second     *)
(* stream that fills or reads it would hold it behind the back of          *)
(* put_echo_reference.                                                     *)

Mic == CHOOSE i \in Inputs : TRUE
OneOfEach == Outputs = {Primary} /\ Inputs = {Mic}

EchoType == [adev : Refs \cup {Nobody}, held : [Streams -> Refs \cup {Nobody}],
             synced : [Outputs -> BOOLEAN], live : SUBSET Refs, twice : BOOLEAN]

(* The references e when the output plays or not: what is live is what is  *)
(* held, the input reads none but the one of the device, and the output    *)
(* fills that one exactly if it has noted the generation; otherwise it     *)
(* holds an older one, which nobody else holds.                            *)
Owned(e) == ~e.twice /\ e.live = {e.adev, e.held[Primary], e.held[Mic]} \ {Nobody}
Sound(e, plays) ==
    /\ e \in EchoType
    /\ Owned(e)
    /\ e.adev # Nobody => Primary \in LowLatency
    /\ e.held[Mic] \in {e.adev, Nobody}
    /\ ~plays => e.held[Primary] = Nobody
    /\ plays /\ e.synced[Primary] => e.held[Primary] = e.adev
    /\ ~e.synced[Primary] /\ e.held[Primary] # Nobody => e.held[Primary] # e.adev

(* An output that writes has its lock, so it is not stopped meanwhile.     *)
WritesUnderLock == \A o \in Outputs : pc[o] = "write" => lock[o] = o /\ ~standby[o]

EchoInv == WritesUnderLock /\ Sound(echo, ~standby[Primary])

LEMMA ReleaseEffect ==
    ASSUME NEW e \in EchoType, NEW r \in e.live
    PROVE  /\ release_echo_reference(e, r) \in EchoType
           /\ release_echo_reference(e, r) = [e EXCEPT !.live = @ \ {r}]
BY DEF release_echo_reference, EchoType

LEMMA PutSound ==
    ASSUME OneOfEach, NEW e, Sound(e, ~standby[Primary]), standby \in [Streams -> BOOLEAN],
           NEW r \in {e.adev, Nobody}
    PROVE  /\ put_echo_reference(e, r) \in EchoType
           /\ put_echo_reference(e, r).held = e.held
           /\ Sound([put_echo_reference(e, r) EXCEPT !.held[Mic] = Nobody], ~standby[Primary])
<1> DEFINE h == [put_echo_reference(e, r) EXCEPT !.held[Mic] = Nobody]
           gone == [e EXCEPT !.adev = Nobody, !.synced = [o \in Outputs |-> FALSE]]
           g == put_echo_reference(e, r)
<1>0. Primary # Mic /\ Primary \in Streams /\ Mic \in Streams /\ Nobody \notin Refs
    BY StreamsAssumption DEF OneOfEach, Streams
<1>1. CASE r = Nobody \/ r # e.adev
    BY <1>0, <1>1 DEF Sound, EchoType, Owned, put_echo_reference, OneOfEach
<1>2. CASE /\ r # Nobody /\ r = e.adev
           /\ Primary \in LowLatency /\ e.synced[Primary] /\ ~standby[Primary]
  <2>1. g = gone
    BY <1>2 DEF put_echo_reference
  <2>2. gone \in EchoType /\ gone.held = e.held
    BY <1>0 DEF Sound, EchoType
  <2>3. /\ h \in EchoType /\ h.adev = Nobody /\ h.held = [e.held EXCEPT ![Mic] = Nobody]
        /\ h.live = e.live /\ h.twice = e.twice /\ ~h.synced[Primary]
    BY <1>0, <2>1, <2>2 DEF Sound, EchoType, OneOfEach
  <2>4. e.held[Primary] = e.adev
    BY <1>2 DEF Sound
  <2>5. h.held[Primary] = e.adev /\ h.held[Mic] = Nobody
    BY <1>0, <2>3, <2>4 DEF Sound, EchoType
  <2>6. Sound(h, ~standby[Primary])
    <3> HIDE DEF h, gone
    <3> QED
      BY <1>0, <1>2, <2>3, <2>5, <2>4 DEF Sound, Owned
  <2> QED
    BY <2>1, <2>2, <2>6
<1>3. CASE /\ r # Nobody /\ r = e.adev
           /\ ~(Primary \in LowLatency /\ e.synced[Primary] /\ ~standby[Primary])
  <2>1. g = release_echo_reference(gone, r)
    BY <1>3 DEF put_echo_reference
  <2>2. /\ gone \in EchoType /\ gone.held = e.held /\ gone.live = e.live
        /\ gone.adev = Nobody /\ gone.twice = e.twice /\ ~gone.synced[Primary]
    BY <1>0 DEF Sound, EchoType, OneOfEach
  <2>3. r \in gone.live
    BY <1>3, <2>2 DEF Sound, Owned
  <2>4. /\ g \in EchoType /\ g.held = e.held /\ g.live = e.live \ {r}
        /\ g.adev = Nobody /\ g.twice = e.twice /\ ~g.synced[Primary]
    <3> HIDE DEF gone
    <3> QED
      BY <2>1, <2>2, <2>3, ReleaseEffect DEF EchoType
  <2>5. /\ h \in EchoType /\ h.adev = Nobody /\ h.held = [e.held EXCEPT ![Mic] = Nobody]
        /\ h.live = e.live \ {r} /\ h.twice = e.twice /\ ~h.synced[Primary]
    <3> HIDE DEF g
    <3> QED
      BY <1>0, <2>4 DEF Sound, EchoType, OneOfEach, g
  <2>6. h.held[Primary] = e.held[Primary] /\ h.held[Mic] = Nobody
    BY <1>0, <2>5 DEF Sound, EchoType
  <2>7. e.held[Primary] # r /\ e.held[Mic] \in {r, Nobody}
    BY <1>3 DEF Sound
  <2>8. Sound(h, ~standby[Primary])
    <3> HIDE DEF h, g, gone
    <3> QED
      BY <1>0, <1>3, <2>5, <2>6, <2>7 DEF Sound, Owned
  <2> QED
    BY <2>4, <2>8
<1> QED
    BY <1>1, <1>2, <1>3

(* start_input_stream with the echo canceller attached.                    *)
LEMMA AttachSound ==
    ASSUME OneOfEach, NEW e, Sound(e, ~standby[Primary]), standby \in [Streams -> BOOLEAN],
           NEW h \in Attach(e, Mic)
    PROVE  Sound(h, ~standby[Primary])
<1>0. Primary # Mic /\ Primary \in Streams /\ Mic \in Streams /\ Nobody \notin Refs
    BY StreamsAssumption DEF OneOfEach, Streams
<1> DEFINE put == put_echo_reference(e, e.adev)
<1>1. CASE h = e
    BY <1>1
<1>2. ASSUME h # e, NEW g \in get_echo_reference(e), e.held[Mic] = Nobody,
             h = [g EXCEPT !.held[Mic] = g.adev]
      PROVE  Sound(h, ~standby[Primary])
  <2>1. /\ put \in EchoType /\ put.held = e.held
        /\ Sound([put EXCEPT !.held[Mic] = Nobody], ~standby[Primary])
    BY PutSound
  <2>2. put = [put EXCEPT !.held[Mic] = Nobody]
    <3>1. put.held = [put.held EXCEPT ![Mic] = Nobody]
      BY <1>0, <1>2, <2>1 DEF EchoType
    <3> HIDE DEF put
    <3> QED
      BY <2>1, <3>1 DEF EchoType
  <2>3. Sound(put, ~standby[Primary]) /\ put.adev = Nobody
    BY <2>1, <2>2 DEF put_echo_reference, release_echo_reference, Sound, EchoType
  <2> HIDE DEF put
  <2>4. CASE g = put
    <3>1. h = put
      BY <1>2, <2>1, <2>2, <2>3, <2>4 DEF EchoType
    <3> QED
      BY <2>3, <3>1
  <2>5. ASSUME Primary \in LowLatency, ~standby[Primary], NEW r \in Refs \ put.live,
               g = [put EXCEPT !.adev = r, !.live = @ \cup {r},
                               !.synced = [o \in Outputs |-> FALSE]]
        PROVE  Sound(h, ~standby[Primary])
    <3>1. /\ g \in EchoType /\ g.adev = r /\ g.live = put.live \cup {r}
          /\ g.held = put.held /\ g.twice = put.twice /\ ~g.synced[Primary]
      BY <1>0, <2>1, <2>5 DEF EchoType, OneOfEach
    <3>2. /\ h \in EchoType /\ h.adev = r /\ h.live = put.live \cup {r}
          /\ h.held = [put.held EXCEPT ![Mic] = r] /\ h.twice = put.twice
          /\ ~h.synced[Primary]
      BY <1>0, <1>2, <3>1 DEF EchoType
    <3>3. h.held[Primary] = put.held[Primary] /\ h.held[Mic] = r /\ put.held[Mic] = Nobody
      BY <1>0, <1>2, <2>1, <3>2 DEF EchoType
    <3>4. put.live = {put.held[Primary]} \ {Nobody} /\ ~put.twice
      BY <2>3, <3>3 DEF Sound, Owned
    <3> QED
      BY <1>0, <2>5, <3>2, <3>3, <3>4 DEF Sound, Owned
  <2> QED
    BY <2>4, <2>5 DEF get_echo_reference, put
<1> QED
    BY <1>1, <1>2 DEF Attach

(* start_output_stream of an output that did not play.                     *)
LEMMA PickUpSound ==
    ASSUME OneOfEach, NEW e, Sound(e, FALSE)
    PROVE  Sound(PickUp(e, Primary), TRUE)
<1>0. Primary # Mic /\ Primary \in Streams /\ Mic \in Streams /\ Nobody \notin Refs
    BY StreamsAssumption DEF OneOfEach, Streams
<1> DEFINE h == PickUp(e, Primary)
<1>1. /\ h \in EchoType /\ h.adev = e.adev /\ h.live = e.live /\ h.twice = e.twice
      /\ h.held = [e.held EXCEPT ![Primary] = e.adev] /\ h.synced[Primary] = TRUE
    BY <1>0 DEF PickUp, Sound, EchoType, OneOfEach
<1>2. h.held[Primary] = e.adev /\ h.held[Mic] = e.held[Mic]
    BY <1>0, <1>1 DEF Sound, EchoType
<1> HIDE DEF h
<1>3. Sound(h, TRUE)
    BY <1>0, <1>1, <1>2 DEF Sound, Owned
<1> QED
    BY <1>3 DEF h

(* A reference that only the output holds any more, given back by it.      *)
LEMMA GiveBackSound ==
    ASSUME OneOfEach, NEW e, Sound(e, TRUE), ~e.synced[Primary],
           e.held[Primary] # Nobody
    PROVE  LET h == release_echo_reference(e, e.held[Primary])
           IN  /\ h \in EchoType /\ h.adev = e.adev /\ h.held = e.held /\ h.twice = e.twice
               /\ h.synced = e.synced
               /\ h.live = {e.adev, e.held[Mic]} \ {Nobody}
<1>0. e.held[Primary] \in e.live /\ e.held[Mic] # e.held[Primary]
    BY DEF Sound, Owned
<1> QED
    BY <1>0, ReleaseEffect DEF Sound, Owned, EchoType

(* out_write, which sees another generation or not.                        *)
LEMMA RefreshSound ==
    ASSUME OneOfEach, NEW e, Sound(e, TRUE)
    PROVE  Sound(Refresh(e, Primary), TRUE)
<1>0. Primary # Mic /\ Primary \in Streams /\ Mic \in Streams /\ Nobody \notin Refs
    BY StreamsAssumption DEF OneOfEach, Streams
<1>1. CASE e.synced[Primary]
    BY <1>1 DEF Refresh
<1>2. CASE ~e.synced[Primary]
  <2> DEFINE g == IF e.held[Primary] = Nobody THEN e
                  ELSE release_echo_reference(e, e.held[Primary])
             h == PickUp(g, Primary)
  <2>1. /\ g \in EchoType /\ g.adev = e.adev /\ g.held = e.held /\ g.twice = e.twice
        /\ g.live = {e.adev, e.held[Mic]} \ {Nobody}
    BY <1>2, GiveBackSound DEF Sound, Owned
  <2>2. /\ h \in EchoType /\ h.adev = e.adev /\ h.live = g.live /\ h.twice = e.twice
        /\ h.held = [e.held EXCEPT ![Primary] = e.adev] /\ h.synced[Primary] = TRUE
    <3> HIDE DEF g
    <3> QED
      BY <1>0, <2>1 DEF PickUp, EchoType, OneOfEach
  <2>3. h.held[Primary] = e.adev /\ h.held[Mic] = e.held[Mic]
    BY <1>0, <2>2 DEF Sound, EchoType
  <2>4. Sound(h, TRUE)
    <3> HIDE DEF h, g
    <3> QED
      BY <1>0, <2>1, <2>2, <2>3 DEF Sound, Owned
  <2> QED
    BY <1>2, <2>4 DEF Refresh
<1> QED
    BY <1>1, <1>2

(* do_out_standby_l.                                                       *)
LEMMA DropSound ==
    ASSUME OneOfEach, NEW e, Sound(e, TRUE)
    PROVE  Sound(Drop(e, Primary), FALSE)
<1>0. Primary # Mic /\ Primary \in Streams /\ Mic \in Streams /\ Nobody \notin Refs
    BY StreamsAssumption DEF OneOfEach, Streams
<1> DEFINE h == Drop(e, Primary)
<1>1. CASE e.held[Primary] = Nobody
    BY <1>1 DEF Drop, Sound
<1>2. CASE e.held[Primary] # Nobody /\ e.synced[Primary]
  <2>1. /\ h \in EchoType /\ h.adev = e.adev /\ h.live = e.live /\ h.twice = e.twice
        /\ h.held = [e.held EXCEPT ![Primary] = Nobody] /\ h.synced = e.synced
    BY <1>0, <1>2 DEF Drop, Sound, EchoType
  <2>2. h.held[Primary] = Nobody /\ h.held[Mic] = e.held[Mic]
    BY <1>0, <2>1 DEF Sound, EchoType
  <2> HIDE DEF h
  <2>3. Sound(h, FALSE)
    BY <1>0, <1>2, <2>1, <2>2 DEF Sound, Owned
  <2> QED
    BY <2>3 DEF h
<1>3. CASE e.held[Primary] # Nobody /\ ~e.synced[Primary]
  <2> DEFINE g == release_echo_reference(e, e.held[Primary])
  <2>1. /\ g \in EchoType /\ g.adev = e.adev /\ g.held = e.held /\ g.twice = e.twice
        /\ g.live = {e.adev, e.held[Mic]} \ {Nobody}
    BY <1>3, GiveBackSound
  <2>2. h = [g EXCEPT !.held[Primary] = Nobody, !.synced[Primary] = TRUE]
    BY <1>3 DEF Drop
  <2> HIDE DEF h, g
  <2>3. /\ h \in EchoType /\ h.adev = e.adev /\ h.live = g.live /\ h.twice = e.twice
        /\ h.held = [e.held EXCEPT ![Primary] = Nobody] /\ h.synced[Primary] = TRUE
    BY <1>0, <2>1, <2>2 DEF EchoType, OneOfEach
  <2>4. h.held[Primary] = Nobody /\ h.held[Mic] = e.held[Mic]
    BY <1>0, <2>3 DEF Sound, EchoType
  <2>5. Sound(h, FALSE)
    BY <1>0, <2>1, <2>3, <2>4 DEF Sound, Owned
  <2> QED
    BY <2>5 DEF h
<1> QED
    BY <1>1, <1>2, <1>3

(* What a step does to the echo reference and to the output.               *)
EchoKept == echo' = echo /\ standby'[Primary] = standby[Primary]
EchoStopsIn == /\ standby'[Primary] = standby[Primary]
               /\ echo' \in {echo, [echo EXCEPT !.held[Mic] = Nobody],
                             [put_echo_reference(echo, echo.held[Mic]) EXCEPT !.held[Mic] = Nobody]}
EchoStartsIn == standby'[Primary] = standby[Primary] /\ echo' \in Attach(echo, Mic)
EchoStarts == standby[Primary] /\ ~standby'[Primary] /\ echo' = PickUp(echo, Primary)
EchoPlays == ~standby[Primary] /\ ~standby'[Primary] /\ echo' = Refresh(echo, Primary)
EchoStops == /\ standby'[Primary]
             /\ echo' = IF standby[Primary] THEN echo ELSE Drop(echo, Primary)
EchoEffect == \/ EchoKept \/ EchoStopsIn \/ EchoStartsIn \/ EchoStarts \/ EchoPlays \/ EchoStops

LEMMA EffectSound ==
    ASSUME OneOfEach, standby \in [Streams -> BOOLEAN], standby' \in [Streams -> BOOLEAN],
           Sound(echo, ~standby[Primary]), EchoEffect
    PROVE  Sound(echo', ~standby'[Primary])
<1>0. Primary \in Streams /\ standby[Primary] \in BOOLEAN /\ standby'[Primary] \in BOOLEAN
    BY StreamsAssumption DEF Streams
<1>1. CASE EchoKept
    BY <1>1 DEF EchoKept
<1>2. CASE EchoStopsIn
  <2>1. echo.held[Mic] \in {echo.adev, Nobody} /\ Nobody \in {echo.adev, Nobody}
    BY DEF Sound
  <2>2. put_echo_reference(echo, Nobody) = echo
    BY DEF put_echo_reference
  <2>3. Sound([echo EXCEPT !.held[Mic] = Nobody], ~standby[Primary])
    BY <2>1, <2>2, PutSound
  <2>4. Sound([put_echo_reference(echo, echo.held[Mic]) EXCEPT !.held[Mic] = Nobody],
              ~standby[Primary])
    BY <2>1, PutSound
  <2> QED
    BY <1>2, <2>3, <2>4 DEF EchoStopsIn
<1>3. CASE EchoStartsIn
  <2>1. Sound(echo', ~standby[Primary])
    BY <1>3, AttachSound DEF EchoStartsIn
  <2> QED
    BY <1>3, <2>1 DEF EchoStartsIn
<1>4. CASE EchoStarts
  <2>1. Sound(echo, FALSE)
    BY <1>4 DEF EchoStarts, Sound
  <2>2. Sound(echo', TRUE)
    BY <1>4, <2>1, PickUpSound DEF EchoStarts
  <2> QED
    BY <1>4, <2>2 DEF EchoStarts, Sound
<1>5. CASE EchoPlays
  <2>1. Sound(echo, TRUE)
    BY <1>5 DEF EchoPlays, Sound
  <2>2. Sound(echo', TRUE)
    BY <1>5, <2>1, RefreshSound DEF EchoPlays
  <2> QED
    BY <1>5, <2>2 DEF EchoPlays, Sound
<1>6. CASE EchoStops
  <2>1. CASE standby[Primary]
    BY <1>6, <2>1 DEF EchoStops, Sound
  <2>2. CASE ~standby[Primary]
    <3>1. Sound(echo, TRUE)
      BY <2>2 DEF Sound
    <3>2. Sound(echo', FALSE)
      BY <1>6, <2>2, <3>1, DropSound DEF EchoStops
    <3> QED
      BY <1>6, <3>2 DEF EchoStops, Sound
  <2> QED
    BY <2>1, <2>2
<1> QED
    BY <1>1, <1>2, <1>3, <1>4, <1>5, <1>6 DEF EchoEffect

(* Every step has one of these effects, and leaves an output that writes   *)
(* its lock.                                                               *)
LEMMA EchoSteps ==
    ASSUME OneOfEach, IInv, EchoInv, Next
    PROVE  EchoEffect /\ WritesUnderLock'
<1> USE Distinct DEF Streams, Threads, Locks, Control, LockInputs, Labels, Goto, Take, Released
<1> USE DEF IInv, StreamTypes, WritesUnderLock, EchoInv, EchoEffect, EchoKept, streams, OneOfEach
<1>1. ASSUME NEW o \in Outputs,
             out_write(o) \/ WriteTakesInputs(o) \/ WriteFalseAlarm(o) \/ WriteCannotStart(o)
      PROVE  EchoEffect /\ WritesUnderLock'
    BY <1>1 DEF out_write, WriteTakesInputs, WriteFalseAlarm, WriteCannotStart
<1>2. ASSUME NEW o \in Outputs, WriteStarts(o)
      PROVE  EchoEffect /\ WritesUnderLock'
    BY <1>2 DEF WriteStarts, EchoStarts
<1>3. ASSUME NEW o \in Outputs, WriteData(o)
      PROVE  EchoEffect /\ WritesUnderLock'
    BY <1>3 DEF WriteData, WriteReturns, EchoPlays
<1>4. ASSUME NEW o \in Outputs, WriteFails(o) \/ out_standby(o)
      PROVE  EchoEffect /\ WritesUnderLock'
    BY <1>4 DEF WriteFails, WriteReturns, out_standby, do_out_standby_l, EchoStops
<1>5. ASSUME NEW i \in Inputs,
             \/ in_read(i) \/ ReadTakesInputs(i) \/ ReadFalseAlarm(i) \/ ReadData(i)
             \/ ReadFails(i) \/ adev_open_input_stream(i)
      PROVE  EchoEffect /\ WritesUnderLock'
    BY <1>5 DEF in_read, ReadTakesInputs, ReadFalseAlarm, ReadData, ReadFails,
                adev_open_input_stream
<1>6. ASSUME NEW i \in Inputs, ReadStarts(i) \/ ReadCannotStart(i)
      PROVE  EchoEffect /\ WritesUnderLock'
    BY <1>6 DEF ReadStarts, ReadCannotStart, EchoStartsIn
<1>7. ASSUME NEW i \in Inputs, do_in_standby_l(i)
      PROVE  EchoStopsIn /\ standby' = [standby EXCEPT ![i] = TRUE]
    BY <1>7 DEF do_in_standby_l, EchoStopsIn
<1>8. ASSUME NEW i \in Inputs, ReadCloses(i)
      PROVE  EchoEffect /\ WritesUnderLock'
    BY <1>7, <1>8 DEF ReadCloses
<1>9. ASSUME NEW t \in Threads, t \notin Inputs, ForceInput(t)
      PROVE  EchoEffect /\ WritesUnderLock'
  <2>1. forced[t] \in Inputs
    BY <1>9 DEF ForceInput, ChosenIsActive
  <2> QED
    BY <1>7, <1>9, <2>1 DEF ForceInput
<1>10. ASSUME NEW j \in Jobs, Call(j)
       PROVE  EchoEffect /\ WritesUnderLock'
    BY <1>10 DEF Call
<1>11. CASE in_standby \/ in_set_parameters \/ add_remove_audio_effect
  <2>1. job.stream \in Inputs
    BY <1>11 DEF in_standby, in_set_parameters, add_remove_audio_effect, On, InputCalls,
                 CallsOnOpen
  <2>2. Answer /\ ((EchoKept /\ standby' = standby) \/ do_in_standby_l(job.stream))
    BY <1>11 DEF in_standby, in_set_parameters, add_remove_audio_effect
  <2> QED
    BY <1>7, <2>1, <2>2 DEF Answer
<1>12. CASE adev_close_input_stream
  <2>1. job.stream \in Inputs
    BY <1>12 DEF adev_close_input_stream, On, InputCalls, CallsOnOpen
  <2> QED
    BY <1>12, <2>1 DEF adev_close_input_stream, Answer, EchoStopsIn
<1>13. ASSUME NEW differ \in BOOLEAN, out_set_parameters(differ)
       PROVE  EchoEffect /\ WritesUnderLock'
  <2>1. job.stream \in Outputs /\ lock[job.stream] = Nobody
    BY <1>13 DEF out_set_parameters, On, InputCalls, CallsOnOpen
  <2>2. /\ pc' \in {[pc EXCEPT ![Control] = "idle"], [pc EXCEPT ![Control] = "force"]}
        /\ lock' \in {lock, Released({LockInputs})}
    BY <1>13 DEF out_set_parameters, Answer
  <2>3. CASE do_out_standby_l(job.stream)
    <3>1. EchoStops
      BY <2>1, <2>3 DEF do_out_standby_l, EchoStops
    <3>2. \A o \in Outputs : pc[o] # "write" /\ pc'[o] # "write"
      BY <2>1, <2>2
    <3> QED
      BY <3>1, <3>2
  <2>4. CASE UNCHANGED streams
    BY <2>1, <2>2, <2>4
  <2> QED
    BY <1>13, <2>3, <2>4 DEF out_set_parameters
<1> QED
  <2> HIDE DEF IInv, EchoInv, EchoEffect, WritesUnderLock
  <2> QED
    BY <1>1, <1>2, <1>3, <1>4, <1>5, <1>6, <1>8, <1>9, <1>10, <1>11, <1>12, <1>13
       DEF Next, Continue

-----------------------------------------------------------------------------
(* One output and one input, any number of addresses for the references: a *)
(* reference that is held has not been released, none is released twice    *)
(* and none leaks, whichever of the two threads, the control thread, the   *)
(* generation number and adev->lock make the one to release it.            *)
THEOREM EchoReferenceOwnedHolds ==
    ASSUME OneOfEach
    PROVE  Spec => []EchoReferenceOwned
<1>1. Init => EchoInv
  <2> SUFFICES ASSUME Init PROVE EchoInv
    OBVIOUS
  <2>1. WritesUnderLock
    BY DEF Init, WritesUnderLock, Threads
  <2>2. Sound(echo, ~standby[Primary])
    BY Distinct DEF Init, Sound, Owned, EchoType, OneOfEach, Streams
  <2> QED
    BY <2>1, <2>2 DEF EchoInv
<1>2. IInv /\ IInv' /\ EchoInv /\ [Next]_vars => EchoInv'
  <2> SUFFICES ASSUME IInv, IInv', EchoInv, [Next]_vars PROVE EchoInv'
    OBVIOUS
  <2>1. CASE Next
    <3>1. EchoEffect /\ WritesUnderLock'
      BY <2>1, EchoSteps
    <3>2. standby \in [Streams -> BOOLEAN] /\ standby' \in [Streams -> BOOLEAN]
      BY DEF IInv, StreamTypes
    <3>3. Sound(echo', ~standby'[Primary])
      BY <3>1, <3>2, EffectSound DEF EchoInv
    <3> QED
      BY <3>1, <3>3 DEF EchoInv
  <2>2. CASE UNCHANGED vars
    BY <2>2 DEF vars, EchoInv, WritesUnderLock
  <2> QED
    BY <2>1, <2>2
<1>3. EchoInv => EchoReferenceOwned
  <2> SUFFICES ASSUME EchoInv PROVE EchoReferenceOwned
    OBVIOUS
  <2>1. Holders = {echo.adev, echo.held[Primary], echo.held[Mic]}
    BY DEF Holders, OneOfEach
  <2> QED
    BY <2>1 DEF EchoInv, Sound, Owned, EchoReferenceOwned
<1> QED
    BY <1>1, <1>2, <1>3, Invariance, PTL DEF Spec
=============================================================================
