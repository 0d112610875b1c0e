---------------------------- MODULE AudioStreams ----------------------------
(***************************************************************************)
(* The threads of the audio HAL and the locks they take: a thread writes   *)
(* to each output (out_write), one reads from each input (in_read), and a  *)
(* control thread calls the rest.  They take lock_inputs, then the lock of *)
(* a stream, then adev->lock; what is done under adev->lock is one step,   *)
(* and of what AudioHw says of such a step only standby and active_input   *)
(* are kept.  The outputs are PCM outputs: the compress offload output is  *)
(* AudioOffload.                                                           *)
(*                                                                         *)
(* The echo reference is a heap object that the echo canceller of an input *)
(* reads and an output fills.  It is created and given up under adev->lock *)
(* by the thread that starts or stops the input, but the output may still  *)
(* hold it, and then releases it later: synced[o] says that the generation *)
(* number output o has noted is the one of the device.                     *)
(***************************************************************************)
EXTENDS Integers

CONSTANTS
    Outputs,     \* the output streams, each with its thread
    Inputs,      \* the input streams, each with its thread
    Primary,     \* the output opened with AUDIO_OUTPUT_FLAG_PRIMARY
    LowLatency,  \* the outputs whose usecase is USECASE_AUDIO_PLAYBACK
    Talking,     \* the inputs whose source is VOICE_COMMUNICATION or MIC
    Refs,        \* the addresses of echo references
    Nobody       \* no stream, thread or reference: NULL

Control == "control"
Threads == Outputs \cup Inputs \cup {Control}
LockInputs == "lock_inputs"
Locks == Outputs \cup Inputs \cup {LockInputs}

ASSUME StreamsAssumption ==
    /\ Primary \in Outputs /\ LowLatency \subseteq Outputs /\ Talking \subseteq Inputs
    /\ Nobody \notin Threads \cup Locks \cup Refs
    /\ Outputs \cap Inputs = {} /\ {Control, LockInputs} \cap (Outputs \cup Inputs) = {}

VARIABLES
    pc,            \* where each thread is
    job,           \* the call of the control thread and its stream
    lock,          \* the thread that holds each lock
    opened,        \* the inputs that are open
    standby,       \* of each stream
    active_input,  \* adev->active_input
    forced,        \* the local variable in of out_write and out_set_parameters
    aborted,       \* LOG_ALWAYS_FATAL_IF has fired
    enable_aec,    \* of each input
    echo           \* the echo references: who holds which, and the live ones

vars == <<pc, job, lock, opened, standby, active_input, forced, aborted, enable_aec, echo>>
streams == <<opened, standby, active_input, enable_aec, echo>>

NoJob == [op |-> "none", stream |-> Nobody]

Init ==
    /\ pc = [t \in Threads |-> "idle"]
    /\ job = NoJob
    /\ lock = [l \in Locks |-> Nobody]
    /\ opened = {}
    /\ standby = [s \in Outputs \cup Inputs |-> TRUE]
    /\ active_input = Nobody
    /\ forced = [t \in Threads |-> Nobody]
    /\ aborted = FALSE
    /\ enable_aec = [i \in Inputs |-> FALSE]
    /\ echo = [adev |-> Nobody, held |-> [s \in Outputs \cup Inputs |-> Nobody],
               synced |-> [o \in Outputs |-> TRUE], live |-> {}, twice |-> FALSE]

-----------------------------------------------------------------------------
\* The echo reference, from one echo to the next.

release_echo_reference(e, r) ==
    [e EXCEPT !.live = @ \ {r}, !.twice = @ \/ r \notin e.live]

\* (mutant) the reference is always released here, whoever still fills it.
put_echo_reference_Always(e, r) ==
    IF r = Nobody \/ r # e.adev THEN e
    ELSE release_echo_reference(
             [e EXCEPT !.adev = Nobody, !.synced = [o \in Outputs |-> FALSE]], r)
\* The primary output releases it later when it has picked it up and plays.
put_echo_reference(e, r) ==
    LET gone == [e EXCEPT !.adev = Nobody, !.synced = [o \in Outputs |-> FALSE]]
    IN  IF r = Nobody \/ r # e.adev THEN e
        ELSE IF Primary \in LowLatency /\ e.synced[Primary] /\ ~standby[Primary] THEN gone
        ELSE release_echo_reference(gone, r)

\* The outcomes: a new reference if the primary output plays and one can be created.
get_echo_reference(e) ==
    LET put == put_echo_reference(e, e.adev)
    IN  {put} \cup
        IF Primary \notin LowLatency \/ standby[Primary] THEN {}
        ELSE {[put EXCEPT !.adev = r, !.live = @ \cup {r}, !.synced = [o \in Outputs |-> FALSE]] :
                  r \in Refs \ put.live}

\* start_output_stream takes the reference of the device.
PickUp(e, o) == [e EXCEPT !.held[o] = e.adev, !.synced[o] = TRUE]
\* out_write sees another generation.
Refresh(e, o) ==
    IF e.synced[o] THEN e
    ELSE PickUp(IF e.held[o] = Nobody THEN e ELSE release_echo_reference(e, e.held[o]), o)
\* do_out_standby_l.
Drop(e, o) ==
    LET old == e.held[o]
    IN  IF old = Nobody THEN e
        ELSE IF e.synced[o] THEN [e EXCEPT !.held[o] = Nobody]
        ELSE [release_echo_reference(e, old) EXCEPT !.held[o] = Nobody, !.synced[o] = TRUE]
\* start_input_stream: only an echo canceller without a reference asks for one.
Attach(e, i) ==
    IF ~enable_aec[i] \/ e.held[i] # Nobody THEN {e}
    ELSE {[g EXCEPT !.held[i] = g.adev] : g \in get_echo_reference(e)}

-----------------------------------------------------------------------------
Goto(t, label) == pc' = [pc EXCEPT ![t] = label]
Take(t, l) == lock[l] = Nobody /\ lock' = [lock EXCEPT ![l] = t]
Released(ls) == [l \in Locks |-> IF l \in ls THEN Nobody ELSE lock[l]]

\* The input that a change of the output resets.
Resets == IF active_input \in Talking THEN active_input ELSE Nobody

do_out_standby_l(o) ==
    /\ standby' = [standby EXCEPT ![o] = TRUE]
    /\ echo' = IF standby[o] THEN echo ELSE Drop(echo, o)
    /\ UNCHANGED <<opened, active_input, enable_aec>>
do_in_standby_l(i) ==
    /\ standby' = [standby EXCEPT ![i] = TRUE]
    /\ active_input' = IF standby[i] THEN active_input ELSE Nobody
    /\ echo' = IF standby[i] THEN echo
               ELSE [put_echo_reference(echo, echo.held[i]) EXCEPT !.held[i] = Nobody]

-----------------------------------------------------------------------------
\* out_write, by the thread of output o.

\* The stream plays and its lock is kept, or it is dropped to take lock_inputs first.
out_write(o) ==
    /\ pc[o] = "idle" /\ lock[o] = Nobody
    /\ IF standby[o] THEN Goto(o, "inputs") /\ UNCHANGED lock
       ELSE Goto(o, "write") /\ Take(o, o)
    /\ UNCHANGED <<job, forced, aborted, streams>>
WriteTakesInputs(o) ==
    /\ pc[o] = "inputs" /\ Take(o, LockInputs) /\ Goto(o, "again")
    /\ UNCHANGED <<job, forced, aborted, streams>>
\* Somebody else has started it meanwhile.
WriteFalseAlarm(o) ==
    /\ pc[o] = "again" /\ lock[o] = Nobody /\ ~standby[o]
    /\ lock' = [lock EXCEPT ![o] = o, ![LockInputs] = Nobody]
    /\ Goto(o, "write")
    /\ UNCHANGED <<job, forced, aborted, streams>>
\* (mutant) lock_inputs is given back although an input is to be reset.
WriteStarts_Unlocks(o) ==
    /\ pc[o] = "again" /\ lock[o] = Nobody /\ standby[o]
    /\ standby' = [standby EXCEPT ![o] = FALSE]
    /\ echo' = PickUp(echo, o)
    /\ forced' = [forced EXCEPT ![o] = Resets]
    /\ lock' = [lock EXCEPT ![o] = o, ![LockInputs] = Nobody]
    /\ Goto(o, "write")
    /\ UNCHANGED <<job, aborted, opened, active_input, enable_aec>>
\* lock_inputs stays locked if and only if an input is to be reset.
WriteStarts(o) ==
    /\ pc[o] = "again" /\ lock[o] = Nobody /\ standby[o]
    /\ standby' = [standby EXCEPT ![o] = FALSE]
    /\ echo' = PickUp(echo, o)
    /\ forced' = [forced EXCEPT ![o] = Resets]
    /\ lock' = [lock EXCEPT ![o] = o, ![LockInputs] = IF Resets = Nobody THEN Nobody ELSE o]
    /\ Goto(o, "write")
    /\ UNCHANGED <<job, aborted, opened, active_input, enable_aec>>
\* The PCM does not open.
WriteCannotStart(o) ==
    /\ pc[o] = "again" /\ lock[o] = Nobody /\ standby[o]
    /\ lock' = Released({LockInputs})
    /\ Goto(o, "failed")
    /\ UNCHANGED <<job, forced, aborted, streams>>
WriteReturns(o) == IF forced[o] = Nobody THEN "idle" ELSE "force"
\* The echo reference is brought up to date; pcm_write succeeds or fails.
WriteData(o) ==
    /\ pc[o] = "write"
    /\ echo' = Refresh(echo, o)
    /\ lock' = Released({o})
    /\ Goto(o, WriteReturns(o)) \/ Goto(o, "failed")
    /\ UNCHANGED <<job, forced, aborted, opened, standby, active_input, enable_aec>>
\* out_standby after an error.
WriteFails(o) ==
    /\ pc[o] = "failed" /\ lock[o] = Nobody
    /\ do_out_standby_l(o)
    /\ Goto(o, WriteReturns(o))
    /\ UNCHANGED <<job, forced, lock, aborted>>

\* (mutant) lock_inputs is not given back.
ForceInput_KeepsLock(t) ==
    /\ pc[t] = "force" /\ lock[forced[t]] = Nobody
    /\ aborted' = (aborted \/ forced[t] # active_input)
    /\ do_in_standby_l(forced[t])
    /\ forced' = [forced EXCEPT ![t] = Nobody]
    /\ Goto(t, "idle")
    /\ UNCHANGED <<job, lock, opened, enable_aec>>
\* The end of out_write and of out_set_parameters: the input goes to standby.
ForceInput(t) ==
    /\ pc[t] = "force" /\ lock[forced[t]] = Nobody
    /\ aborted' = (aborted \/ forced[t] # active_input)
    /\ do_in_standby_l(forced[t])
    /\ lock' = Released({LockInputs})
    /\ forced' = [forced EXCEPT ![t] = Nobody]
    /\ Goto(t, "idle")
    /\ UNCHANGED <<job, opened, enable_aec>>

-----------------------------------------------------------------------------
\* in_read, by the thread of input i.  The caller reads from no input that it closes.

in_read(i) ==
    /\ i \in opened /\ job # [op |-> "adev_close_input_stream", stream |-> i]
    /\ pc[i] = "idle" /\ lock[i] = Nobody
    /\ IF standby[i] THEN Goto(i, "inputs") /\ UNCHANGED lock
       ELSE Goto(i, "read") /\ Take(i, i)
    /\ UNCHANGED <<job, forced, aborted, streams>>
ReadTakesInputs(i) ==
    /\ pc[i] = "inputs" /\ Take(i, LockInputs) /\ Goto(i, "again")
    /\ UNCHANGED <<job, forced, aborted, streams>>
ReadFalseAlarm(i) ==
    /\ pc[i] = "again" /\ lock[i] = Nobody /\ ~standby[i]
    /\ lock' = [lock EXCEPT ![i] = i, ![LockInputs] = Nobody]
    /\ Goto(i, "read")
    /\ UNCHANGED <<job, forced, aborted, streams>>
\* start_input_stream succeeds; the other locks are given back before standby is reset,
\* which in->lock covers.
ReadStarts(i) ==
    /\ pc[i] = "again" /\ lock[i] = Nobody /\ standby[i]
    /\ standby' = [standby EXCEPT ![i] = FALSE]
    /\ active_input' = i
    /\ echo' \in Attach(echo, i)
    /\ lock' = [lock EXCEPT ![i] = i, ![LockInputs] = Nobody]
    /\ Goto(i, "read")
    /\ UNCHANGED <<job, forced, aborted, opened, enable_aec>>
\* No capture profile covers the devices of the input, or the PCM does not open: then the
\* input keeps the reference it has attached.
ReadCannotStart(i) ==
    /\ pc[i] = "again" /\ lock[i] = Nobody /\ standby[i]
    /\ active_input' = Nobody
    /\ echo' \in {echo} \cup Attach(echo, i)
    /\ lock' = Released({LockInputs})
    /\ Goto(i, "failed")
    /\ UNCHANGED <<job, forced, aborted, opened, standby, enable_aec>>
ReadData(i) ==
    /\ pc[i] = "read"
    /\ lock' = Released({i})
    /\ Goto(i, "idle") \/ Goto(i, "failed")
    /\ UNCHANGED <<job, forced, aborted, streams>>
\* in_standby after an error.
ReadFails(i) ==
    /\ pc[i] = "failed" /\ Take(i, LockInputs) /\ Goto(i, "closing")
    /\ UNCHANGED <<job, forced, aborted, streams>>
ReadCloses(i) ==
    /\ pc[i] = "closing" /\ lock[i] = Nobody
    /\ do_in_standby_l(i)
    /\ lock' = Released({LockInputs})
    /\ Goto(i, "idle")
    /\ UNCHANGED <<job, forced, aborted, opened, enable_aec>>

-----------------------------------------------------------------------------
\* The control thread.  out_standby takes the lock of the output alone.
out_standby(o) ==
    /\ pc[Control] = "idle" /\ lock[o] = Nobody /\ ~standby[o]
    /\ do_out_standby_l(o)
    /\ UNCHANGED <<pc, job, forced, lock, aborted>>

\* The other calls take lock_inputs and then the lock of their stream.
InputCalls == {"in_standby", "in_set_parameters", "add_remove_audio_effect",
               "adev_close_input_stream"}
Jobs == [op : InputCalls, stream : opened] \cup [op : {"out_set_parameters"}, stream : Outputs]
Call(j) ==
    /\ j.op = "adev_close_input_stream" => pc[j.stream] = "idle"
    /\ pc[Control] = "idle" /\ Take(Control, LockInputs) /\ Goto(Control, "stream")
    /\ job' = j
    /\ UNCHANGED <<forced, aborted, streams>>
On(op) == pc[Control] = "stream" /\ job.op = op /\ lock[job.stream] = Nobody
Answer ==
    /\ lock' = Released({LockInputs})
    /\ Goto(Control, "idle")
    /\ job' = NoJob
    /\ UNCHANGED <<forced, aborted>>

in_standby ==
    /\ On("in_standby")
    /\ do_in_standby_l(job.stream)
    /\ UNCHANGED <<opened, enable_aec>>
    /\ Answer
\* Once in standby the input is freed, whatever reference it still has.
adev_close_input_stream ==
    LET i == job.stream
    IN  /\ On("adev_close_input_stream")
        /\ standby' = [standby EXCEPT ![i] = TRUE]
        /\ active_input' = IF standby[i] THEN active_input ELSE Nobody
        /\ echo' = [IF standby[i] THEN echo ELSE put_echo_reference(echo, echo.held[i])
                     EXCEPT !.held[i] = Nobody]
        /\ opened' = opened \ {i}
        /\ enable_aec' = [enable_aec EXCEPT ![i] = FALSE]
        /\ Answer
\* It starts in standby and without an effect.
adev_open_input_stream(i) ==
    /\ pc[Control] = "idle" /\ opened' = opened \cup {i}
    /\ i \notin opened
    /\ UNCHANGED <<pc, job, forced, lock, aborted, standby, active_input, enable_aec, echo>>
\* The new device is of the profile of the running PCM or it is not.
in_set_parameters ==
    /\ On("in_set_parameters")
    /\ do_in_standby_l(job.stream) \/ UNCHANGED <<standby, active_input, echo>>
    /\ UNCHANGED <<opened, enable_aec>>
    /\ Answer
\* The echo canceller is attached or removed.
add_remove_audio_effect ==
    /\ On("add_remove_audio_effect")
    /\ enable_aec' = [enable_aec EXCEPT ![job.stream] = ~@]
    /\ do_in_standby_l(job.stream)
    /\ UNCHANGED opened
    /\ Answer
\* The routing of an output: it goes to standby when its PCM does not serve the new
\* devices, and an input is reset when they differ.
out_set_parameters(differ) ==
    /\ On("out_set_parameters")
    /\ do_out_standby_l(job.stream) \/ UNCHANGED streams
    /\ IF differ /\ ~standby[job.stream] /\ job.stream \in LowLatency /\ Resets # Nobody
       THEN /\ forced' = [forced EXCEPT ![Control] = Resets]
            /\ Goto(Control, "force")
            /\ job' = NoJob
            /\ UNCHANGED <<lock, aborted>>
       ELSE Answer

-----------------------------------------------------------------------------
\* A thread goes on with the call it is in.
Continue(t) ==
    \/ t \in Outputs /\ \/ WriteTakesInputs(t) \/ WriteFalseAlarm(t) \/ WriteStarts(t)
                        \/ WriteCannotStart(t) \/ WriteData(t) \/ WriteFails(t)
    \/ t \in Inputs /\ \/ ReadTakesInputs(t) \/ ReadFalseAlarm(t) \/ ReadStarts(t)
                       \/ ReadCannotStart(t) \/ ReadData(t) \/ ReadFails(t) \/ ReadCloses(t)
    \/ t = Control /\ \/ in_standby \/ in_set_parameters \/ add_remove_audio_effect
                      \/ adev_close_input_stream
                      \/ \E differ \in BOOLEAN : out_set_parameters(differ)
    \/ t \notin Inputs /\ ForceInput(t)

Next ==
    \/ \E o \in Outputs : out_write(o) \/ out_standby(o)
    \/ \E i \in Inputs : in_read(i) \/ adev_open_input_stream(i)
    \/ \E j \in Jobs : Call(j)
    \/ \E t \in Threads : Continue(t)

\* A thread that waits for a mutex which others release again and again gets it in the
\* end: pre_lock is there so that the thread that plays cannot keep the lock of a stream
\* from the others, and the other mutexes are held for bounded times only.
Fairness == \A t \in Threads : SF_vars(Continue(t))

Spec == Init /\ [][Next]_vars /\ Fairness

-----------------------------------------------------------------------------
\* LOG_ALWAYS_FATAL_IF(in != adev->active_input) of out_write and out_set_parameters never
\* fires: lock_inputs, kept from the moment the input is chosen, keeps every other thread
\* from starting, stopping or freeing an input although adev->lock is given up in between.
NeverAborts == ~aborted /\ \A t \in Threads : forced[t] \in opened \cup {Nobody}

\* A reference that the device, an output or an input holds has not been released, none
\* is released twice, and none is live that nobody holds: the two-sided protocol of
\* put_echo_reference and of the generation number neither frees too early nor leaks.  This
\* is so with one output, as the shipped audio policy has: with a second one both would
\* take the reference of the device and both release it.
Holders == {echo.adev} \cup {echo.held[s] : s \in Outputs \cup Inputs}
EchoReferenceOwned == ~echo.twice /\ echo.live = Holders \ {Nobody}

\* Every call on PCM outputs and on inputs returns: no order in which the threads take and
\* keep lock_inputs and the locks of the streams makes them wait for each other.  (The
\* compress offload output can leave lock_inputs locked: see AudioOffload.)
EveryCallReturns == \A t \in Threads : pc[t] # "idle" ~> pc[t] = "idle"
=============================================================================
