---------------------------- MODULE AudioOffload ----------------------------
(***************************************************************************)
(* The compress offload output: compress_offload.c and what audio_hw.c     *)
(* does for USECASE_AUDIO_PLAYBACK_OFFLOAD.  Callers write, pause, resume, *)
(* drain, flush and close the stream; a thread of the stream takes the     *)
(* commands they queue, waits in the driver for the DSP without the lock   *)
(* and calls the framework back.                                           *)
(*                                                                         *)
(* The stream has a callback, as every offloaded track of the framework    *)
(* has, so that writing does not block.  The framework's offload thread    *)
(* makes all calls: with two callers a pause that comes while a standby    *)
(* waits for the offload thread deadlocks with it, and a resume that comes *)
(* during a flush leaves the path of a flushed stream enabled.             *)
(***************************************************************************)
EXTENDS Integers, Sequences

CONSTANTS
    Callers,  \* the threads that call the stream
    MaxCmds,  \* bound: a caller adds no command when as many wait
    NoCaller
ASSUME OffloadAssumption == MaxCmds \in Nat \ {0} /\ NoCaller \notin Callers

VARIABLES
    fx_lib,   \* the effects library is there: adev->offload_fx_stop_output is set
    caller,   \* where each caller is
    closing,  \* adev_close_output_stream is under way
    lock,     \* out->lock, by a caller: the offload thread never stops while it holds it
    adev,     \* adev->lock
    inputs,   \* adev->lock_inputs
    state,    \* offload_state
    standby,
    compr,    \* the compress handle is open
    dsp,      \* what the DSP does with the stream: "open" before it was ever started
    listed,   \* how often the output path is enabled
    cmds,     \* offload_cmd_list
    thread,   \* where the offload thread is
    doing,    \* the command it is in the driver for
    blocked,  \* offload_thread_blocked
    faults    \* what went wrong so far (see below)

locks == <<lock, adev, inputs>>
device == <<fx_lib, state, standby, compr, dsp, listed>>
queue == <<cmds, thread, doing, blocked>>
offloadVars == <<caller, closing, locks, device, queue, faults>>

\* The ways of the code to lose a path, a state or a lock, which the properties except:
\*   "state_kept"   a stream in standby whose state is still PLAYING or PAUSED_FLUSHED:
\*                  only the effects library makes stop_output_offload_stream reset it
\*   "no_path"      out_resume_offload ignored that the path was not enabled
\*   "lock_kept"    out_write_offload returned with out->lock as the path was not enabled
\*   "inputs_kept"  out_write returned with lock_inputs, having chosen an input to reset
Faults == {"state_kept", "no_path", "lock_kept", "inputs_kept"}

\* audio_hw.c opens the effects library if the device has it.
OffloadInit ==
    /\ fx_lib \in BOOLEAN
    /\ caller = [c \in Callers |-> "idle"] /\ closing = FALSE
    /\ lock = NoCaller /\ adev = NoCaller /\ inputs = NoCaller
    /\ state = "IDLE" /\ standby = TRUE /\ compr = FALSE /\ dsp = "stopped" /\ listed = 0
    /\ cmds = <<>> /\ thread = "none" /\ doing = "none" /\ blocked = FALSE
    /\ faults = {}

Proceed(c, label) == caller' = [caller EXCEPT ![c] = label]
Free == lock = NoCaller
Paused == state \in {"PAUSED", "PAUSED_FLUSHED"}
\* "state_kept" if the stream is in standby with this state.
Kept(s) == IF s \in {"PLAYING", "PAUSED_FLUSHED"} THEN {"state_kept"} ELSE {}

-----------------------------------------------------------------------------
\* send_offload_cmd_l.
Send(cmd) == cmds' = Append(cmds, cmd)
Room == Len(cmds) < MaxCmds

\* adev_open_output_stream with AUDIO_OUTPUT_FLAG_COMPRESS_OFFLOAD.
create_offload_callback_thread(c) ==
    /\ caller[c] = "idle" /\ thread = "none"
    /\ thread' = "loop" /\ state' = "IDLE" /\ standby' = TRUE
    /\ UNCHANGED <<caller, closing, locks, fx_lib, compr, dsp, listed, cmds, doing, blocked, faults>>

\* A caller begins a call, which then waits for out->lock; it does not write to a stream
\* that it has paused and not flushed.
Call(c, op) ==
    /\ caller[c] = "idle" /\ thread # "none" /\ ~closing
    /\ op \in {"write", "drain"} => Room
    /\ op = "write" => standby \/ state # "PAUSED"
    /\ Proceed(c, IF op = "close" THEN "standby" ELSE op)
    /\ closing' = (op = "close")
    /\ UNCHANGED <<locks, device, queue, faults>>
Ops == {"write", "pause", "resume", "drain", "flush", "standby", "close"}

\* out_write of a stream in standby gives up out->lock to take lock_inputs first.
out_write_compress(c) ==
    /\ caller[c] = "write" /\ Free
    /\ IF standby THEN Proceed(c, "inputs") /\ UNCHANGED lock
                   ELSE Proceed(c, "data") /\ lock' = c
    /\ UNCHANGED <<closing, adev, inputs, device, queue, faults>>
LockInputs(c) ==
    /\ caller[c] = "inputs" /\ inputs = NoCaller
    /\ inputs' = c /\ Proceed(c, "again")
    /\ UNCHANGED <<closing, lock, adev, device, queue, faults>>
WriteAgain(c) ==
    /\ caller[c] = "again" /\ Free
    /\ lock' = c
    /\ IF standby THEN Proceed(c, "start") /\ UNCHANGED inputs
                   ELSE Proceed(c, "data") /\ inputs' = NoCaller
    /\ UNCHANGED <<closing, adev, device, queue, faults>>
\* start_output_stream.  lock_inputs stays locked if a microphone or voice communication
\* input is active: the offload branch of out_write never comes to its reset.
WriteStarts(c) ==
    /\ caller[c] = "start" /\ adev = NoCaller
    /\ compr' = TRUE /\ standby' = FALSE /\ dsp' = "open" /\ listed' = listed + 1
    /\ \E reset \in BOOLEAN :
        /\ inputs' = IF reset THEN c ELSE NoCaller
        /\ faults' = IF reset THEN faults \union {"inputs_kept"} ELSE faults
    /\ Proceed(c, "data")
    /\ UNCHANGED <<closing, lock, adev, fx_lib, state, queue>>
\* Either the path is not enabled, or the compress device does not open and
\* stop_output_stream disables the path again; out_write then calls out_standby.
StartFails(c) ==
    /\ caller[c] = "start" /\ adev = NoCaller
    /\ \/ UNCHANGED <<state, listed>>
       \/ /\ state' = IF fx_lib THEN "IDLE" ELSE state
          /\ listed' = IF fx_lib /\ Paused THEN listed + 1 ELSE listed
    /\ lock' = NoCaller /\ inputs' = NoCaller /\ Proceed(c, "standby")
    /\ UNCHANGED <<closing, adev, fx_lib, standby, compr, dsp, queue, faults>>
\* (mutant) the path that the pause disabled is not enabled again.
out_write_offload_NoPath(c) ==
    /\ caller[c] = "data"
    /\ UNCHANGED cmds \/ Send("WAIT_FOR_BUFFER")
    /\ state' = "PLAYING"
    /\ dsp' = IF state = "PLAYING" THEN dsp ELSE "running"
    /\ lock' = NoCaller /\ Proceed(c, "idle")
    /\ UNCHANGED <<closing, adev, inputs, fx_lib, standby, compr, listed, thread, doing, blocked, faults>>
\* out_write_offload: after a flush the path is enabled again; a buffer that is not
\* taken as a whole asks for a callback.
out_write_offload(c) ==
    /\ caller[c] = "data"
    /\ state = "PAUSED_FLUSHED" => adev = NoCaller
    /\ listed' = IF state = "PAUSED_FLUSHED" THEN listed + 1 ELSE listed
    /\ UNCHANGED cmds \/ Send("WAIT_FOR_BUFFER")
    /\ state' = "PLAYING"
    /\ dsp' = IF state = "PLAYING" THEN dsp ELSE "running"
    /\ lock' = NoCaller /\ Proceed(c, "idle")
    /\ UNCHANGED <<closing, adev, inputs, fx_lib, standby, compr, thread, doing, blocked, faults>>
\* enable_output_path_l has no memory: the call returns and keeps the lock.
WriteNotRouted(c) ==
    /\ caller[c] = "data" /\ state = "PAUSED_FLUSHED" /\ adev = NoCaller
    /\ faults' = faults \union {"lock_kept"}
    /\ Proceed(c, "idle")
    /\ UNCHANGED <<closing, locks, device, queue>>

\* The lock of the stream is kept while the caller waits for adev->lock.  A DSP that does
\* not run is not paused.
out_pause_offload(c) ==
    /\ caller[c] = "pause" /\ Free
    /\ IF compr /\ state = "PLAYING"
       THEN /\ state' = "PAUSED" /\ dsp' = IF dsp = "running" THEN "paused" ELSE dsp
            /\ lock' = c /\ Proceed(c, "unroute")
       ELSE Proceed(c, "idle") /\ UNCHANGED <<state, dsp, lock>>
    /\ UNCHANGED <<closing, adev, inputs, fx_lib, standby, compr, listed, queue, faults>>
\* disable_output_path_l: nothing is disabled if the path is not listed.
PathDisabled == IF listed = 0 THEN 0 ELSE listed - 1
PauseUnroutes(c) ==
    /\ caller[c] = "unroute" /\ adev = NoCaller
    /\ listed' = PathDisabled /\ faults' = faults \ {"no_path"}
    /\ lock' = NoCaller /\ Proceed(c, "idle")
    /\ UNCHANGED <<closing, adev, inputs, fx_lib, state, standby, compr, dsp, queue>>
out_resume_offload(c) ==
    /\ caller[c] = "resume" /\ Free
    /\ IF compr /\ state = "PAUSED" THEN lock' = c /\ Proceed(c, "route")
                                    ELSE UNCHANGED lock /\ Proceed(c, "idle")
    /\ UNCHANGED <<closing, adev, inputs, device, queue, faults>>
\* What enable_output_path_l returns is not looked at.
ResumeRoutes(c) ==
    /\ caller[c] = "route" /\ adev = NoCaller
    /\ \/ listed' = listed + 1 /\ UNCHANGED faults
       \/ faults' = faults \union {"no_path"} /\ UNCHANGED listed
    /\ state' = "PLAYING" /\ dsp' = IF dsp = "paused" THEN "running" ELSE dsp
    /\ lock' = NoCaller /\ Proceed(c, "idle")
    /\ UNCHANGED <<closing, adev, inputs, fx_lib, standby, compr, queue>>
out_drain_offload(c) ==
    /\ caller[c] = "drain" /\ Free
    /\ \E cmd \in {"PARTIAL_DRAIN", "DRAIN"} : Send(cmd)
    /\ Proceed(c, "idle")
    /\ UNCHANGED <<closing, locks, device, thread, doing, blocked, faults>>

\* stop_compressed_output_l: the DSP stops, and while the offload thread is in the driver
\* pthread_cond_wait gives up the lock of the stream.  External: the driver may refuse to
\* stop what was never started.
compress_stop == dsp' \in IF ~compr THEN {dsp} ELSE IF dsp = "open" THEN {"open", "stopped"}
                          ELSE {"stopped"}
CondWait(c) == IF compr /\ blocked THEN NoCaller ELSE c
Woken(c) == lock \in {NoCaller, c} /\ ~(compr /\ blocked)

out_flush_offload(c) ==
    /\ caller[c] = "flush" /\ Free
    /\ IF state = "PAUSED" THEN compress_stop /\ lock' = CondWait(c) /\ Proceed(c, "flushed")
                           ELSE UNCHANGED <<dsp, lock>> /\ Proceed(c, "idle")
    /\ UNCHANGED <<closing, adev, inputs, fx_lib, state, standby, compr, listed, queue, faults>>
FlushEnds(c) ==
    /\ caller[c] = "flushed" /\ Woken(c)
    /\ state' = "PAUSED_FLUSHED"
    /\ faults' = IF standby THEN faults \union Kept("PAUSED_FLUSHED") ELSE faults
    /\ lock' = NoCaller /\ Proceed(c, "idle")
    /\ UNCHANGED <<closing, adev, inputs, fx_lib, standby, compr, dsp, listed, queue>>

\* out_standby, and out_set_parameters when the stream cannot serve its new device.
AfterStandby == IF closing THEN "destroy" ELSE "idle"
out_standby_compress(c) ==
    /\ caller[c] = "standby" /\ Free
    /\ IF standby THEN Proceed(c, AfterStandby) /\ UNCHANGED lock
                   ELSE Proceed(c, "stop") /\ lock' = c
    /\ UNCHANGED <<closing, adev, inputs, device, queue, faults>>
\* (mutant) the DSP is not stopped before the wait for the offload thread.
do_out_standby_l_compress_NoStop(c) ==
    /\ caller[c] = "stop" /\ adev = NoCaller
    /\ adev' = c /\ standby' = TRUE
    /\ lock' = CondWait(c) /\ Proceed(c, "wait")
    /\ UNCHANGED <<closing, inputs, fx_lib, state, compr, dsp, listed, queue, faults>>
\* adev->lock is kept meanwhile.
do_out_standby_l_compress(c) ==
    /\ caller[c] = "stop" /\ adev = NoCaller
    /\ adev' = c /\ standby' = TRUE
    /\ compress_stop
    /\ lock' = CondWait(c) /\ Proceed(c, "wait")
    /\ UNCHANGED <<closing, inputs, fx_lib, state, compr, listed, queue, faults>>
\* stop_output_offload_stream: with the effects library the path of a paused stream is
\* taken for disabled already, and the state is reset.
stop_output_offload_stream(c) ==
    /\ caller[c] = "wait" /\ Woken(c)
    /\ compr' = FALSE /\ dsp' = "stopped" /\ adev' = NoCaller /\ lock' = NoCaller
    /\ IF fx_lib
       THEN /\ state' = "IDLE" /\ listed' = IF Paused THEN listed ELSE PathDisabled
            /\ faults' = faults \ {"no_path"}
       ELSE /\ listed' = PathDisabled /\ UNCHANGED state
            /\ faults' = (faults \ {"no_path"}) \union Kept(state)
    /\ Proceed(c, AfterStandby)
    /\ UNCHANGED <<closing, inputs, fx_lib, standby, queue>>

\* adev_close_output_stream after its out_standby.
destroy_offload_callback_thread(c) ==
    /\ caller[c] = "destroy" /\ Free
    /\ Send("EXIT")
    /\ Proceed(c, "join")
    /\ UNCHANGED <<closing, locks, device, thread, doing, blocked, faults>>
Joined(c) ==
    /\ caller[c] = "join" /\ thread = "ended"
    /\ thread' = "none" /\ closing' = FALSE
    /\ Proceed(c, "idle")
    /\ UNCHANGED <<locks, device, cmds, doing, blocked, faults>>

-----------------------------------------------------------------------------
\* offload_thread_loop takes a command; without a compress handle it drops it.
NextCommand ==
    /\ thread = "loop" /\ Free /\ cmds # <<>>
    /\ \/ /\ Head(cmds) = "EXIT" /\ thread' = "ended" /\ cmds' = <<>>
          /\ UNCHANGED <<doing, blocked>>
       \/ /\ Head(cmds) # "EXIT" /\ ~compr /\ cmds' = Tail(cmds)
          /\ UNCHANGED <<thread, doing, blocked>>
       \/ /\ Head(cmds) # "EXIT" /\ compr /\ cmds' = Tail(cmds)
          /\ thread' = "driver" /\ doing' = Head(cmds) /\ blocked' = TRUE
    /\ UNCHANGED <<caller, closing, locks, device, faults>>
\* External: the driver waits for a paused DSP, and for room in the buffer of one that was
\* never started; a stopped stream makes it return.  After a full drain the DSP has stopped.
DriverReturns ==
    /\ thread = "driver" /\ dsp # "paused" /\ ~(dsp = "open" /\ doing = "WAIT_FOR_BUFFER")
    /\ thread' = "back"
    /\ dsp' = IF doing = "DRAIN" /\ dsp = "running" THEN "drained" ELSE dsp
    /\ UNCHANGED <<caller, closing, locks, fx_lib, state, standby, compr, listed, cmds, doing, blocked, faults>>
\* The waiting caller is signalled, and the framework is called back under the lock.
CallBack ==
    /\ thread = "back" /\ Free
    /\ thread' = "loop" /\ doing' = "none" /\ blocked' = FALSE
    /\ UNCHANGED <<caller, closing, locks, device, cmds, faults>>

-----------------------------------------------------------------------------
Begin(c) == create_offload_callback_thread(c) \/ \E op \in Ops : Call(c, op)
Write(c) ==
    \/ out_write_compress(c) \/ LockInputs(c) \/ WriteAgain(c) \/ WriteStarts(c)
    \/ StartFails(c) \/ out_write_offload(c) \/ WriteNotRouted(c)
Control(c) ==
    \/ out_pause_offload(c) \/ PauseUnroutes(c) \/ out_resume_offload(c) \/ ResumeRoutes(c)
    \/ out_drain_offload(c) \/ out_flush_offload(c) \/ FlushEnds(c)
Stop(c) ==
    \/ out_standby_compress(c) \/ do_out_standby_l_compress(c) \/ stop_output_offload_stream(c)
    \/ destroy_offload_callback_thread(c) \/ Joined(c)
Continue(c) == Write(c) \/ Control(c) \/ Stop(c)
Offload == NextCommand \/ DriverReturns \/ CallBack
OffloadNext == (\E c \in Callers : Begin(c) \/ Continue(c)) \/ Offload

\* As in AudioStreams: pre_lock keeps a caller from starving the others.
OffloadSpec ==
    /\ OffloadInit /\ [][OffloadNext]_offloadVars
    /\ SF_offloadVars(Offload) /\ \A c \in Callers : SF_offloadVars(Continue(c))

-----------------------------------------------------------------------------
Happened(f) == f \in faults

\* Between two calls of the one thread that plays, the output path is enabled once if the
\* stream plays or is about to, and not at all in standby or while it is paused, and a
\* stream whose state is PLAYING has its DSP running, with and without the effects library:
\* what pause, resume, flush, standby and the next write each do to the path and to the
\* state adds up in every order.  Excepted are the ways of the code to lose it: a resume
\* that did not enable the path ("no_path", until the next pause or standby); a DSP that
\* stopped at the end of a full drain, which leaves the state PLAYING; and, from the first
\* standby that keeps the state on ("state_kept", never with the effects library), the
\* exact count and the DSP: what is left then is that a playing stream has its path.
PathFollowsState ==
    (\A c \in Callers : caller[c] = "idle") =>
        /\ ~standby /\ state = "PLAYING" => listed > 0 \/ Happened("no_path")
        /\ ~Happened("state_kept") =>
            /\ \/ listed = IF standby \/ Paused THEN 0 ELSE 1
               \/ Happened("no_path") /\ state = "PLAYING" /\ listed = 0
            /\ state = "PLAYING" => dsp \in {"running", "drained"}
        /\ fx_lib => ~Happened("state_kept")

\* Every call of the one thread that plays returns, the one that waits for the offload
\* thread to come back from the driver and the one that joins it included, however the
\* commands are queued.  Excepted are three ways of the code to hang: any call after a
\* write that returned with out->lock held; the write that starts the stream again after
\* one that returned with lock_inputs held; and the wait for the offload thread if the DSP
\* was never started, as the state was PLAYING already, and the driver does not stop it.
Hangs(c) ==
    \/ Happened("lock_kept")
    \/ Happened("inputs_kept") /\ caller[c] = "inputs"
    \/ Happened("state_kept") /\ dsp = "open" /\ caller[c] \in {"flushed", "wait"}
EveryCallReturns == \A c \in Callers : caller[c] # "idle" ~> caller[c] = "idle" \/ Hangs(c)
=============================================================================
