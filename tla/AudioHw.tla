------------------------------- MODULE AudioHw -------------------------------
(***************************************************************************)
(* The audio HAL as adev->lock orders it: output and input streams start,  *)
(* stop and are routed, the mode changes, and a voice call comes and goes. *)
(* hal is what adev->lock guards together with the fields of the streams,  *)
(* and what a function does while it holds that lock is one step.          *)
(*                                                                         *)
(* A call that resets the active input does so in a second step, for which *)
(* it keeps lock_inputs: forced is that input, and until then the calls    *)
(* that need lock_inputs wait.  The other locks and the threads are        *)
(* AudioStreams.  The outputs are PCM outputs: the compress offload output *)
(* is AudioOffload, and what out_set_offload_parameters does to its sound  *)
(* device is in neither module.                                            *)
(***************************************************************************)
EXTENDS AudioRouting

CONSTANTS
    OutDevices,  \* the sets of devices an output is routed to
    LowLatency,  \* the outputs whose usecase is USECASE_AUDIO_PLAYBACK
    InDevices,   \* the sets of devices an input is routed to
    Sources,     \* the audio sources of an input
    Modes        \* the audio modes the framework sets
ASSUME DevicesAssumption ==
    /\ \A d \in OutDevices : d # {}
    /\ \A d \in InDevices : d # {}
    /\ "NORMAL" \in Modes /\ LowLatency \subseteq Outputs

VARIABLES
    hal,    \* struct audio_device and the streams it knows
    forced  \* the input a call will put into standby before it returns

vars == <<hal, forced>>

Nobody == "nobody"

\* adev_open, and the streams as their open functions leave them.
Init ==
    /\ hal \in {[mode |-> "NORMAL", uses |-> <<>>, snd_dev_ref_cnt |-> [d \in SndDevices |-> 0],
                 paths |-> {}, active_input |-> Nobody, in_call |-> FALSE, wb_amr |-> FALSE,
                 bluetooth_wb |-> FALSE, bt_sco_active |-> FALSE, session |-> {},
                 two_mic |-> FALSE, voice_pcm |-> FALSE, modem_path |-> {},
                 out |-> [o \in Outputs |-> [standby |-> TRUE, devices |-> od]],
                 in |-> [i \in Inputs |-> [standby |-> TRUE, devices |-> id, source |-> s,
                                           aec |-> FALSE]]] :
                 od \in OutDevices, id \in InDevices, s \in Sources}
    /\ forced = Nobody

\* An output read as an input: any source and device may come of it.
Junk == [source : Sources \cup {"DEFAULT"}, devices : InDevices \cup {{}}, aec : {FALSE}]

-----------------------------------------------------------------------------
\* What the functions of the code do under adev->lock, from one hal to the next.

\* There is one output for each playback usecase, whose name stands for its id.
NewUsecase(id, type, stream, mixer) ==
    [id |-> id, type |-> type, stream |-> stream, in |-> None, out |-> None, mixer |-> mixer]

enable_output_path_l(w, o, junk) ==
    SelectPlayback(List(w, NewUsecase(o, "PCM_PLAYBACK", o,
                                      w.out[o].devices \cap PlaybackProfile # {})), o, junk)
\* (mutant) the usecase goes and its sound device keeps the reference.
disable_output_path_l_Leaky(w, o) == IF ~Listed(w, o) THEN w ELSE Unlist(w, o)
disable_output_path_l(w, o) ==
    IF ~Listed(w, o) THEN w
    ELSE Unlist(disable_snd_device(w, Usecase(w, o), Usecase(w, o).out), o)
\* opens: the PCM device opens.
start_output_stream(w, o, opens, junk) ==
    LET on == enable_output_path_l(w, o, junk)
    IN  IF opens THEN [on EXCEPT !.out[o].standby = FALSE] ELSE disable_output_path_l(on, o)
do_out_standby_l(w, o) ==
    disable_output_path_l([w EXCEPT !.out[o].standby = TRUE], o)

stop_input_stream(w, i) ==
    LET quiet == [w EXCEPT !.active_input = Nobody]
    IN  IF ~Listed(w, "CAPTURE") THEN quiet
        ELSE Unlist(disable_snd_device(quiet, Usecase(w, "CAPTURE"), Usecase(w, "CAPTURE").in),
                    "CAPTURE")
start_input_stream(w, i, opens, junk) ==
    LET on == SelectCapture(List([w EXCEPT !.active_input = i],
                                 NewUsecase("CAPTURE", "PCM_CAPTURE", i, TRUE)), junk)
    IN  IF w.in[i].devices \cap CaptureProfile = {} THEN [w EXCEPT !.active_input = Nobody]
        ELSE IF opens THEN [on EXCEPT !.in[i].standby = FALSE] ELSE stop_input_stream(on, i)
do_in_standby_l(w, i) ==
    IF w.in[i].standby THEN w ELSE [stop_input_stream(w, i) EXCEPT !.in[i].standby = TRUE]

\* voice_pcm: a PCM of the session is set.  When one of the two does not get ready the
\* wrong one is closed, so one is set whatever happens, and the next start returns early.
start_voice_session(w) == [w EXCEPT !.voice_pcm = TRUE]
\* The modem's clock stops, and with it the path it was told.
stop_voice_session(w) == [w EXCEPT !.voice_pcm = FALSE, !.session = {}, !.modem_path = {}]

start_voice_call(w, junk) ==
    start_voice_session(
        SelectVoice(List([w EXCEPT !.in_call = TRUE],
                         NewUsecase("VOICE_CALL", "VOICE_CALL", Primary, TRUE)), junk))
stop_voice_call(w) ==
    LET s == stop_voice_session([w EXCEPT !.in_call = FALSE])
        u == Usecase(w, "VOICE_CALL")
    IN  IF ~Listed(w, "VOICE_CALL") THEN s
        ELSE Unlist(disable_snd_device(disable_snd_device(s, u, u.out), u, u.in), "VOICE_CALL")

\* start_ and stop_voice_session_bt_sco: outside a call the modem's PCM goes with them,
\* unless they do not open.
BluetoothSco(w, o, opens) ==
    LET sco == w.out[o].devices \cap AllSco # {}
        on  == [w EXCEPT !.bt_sco_active = TRUE]
        off == [w EXCEPT !.bt_sco_active = FALSE]
    IN  IF sco /\ w.mode \in {"IN_COMMUNICATION", "IN_CALL"} /\ ~w.bt_sco_active
        THEN IF w.mode = "IN_CALL" \/ ~opens THEN on ELSE start_voice_session(on)
        ELSE IF ~sco /\ w.bt_sco_active
        THEN IF w.mode = "IN_CALL" THEN off ELSE stop_voice_session(off)
        ELSE w

\* An output that started on devices old can be routed to d without a standby: it has a
\* PCM device, and the profile of that covers d.
Serves(old, d) == old \cap PlaybackProfile # {} /\ d \subseteq PlaybackProfile
\* (mutant) a call that runs is not restarted on the new devices.
Reroute_KeepsCall(w, o, d, opens, junk) ==
    LET w1 == [w EXCEPT !.out[o].devices = d]
        w2 == IF w.out[o].standby THEN w1
              ELSE IF ~Serves(w.out[o].devices, d) THEN do_out_standby_l(w1, o)
              ELSE SelectPlayback(w1, o, junk)
        w3 == BluetoothSco(w2, o, opens)
    IN  IF w.mode # "IN_CALL" \/ o # Primary \/ w3.in_call THEN w3
        ELSE start_voice_call(w3, junk)
\* The part of out_set_parameters that reroutes output o, a PCM output, to devices d.
Reroute(w, o, d, opens, junk) ==
    LET w1 == [w EXCEPT !.out[o].devices = d]
        w2 == IF w.out[o].standby THEN w1
              ELSE IF ~Serves(w.out[o].devices, d) THEN do_out_standby_l(w1, o)
              ELSE SelectPlayback(w1, o, junk)
        w3 == BluetoothSco(w2, o, opens)
    IN  IF w.mode # "IN_CALL" \/ o # Primary THEN w3
        ELSE start_voice_call(IF w3.in_call THEN stop_voice_call(w3) ELSE w3, junk)

\* The input a change of the output forces into standby.
Resets(w) == IF w.active_input = Nobody THEN Nobody
             ELSE IF w.in[w.active_input].source \in {"VOICE_COMMUNICATION", "MIC"}
             THEN w.active_input ELSE Nobody

\* in_set_parameters on input i.
RerouteInput(w, i, d, source, junk) ==
    LET new == [w EXCEPT !.in[i].source = source, !.in[i].devices = d]
    IN  IF w.in[i].standby \/ d = w.in[i].devices THEN new
        ELSE IF d \cap CaptureProfile = {} THEN do_in_standby_l(new, i)
        ELSE SelectCapture(new, junk)

-----------------------------------------------------------------------------
\* out_write finds the stream in standby; lock_inputs stays locked if and only if an
\* input is to be reset.  Writing itself changes nothing here.
out_write(o, opens, junk) ==
    /\ forced = Nobody /\ hal.out[o].standby
    /\ hal' = start_output_stream(hal, o, opens, junk)
    /\ forced' = IF opens THEN Resets(hal') ELSE Nobody
\* By the framework, or by out_write after an error.
out_standby(o) ==
    /\ ~hal.out[o].standby
    /\ hal' = do_out_standby_l(hal, o)
    /\ UNCHANGED forced
out_set_parameters(o, d, opens, junk) ==
    /\ forced = Nobody
    /\ hal' = Reroute(hal, o, d, opens, junk)
    /\ forced' = IF o \in LowLatency /\ d # hal.out[o].devices /\ ~hal.out[o].standby
                 THEN Resets(hal) ELSE Nobody
\* The end of out_write and of out_set_parameters.
ForceInput ==
    /\ forced # Nobody
    /\ hal' = do_in_standby_l(hal, forced)
    /\ forced' = Nobody

in_read(i, opens, junk) ==
    /\ forced = Nobody /\ hal.in[i].standby
    /\ hal' = start_input_stream(hal, i, opens, junk)
    /\ UNCHANGED forced
\* By the framework, by in_read after an error, or by adev_close_input_stream.
in_standby(i) ==
    /\ forced = Nobody /\ ~hal.in[i].standby
    /\ hal' = do_in_standby_l(hal, i)
    /\ UNCHANGED forced
in_set_parameters(i, d, source, junk) ==
    /\ forced = Nobody
    /\ hal' = RerouteInput(hal, i, d, source, junk)
    /\ UNCHANGED forced
\* An echo canceller is attached or removed.
add_remove_audio_effect(i, junk) ==
    /\ forced = Nobody
    /\ LET set == [hal EXCEPT !.in[i].aec = ~@]
       IN  hal' = IF hal.in[i].standby THEN set ELSE do_in_standby_l(SelectCapture(set, junk), i)
    /\ UNCHANGED forced

adev_set_mode(m) ==
    /\ m # hal.mode
    /\ LET new == [hal EXCEPT !.mode = m]
       IN  hal' = IF m = "NORMAL" /\ hal.in_call THEN stop_voice_call(new) ELSE new
    /\ UNCHANGED forced
\* The wideband codec of the Bluetooth headset.
adev_set_parameters ==
    /\ hal' = [hal EXCEPT !.bluetooth_wb = ~@]
    /\ UNCHANGED forced
\* The thread of the RIL client: the modem has changed its codec.
voice_session_wb_amr_callback(junk) ==
    /\ LET new == [hal EXCEPT !.wb_amr = ~@]
       IN  hal' = IF hal.in_call THEN start_voice_call(stop_voice_call(new), junk) ELSE new
    /\ UNCHANGED forced

Next ==
    \/ \E junk \in Junk, opens \in BOOLEAN :
           \/ \E o \in Outputs : \/ out_write(o, opens, junk)
                                 \/ \E d \in OutDevices : out_set_parameters(o, d, opens, junk)
           \/ \E i \in Inputs : in_read(i, opens, junk)
    \/ \E i \in Inputs, junk \in Junk :
           \/ add_remove_audio_effect(i, junk)
           \/ \E d \in InDevices, s \in Sources : in_set_parameters(i, d, s, junk)
    \/ \E junk \in Junk : voice_session_wb_amr_callback(junk)
    \/ \E o \in Outputs : out_standby(o)
    \/ \E i \in Inputs : in_standby(i)
    \/ \E m \in Modes : adev_set_mode(m)
    \/ ForceInput \/ adev_set_parameters

Spec == Init /\ [][Next]_vars
-----------------------------------------------------------------------------
Users(d) == {s \in (DOMAIN hal.uses) \X {"in", "out"} : d \in Parts(hal.uses[s[1]][s[2]])}
\* snd_dev_ref_cnt[d], which enable_snd_device and disable_snd_device keep by hand, is the
\* number of usecases routed to d, the combined device counting for both its parts,
\* through every start, stop, failed open, reroute and restart of a call: no device is
\* left powered without a user, none is switched off under one.
RefCountsMatchUsers == \A d \in SndDevices : hal.snd_dev_ref_cnt[d] = Cardinality(Users(d))
\* All playback usecases share one sound device, and a call imposes its own on playback
\* and capture: what check_and_route_usecases and select_devices are there for, since
\* the codec has one backend in each direction.  A call that selected no device for a
\* direction imposes none.
OneBackend ==
    \A k, l \in DOMAIN hal.uses :
        LET u == hal.uses[k]
            v == hal.uses[l]
            call == u.type = "VOICE_CALL"
        IN  /\ v.type = "PCM_PLAYBACK" /\ u.type = "PCM_PLAYBACK" => u.out = v.out
            /\ v.type = "PCM_PLAYBACK" /\ call /\ u.out # None => u.out = v.out
            /\ v.type = "PCM_CAPTURE" /\ call /\ u.in # None => u.in = v.in
\* The mixer path of every sound device that is in use, and of no other, is applied: the
\* path follows the first and the last reference although devices share paths.  The path
\* of the combined device is left out, as the cycling of disable_snd_device applies it
\* and nothing resets it.
Held == {PathName(d) : d \in {e \in SndDevices : hal.snd_dev_ref_cnt[e] > 0}}
PathsMatchRefs == hal.paths \ {Combo} = Held
\* A call that starts, or whose primary output is given other devices, is afterwards on
\* those devices in all its parts: the usecase, the voice session and the path the modem
\* was told (out_set_parameters restarts the call).
CallFollows ==
    LET d == hal.out[Primary].devices
        u == Usecase(hal, "VOICE_CALL")
    IN  /\ hal.session = d /\ hal.modem_path = ModemPath(d)
        /\ u.out = get_output_snd_device(hal, d) /\ u.in = get_input_snd_device(hal, NoStream, d)
CallFollowsPrimary ==
    [][hal'.in_call /\ hal'.mode = "IN_CALL"
           /\ (hal'.out[Primary].devices # hal.out[Primary].devices \/ ~hal.in_call) =>
       CallFollows']_vars
=============================================================================
