---------------------------- MODULE AudioRouting ----------------------------
(***************************************************************************)
(* Which sound devices the usecases of the audio HAL are routed to, and    *)
(* the reference counts and mixer paths that follow from it: audio_hw.c    *)
(* from get_output_snd_device to select_devices, and the voice session of  *)
(* voice.c that a call adds.  Everything here runs with adev->lock held,   *)
(* so each function of the code is an operator from one state of the HAL   *)
(* to the next; AudioHw calls them from its threads.                       *)
(*                                                                         *)
(* A set of audio_devices_t bits is a set of names, SND_DEVICE_x is the    *)
(* string "x".  There is one sound card, so a usecase either has the mixer *)
(* of that card or, when no PCM profile covers its devices, none.          *)
(***************************************************************************)
EXTENDS Integers, FiniteSets, SequencesExt

CONSTANTS
    Outputs,  \* the output streams
    Inputs,   \* the input streams
    Primary   \* the output opened with AUDIO_OUTPUT_FLAG_PRIMARY
ASSUME StreamsAssumption ==
    /\ Primary \in Outputs /\ Outputs \cap Inputs = {}
    /\ Outputs \cap {"CAPTURE", "VOICE_CALL"} = {}

None == "NONE"

-----------------------------------------------------------------------------
\* AUDIO_DEVICE_OUT_ALL_SCO; "SCO" stands for the plain device and for a car kit.
AllSco == {"SCO", "SCO_HEADSET"}
\* pcm_devices: the devices of the playback and of the capture profiles.
PlaybackProfile == {"EARPIECE", "SPEAKER", "HEADSET", "HEADPHONE"} \cup AllSco
CaptureProfile == {"BUILTIN_MIC", "BACK_MIC", "HEADSET_MIC", "SCO_MIC"}

OutSndDevices ==
    {"EARPIECE", "SPEAKER", "HEADPHONES", "BT_SCO"} \cup
    {"VOICE_EARPIECE", "VOICE_SPEAKER", "VOICE_HEADPHONES", "VOICE_BT_SCO",
     "VOICE_EARPIECE_WB", "VOICE_SPEAKER_WB", "VOICE_HEADPHONES_WB", "VOICE_BT_SCO_WB"}
Combo == "SPEAKER_AND_HEADPHONES"
InSndDevices ==
    {"EARPIECE_MIC", "SPEAKER_MIC", "HEADSET_MIC", "BT_SCO_MIC", "CAMCORDER_MIC",
     "VOICE_REC_MIC", "VOICE_REC_HEADSET_MIC",
     "EARPIECE_MIC_AEC", "SPEAKER_MIC_AEC", "HEADSET_MIC_AEC", "VOICE_MIC",
     "VOICE_EARPIECE_MIC", "VOICE_SPEAKER_MIC", "VOICE_HEADSET_MIC", "VOICE_BT_SCO_MIC",
     "VOICE_EARPIECE_MIC_WB", "VOICE_SPEAKER_MIC_WB", "VOICE_HEADSET_MIC_WB",
     "VOICE_BT_SCO_MIC_WB"}
SndDevices == OutSndDevices \cup InSndDevices

\* device_table: three of the echo cancelling devices share a path with another one.
PathName(d) ==
    LET shared == [EARPIECE_MIC_AEC |-> "EARPIECE_MIC", HEADSET_MIC_AEC |-> "HEADSET_MIC",
                   SPEAKER_MIC_AEC |-> "VOICE_SPEAKER_MIC"]
    IN  IF d \in DOMAIN shared THEN shared[d] ELSE d

-----------------------------------------------------------------------------
\* The usecases of adev->usecase_list, in its order.
Listed(w, id) == \E k \in DOMAIN w.uses : w.uses[k].id = id
get_usecase_from_id(w, id) == SelectInSeq(w.uses, LAMBDA u : u.id = id)
get_usecase_from_type(w, types) == SelectInSeq(w.uses, LAMBDA u : u.type \in types)
Usecase(w, id) == w.uses[get_usecase_from_id(w, id)]

List(w, u) == [w EXCEPT !.uses = Append(@, u)]
Unlist(w, id) == [w EXCEPT !.uses = RemoveAt(@, get_usecase_from_id(w, id))]
SetDevice(w, id, dir, d) == [w EXCEPT !.uses[get_usecase_from_id(w, id)][dir] = d]

\* voice_session_uses_wideband.
Wideband(w) == IF w.session \cap AllSco # {} THEN w.bluetooth_wb ELSE w.wb_amr

\* An if / else if chain: the value of the first pair whose condition holds.
FirstOf(chain) ==
    LET k == SelectInSeq(chain, LAMBDA pair : pair[1])
    IN  IF k = 0 THEN None ELSE chain[k][2]

\* The output a set of devices stands for, in the order of both branches.
Kind(devices) ==
    FirstOf(<< <<devices \cap {"HEADPHONE", "HEADSET"} # {}, "HEADPHONES">>,
               <<devices \cap AllSco # {}, "BT_SCO">>,
               <<"SPEAKER" \in devices, "SPEAKER">>,
               <<"EARPIECE" \in devices, "EARPIECE">> >>)
VoiceOut == [HEADPHONES |-> "VOICE_HEADPHONES", BT_SCO |-> "VOICE_BT_SCO",
             SPEAKER |-> "VOICE_SPEAKER", EARPIECE |-> "VOICE_EARPIECE"]
VoiceOutWb == [HEADPHONES |-> "VOICE_HEADPHONES_WB", BT_SCO |-> "VOICE_BT_SCO_WB",
               SPEAKER |-> "VOICE_SPEAKER_WB", EARPIECE |-> "VOICE_EARPIECE_WB"]

get_output_snd_device(w, devices) ==
    IF w.mode = "IN_CALL" /\ Kind(devices) # None
    THEN IF Wideband(w) THEN VoiceOutWb[Kind(devices)] ELSE VoiceOut[Kind(devices)]
    ELSE FirstOf(<< <<devices \in {{"HEADPHONE", "SPEAKER"}, {"HEADSET", "SPEAKER"}}, Combo>>,
                    <<Cardinality(devices) = 1, Kind(devices)>> >>)

\* get_input_snd_device during a call; out are the devices of the output.
CallMic(w, out) ==
    LET wb == Wideband(w)
        Wb(narrow, wide) == IF wb THEN wide ELSE narrow
    IN  FirstOf(<<
            <<out = {}, None>>,
            <<out \cap AllSco # {}, Wb("VOICE_BT_SCO_MIC", "VOICE_BT_SCO_MIC_WB")>>,
            <<w.two_mic /\ out \cap {"EARPIECE", "HEADPHONE"} # {},
              Wb("VOICE_EARPIECE_MIC", "VOICE_EARPIECE_MIC_WB")>>,
            <<w.two_mic /\ "SPEAKER" \in out, Wb("VOICE_SPEAKER_MIC", "VOICE_SPEAKER_MIC_WB")>>,
            <<"HEADSET" \in out, Wb("VOICE_HEADSET_MIC", "VOICE_HEADSET_MIC_WB")>>,
            <<TRUE, "VOICE_MIC">> >>)

\* Its branches on the source of the active input s.
SourceMic(s, in, out) ==
    LET talk == s.source \in {"VOICE_COMMUNICATION", "MIC"} /\ s.aec
        rec  == s.source = "VOICE_RECOGNITION"
    IN  FirstOf(<<
            <<s.source = "CAMCORDER" /\ in \cap {"BUILTIN_MIC", "BACK_MIC"} # {}, "CAMCORDER_MIC">>,
            <<rec /\ "BUILTIN_MIC" \in in, "VOICE_REC_MIC">>,
            <<rec /\ "HEADSET_MIC" \in in, "VOICE_REC_HEADSET_MIC">>,
            <<talk /\ "BACK_MIC" \in in, "SPEAKER_MIC_AEC">>,
            <<talk /\ "BUILTIN_MIC" \in in /\ "HEADPHONE" \in out, "SPEAKER_MIC_AEC">>,
            <<talk /\ "BUILTIN_MIC" \in in, "EARPIECE_MIC_AEC">>,
            <<talk /\ "HEADSET_MIC" \in in, "HEADSET_MIC_AEC">> >>)

\* Its last part: by the input device or, when there is none, by the output's.
PlainMic(in, out) ==
    FirstOf(<<
        <<"BUILTIN_MIC" \in in, "EARPIECE_MIC">>, <<"BACK_MIC" \in in, "SPEAKER_MIC">>,
        <<"HEADSET_MIC" \in in, "HEADSET_MIC">>,  <<"SCO_MIC" \in in, "BT_SCO_MIC">>,
        <<in # {}, "EARPIECE_MIC">>,
        <<"EARPIECE" \in out, "EARPIECE_MIC">>,   <<"HEADSET" \in out, "HEADSET_MIC">>,
        <<"SPEAKER" \in out, "SPEAKER_MIC">>,     <<"HEADPHONE" \in out, "EARPIECE_MIC">>,
        <<"SCO_HEADSET" \in out, "BT_SCO_MIC">>,  <<TRUE, "EARPIECE_MIC">> >>)

\* s is the stream of the first capture or voice call usecase.
get_input_snd_device(w, s, out) ==
    LET in == IF s.source \in {"VOICE_COMMUNICATION", "MIC"} /\ "SPEAKER" \in out
              THEN {"BACK_MIC"} ELSE s.devices
    IN  IF w.mode = "IN_CALL" THEN CallMic(w, out)
        ELSE FirstOf(<< <<s.source = "DEFAULT", None>>,
                        <<SourceMic(s, in, out) # None, SourceMic(s, in, out)>>,
                        <<TRUE, PlainMic(in, out)>> >>)

-----------------------------------------------------------------------------
\* The devices a sound device is counted as: the combined one counts as two.
Parts(d) == IF d = Combo THEN {"SPEAKER", "HEADPHONES"} ELSE {d}

\* One device gains a user; its first one applies the mixer path of usecase u.
EnablePart(w, u, d) ==
    LET more == [w EXCEPT !.snd_dev_ref_cnt[d] = @ + 1]
    IN  IF w.snd_dev_ref_cnt[d] = 0 /\ u.mixer
        THEN [more EXCEPT !.paths = @ \cup {PathName(d)}]
        ELSE more
enable_snd_device(w, u, d) ==
    IF d = Combo THEN EnablePart(EnablePart(w, u, "SPEAKER"), u, "HEADPHONES")
    ELSE EnablePart(w, u, d)

\* The path of the first playback usecase is applied again when the last user of an
\* input device beyond the first one goes.
Cycled(w, d) ==
    LET k == get_usecase_from_type(w, {"PCM_PLAYBACK"})
    IN  IF d \in InSndDevices \ {"EARPIECE_MIC"} /\ k # 0 /\ w.uses[k].out # None
        THEN {PathName(w.uses[k].out)} ELSE {}
\* (mutant) every user that goes resets the path, the last one or not.
DisablePart_Eager(w, u, d) ==
    IF d = None \/ w.snd_dev_ref_cnt[d] <= 0 THEN w
    ELSE [w EXCEPT !.snd_dev_ref_cnt[d] = @ - 1,
                   !.paths = (@ \ {PathName(d)}) \cup Cycled(w, d)]
DisablePart(w, u, d) ==
    IF d = None \/ w.snd_dev_ref_cnt[d] <= 0 THEN w
    ELSE LET less == [w EXCEPT !.snd_dev_ref_cnt[d] = @ - 1]
         IN  IF w.snd_dev_ref_cnt[d] = 1 /\ u.mixer
             THEN [less EXCEPT !.paths = (@ \ {PathName(d)}) \cup Cycled(w, d)]
             ELSE less
disable_snd_device(w, u, d) ==
    IF d = Combo THEN DisablePart(DisablePart(w, u, "SPEAKER"), u, "HEADPHONES")
    ELSE DisablePart(w, u, d)

\* The body of the loop: usecase u moves to device d if it is another one of the type.
SwitchUsecase(w, u, id, type, d) ==
    LET dir == IF type = "PCM_PLAYBACK" THEN "out" ELSE "in"
    IN  IF u.type # type \/ u.id = id \/ u[dir] = d THEN w
        ELSE SetDevice(enable_snd_device(disable_snd_device(w, u, u[dir]), u, d), u.id, dir, d)
\* (mutant) the other usecases stay where they are.
check_and_route_usecases_Skipped(w, id, type, d) == w
\* after[k] is the HAL when the first k usecases of the list have been looked at.
check_and_route_usecases(w, id, type, d) ==
    LET after[k \in 0..Len(w.uses)] ==
            IF k = 0 THEN w ELSE SwitchUsecase(after[k - 1], w.uses[k], id, type, d)
    IN  after[Len(w.uses)]

\* set_voice_session_audio_path: the modem is told the devices of the session.
\* A set of more than one device is taken for the earpiece.
ModemPath(devices) == IF Cardinality(devices) = 1 THEN devices ELSE {"EARPIECE"}
SetModemPath(w) == IF w.in_call THEN [w EXCEPT !.modem_path = ModemPath(w.session)] ELSE w

\* The second half of select_devices: usecase id goes to devices out and in.
Route(w, id, out, in) ==
    LET u  == Usecase(w, id)
        w1 == disable_snd_device(disable_snd_device(w, u, u.out), u, u.in)
        w2 == IF out = None THEN w1
              ELSE enable_snd_device(
                       check_and_route_usecases(SetModemPath(w1), id, "PCM_PLAYBACK", out), u, out)
        w3 == IF in = None THEN w2
              ELSE enable_snd_device(check_and_route_usecases(w2, id, "PCM_CAPTURE", in), u, in)
    IN  IF out = u.out /\ in = u.in THEN w
        ELSE SetDevice(SetDevice(w3, id, "in", in), id, "out", out)

\* The stream the code takes for the active input.  A voice call that is listed
\* before any capture yields the primary output read as an input: junk.
NoStream == [source |-> "DEFAULT", devices |-> {}, aec |-> FALSE]
ActiveInput(w, junk) ==
    LET k == get_usecase_from_type(w, {"PCM_CAPTURE", "VOICE_CALL"})
    IN  CASE k = 0 -> NoStream
          [] k # 0 /\ w.uses[k].type = "PCM_CAPTURE" -> w.in[w.uses[k].stream]
          [] k # 0 /\ w.uses[k].type = "VOICE_CALL" -> junk

\* select_devices for a capture usecase.
SelectCapture(w, junk) ==
    LET s  == ActiveInput(w, junk)
        vc == IF w.in_call THEN Usecase(w, "VOICE_CALL").in ELSE None
        talking == s.source = "VOICE_COMMUNICATION" /\ ~w.out[Primary].standby
    IN  Route(w, "CAPTURE", None,
              IF vc # None THEN vc
              ELSE get_input_snd_device(w, s, IF talking THEN w.out[Primary].devices ELSE {}))

\* For a playback usecase: a voice communication input is selected anew first.
SelectPlayback(w, o, junk) ==
    LET vc  == IF w.in_call THEN Usecase(w, "VOICE_CALL").out ELSE None
        s   == ActiveInput(w, junk)
        own == get_output_snd_device(w, w.out[o].devices)
        again == o = Primary /\ s.source = "VOICE_COMMUNICATION" /\ Listed(w, "CAPTURE")
    IN  IF vc # None THEN Route(w, o, vc, None)
        ELSE Route(IF again THEN SelectCapture(w, junk) ELSE w, o, own, None)

\* For the voice call, after prepare_voice_session.
SelectVoice(w, junk) ==
    LET devices == w.out[Primary].devices
        v == [w EXCEPT !.session = devices,
                       !.two_mic = devices \in {{"EARPIECE"}, {"SPEAKER"}}]
    IN  Route(v, "VOICE_CALL", get_output_snd_device(v, devices),
              get_input_snd_device(v, ActiveInput(v, junk), devices))

=============================================================================
