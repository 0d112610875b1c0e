------------------------------ MODULE MCAudioHw ------------------------------
EXTENDS AudioHw
MCModes == {"NORMAL", "IN_CALL"}
MCSources == {"VOICE_COMMUNICATION"}
MCOutDevices == {{"SPEAKER", "HEADPHONE"}, {"SCO_HEADSET"}}
MCInDevices == {{"BUILTIN_MIC"}}
=============================================================================
