---------------------------- MODULE RilContract ----------------------------
(***************************************************************************)
(* The interface between libril and the vendor library as ril.h declares   *)
(* it, request by request: what "data" is and what a successful "response" *)
(* is.  It is what the vendor library is written against; the code of      *)
(* ril_service.cpp is in RilRequestTable, RilResponseTable and             *)
(* RilIndicationTable.                                                     *)
(***************************************************************************)
EXTENDS RilResponseTable

\* A type and the numbers of elements that are allowed; 0 elements is NULL.
Data(unit, counts) == [unit |-> unit, counts |-> counts]
NoData == Data("NULL", {0})
One(unit) == Data(unit, {1})
Many(unit) == Data(unit, 0..MaxCount)
IntsOf(k) == Data("int", {k})
StringsOf(k) == Data("char*", {k})

Doc(data, answer) == [data |-> data, answer |-> answer]
\* A request with neither data nor response.
Plain == Doc(NoData, NoData)
\* A request that is only told something.
Tell(data) == Doc(data, NoData)
\* A request that only asks for something.
Ask(answer) == Doc(NoData, answer)

-----------------------------------------------------------------------------
(* The requests, in the order of ril.h.                                    *)

\* GET_SIM_STATUS to ENTER_SIM_PUK2.
Requests1 ==
    "GET_SIM_STATUS" :> Ask(One("RIL_CardStatus_v6")) @@
    For({"ENTER_SIM_PIN", "ENTER_SIM_PIN2"}, Doc(StringsOf(2), IntsOf(1))) @@
    For({"ENTER_SIM_PUK", "ENTER_SIM_PUK2"}, Doc(StringsOf(3), IntsOf(1)))

\* CHANGE_SIM_PIN to DIAL.
Requests2 ==
    For({"CHANGE_SIM_PIN", "CHANGE_SIM_PIN2"}, Doc(StringsOf(3), IntsOf(1))) @@
    "ENTER_NETWORK_DEPERSONALIZATION" :> Doc(StringsOf(1), IntsOf(1)) @@
    "GET_CURRENT_CALLS" :> Ask(Many("RIL_Call*")) @@
    "DIAL" :> Tell(One("RIL_Dial"))

\* GET_IMSI to SWITCH_WAITING_OR_HOLDING_AND_ACTIVE.
Requests3 ==
    "GET_IMSI" :> Doc(StringsOf(1), One("char")) @@
    "HANGUP" :> Tell(IntsOf(1)) @@
    For({"HANGUP_WAITING_OR_BACKGROUND", "HANGUP_FOREGROUND_RESUME_BACKGROUND",
         "SWITCH_WAITING_OR_HOLDING_AND_ACTIVE"}, Plain)

\* CONFERENCE to VOICE_REGISTRATION_STATE.
Requests4 ==
    For({"CONFERENCE", "UDUB"}, Plain) @@
    "LAST_CALL_FAIL_CAUSE" :> Ask(One("RIL_LastCallFailCauseInfo")) @@
    "SIGNAL_STRENGTH" :> Ask(One("RIL_SignalStrength")) @@
    "VOICE_REGISTRATION_STATE" :> Ask(One("RIL_VoiceRegistrationStateResponse"))

\* DATA_REGISTRATION_STATE to DTMF.
Requests5 ==
    "DATA_REGISTRATION_STATE" :> Ask(One("RIL_DataRegistrationStateResponse")) @@
    "OPERATOR" :> Ask(StringsOf(3)) @@
    "RADIO_POWER" :> Tell(IntsOf(1)) @@
    "DTMF" :> Tell(One("char"))

\* SEND_SMS to SEND_SMS_EXPECT_MORE.
Requests6 ==
    For({"SEND_SMS", "SEND_SMS_EXPECT_MORE"},
        Doc(StringsOf(2), One("RIL_SMS_Response")))

\* SETUP_DATA_CALL to SIM_IO.
Requests7 ==
    "SETUP_DATA_CALL" :> Doc(StringsOf(15), One("RIL_Data_Call_Response")) @@
    "SIM_IO" :> Doc(One("RIL_SIM_IO_v6"), One("RIL_SIM_IO_Response"))

\* SEND_USSD to SET_CLIR.
Requests8 ==
    "SEND_USSD" :> Tell(One("char")) @@
    "CANCEL_USSD" :> Plain @@
    "GET_CLIR" :> Ask(IntsOf(2)) @@
    "SET_CLIR" :> Tell(IntsOf(1))

\* QUERY_CALL_FORWARD_STATUS to SET_CALL_WAITING.
Requests9 ==
    "QUERY_CALL_FORWARD_STATUS" :> Doc(One("RIL_CallForwardInfo"), Many("RIL_CallForwardInfo*")) @@
    "SET_CALL_FORWARD" :> Tell(One("RIL_CallForwardInfo")) @@
    "QUERY_CALL_WAITING" :> Doc(IntsOf(1), Data("int", {1, 2})) @@
    "SET_CALL_WAITING" :> Tell(IntsOf(2))

\* SMS_ACKNOWLEDGE to DEACTIVATE_DATA_CALL.
Requests10 ==
    "SMS_ACKNOWLEDGE" :> Tell(IntsOf(2)) @@
    For({"GET_IMEI", "GET_IMEISV"}, Ask(One("char"))) @@
    "ANSWER" :> Plain @@
    "DEACTIVATE_DATA_CALL" :> Tell(StringsOf(2))

\* QUERY_FACILITY_LOCK to QUERY_NETWORK_SELECTION_MODE.
Requests11 ==
    "QUERY_FACILITY_LOCK" :> Doc(StringsOf(4), IntsOf(1)) @@
    "SET_FACILITY_LOCK" :> Doc(StringsOf(5), IntsOf(1)) @@
    "CHANGE_BARRING_PASSWORD" :> Tell(StringsOf(3)) @@
    "QUERY_NETWORK_SELECTION_MODE" :> Ask(IntsOf(1))

\* SET_NETWORK_SELECTION_AUTOMATIC to DTMF_START.
Requests12 ==
    "SET_NETWORK_SELECTION_AUTOMATIC" :> Plain @@
    For({"SET_NETWORK_SELECTION_MANUAL", "DTMF_START"}, Tell(One("char"))) @@
    "QUERY_AVAILABLE_NETWORKS" :> Ask(Many("char*[4]"))

\* DTMF_STOP to GET_MUTE.
Requests13 ==
    "DTMF_STOP" :> Plain @@
    "BASEBAND_VERSION" :> Ask(One("char")) @@
    For({"SEPARATE_CONNECTION", "SET_MUTE"}, Tell(IntsOf(1))) @@
    "GET_MUTE" :> Ask(IntsOf(1))

\* QUERY_CLIP to OEM_HOOK_RAW.
Requests14 ==
    For({"QUERY_CLIP", "LAST_DATA_CALL_FAIL_CAUSE"}, Ask(IntsOf(1))) @@
    "DATA_CALL_LIST" :> Ask(Many("RIL_Data_Call_Response")) @@
    "RESET_RADIO" :> Plain @@
    "OEM_HOOK_RAW" :> Doc(Many("byte"), Data("byte", 1..MaxCount))

\* OEM_HOOK_STRINGS to WRITE_SMS_TO_SIM.
Requests15 ==
    "OEM_HOOK_STRINGS" :> Doc(Many("char*"), Many("char*")) @@
    For({"SCREEN_STATE", "SET_SUPP_SVC_NOTIFICATION"}, Tell(IntsOf(1))) @@
    "WRITE_SMS_TO_SIM" :> Doc(One("RIL_SMS_WriteArgs"), IntsOf(1))

\* DELETE_SMS_ON_SIM to STK_SET_PROFILE.
Requests16 ==
    For({"DELETE_SMS_ON_SIM", "SET_BAND_MODE"}, Tell(IntsOf(1))) @@
    "QUERY_AVAILABLE_BAND_MODE" :> Ask(Data("int", 1..MaxCount)) @@
    "STK_GET_PROFILE" :> Ask(One("char")) @@
    "STK_SET_PROFILE" :> Tell(One("char"))

\* STK_SEND_ENVELOPE_COMMAND to SET_PREFERRED_NETWORK_TYPE.
Requests17 ==
    "STK_SEND_ENVELOPE_COMMAND" :> Doc(One("char"), One("char")) @@
    "STK_SEND_TERMINAL_RESPONSE" :> Tell(One("char")) @@
    For({"STK_HANDLE_CALL_SETUP_REQUESTED_FROM_SIM", "SET_PREFERRED_NETWORK_TYPE"},
        Tell(IntsOf(1))) @@
    "EXPLICIT_CALL_TRANSFER" :> Plain

\* GET_PREFERRED_NETWORK_TYPE to CDMA_SET_ROAMING_PREFERENCE.
Requests18 ==
    "GET_PREFERRED_NETWORK_TYPE" :> Ask(IntsOf(1)) @@
    "GET_NEIGHBORING_CELL_IDS" :> Ask(Many("RIL_NeighboringCell*")) @@
    For({"SET_LOCATION_UPDATES", "CDMA_SET_SUBSCRIPTION_SOURCE",
         "CDMA_SET_ROAMING_PREFERENCE"}, Tell(IntsOf(1)))

\* CDMA_QUERY_ROAMING_PREFERENCE to CDMA_QUERY_PREFERRED_VOICE_PRIVACY_MODE.
Requests19 ==
    For({"CDMA_QUERY_ROAMING_PREFERENCE", "QUERY_TTY_MODE",
         "CDMA_QUERY_PREFERRED_VOICE_PRIVACY_MODE"}, Ask(IntsOf(1))) @@
    For({"SET_TTY_MODE", "CDMA_SET_PREFERRED_VOICE_PRIVACY_MODE"}, Tell(IntsOf(1)))

\* CDMA_FLASH to CDMA_SEND_SMS.
Requests20 ==
    For({"CDMA_FLASH", "CDMA_VALIDATE_AND_WRITE_AKEY"}, Tell(One("char"))) @@
    "CDMA_BURST_DTMF" :> Tell(StringsOf(3)) @@
    "CDMA_SEND_SMS" :> Doc(One("RIL_CDMA_SMS_Message"), One("RIL_SMS_Response"))

\* CDMA_SMS_ACKNOWLEDGE to CDMA_GET_BROADCAST_SMS_CONFIG.
Requests21 ==
    "CDMA_SMS_ACKNOWLEDGE" :> Tell(One("RIL_CDMA_SMS_Ack")) @@
    "GSM_GET_BROADCAST_SMS_CONFIG" :> Ask(Many("RIL_GSM_BroadcastSmsConfigInfo*")) @@
    "GSM_SET_BROADCAST_SMS_CONFIG" :> Tell(Many("RIL_GSM_BroadcastSmsConfigInfo*")) @@
    "GSM_SMS_BROADCAST_ACTIVATION" :> Tell(IntsOf(1)) @@
    "CDMA_GET_BROADCAST_SMS_CONFIG" :> Ask(Many("RIL_CDMA_BroadcastSmsConfigInfo*"))

\* CDMA_SET_BROADCAST_SMS_CONFIG to CDMA_WRITE_SMS_TO_RUIM.
Requests22 ==
    "CDMA_SET_BROADCAST_SMS_CONFIG" :> Tell(Many("RIL_CDMA_BroadcastSmsConfigInfo*")) @@
    "CDMA_SMS_BROADCAST_ACTIVATION" :> Tell(IntsOf(1)) @@
    "CDMA_SUBSCRIPTION" :> Ask(StringsOf(5)) @@
    "CDMA_WRITE_SMS_TO_RUIM" :> Doc(One("RIL_CDMA_SMS_WriteArgs"), IntsOf(1))

\* CDMA_DELETE_SMS_ON_RUIM to SET_SMSC_ADDRESS.
Requests23 ==
    "CDMA_DELETE_SMS_ON_RUIM" :> Tell(IntsOf(1)) @@
    "DEVICE_IDENTITY" :> Ask(StringsOf(4)) @@
    "EXIT_EMERGENCY_CALLBACK_MODE" :> Plain @@
    "GET_SMSC_ADDRESS" :> Ask(One("char")) @@
    "SET_SMSC_ADDRESS" :> Tell(One("char"))

\* REPORT_SMS_MEMORY_STATUS to ACKNOWLEDGE_INCOMING_GSM_SMS_WITH_PDU.
Requests24 ==
    "REPORT_SMS_MEMORY_STATUS" :> Tell(IntsOf(1)) @@
    "REPORT_STK_SERVICE_IS_RUNNING" :> Plain @@
    "CDMA_GET_SUBSCRIPTION_SOURCE" :> Ask(IntsOf(1)) @@
    "ISIM_AUTHENTICATION" :> Doc(One("char"), One("char")) @@
    "ACKNOWLEDGE_INCOMING_GSM_SMS_WITH_PDU" :> Tell(StringsOf(2))

\* STK_SEND_ENVELOPE_WITH_STATUS to SET_INITIAL_ATTACH_APN.
Requests25 ==
    "STK_SEND_ENVELOPE_WITH_STATUS" :> Doc(One("char"), One("RIL_SIM_IO_Response")) @@
    "VOICE_RADIO_TECH" :> Ask(IntsOf(1)) @@
    "GET_CELL_INFO_LIST" :> Ask(Many("RIL_CellInfo_v12")) @@
    "SET_UNSOL_CELL_INFO_LIST_RATE" :> Tell(IntsOf(1)) @@
    "SET_INITIAL_ATTACH_APN" :> Tell(StringsOf(5))

\* IMS_REGISTRATION_STATE to SIM_CLOSE_CHANNEL.
Requests26 ==
    "IMS_REGISTRATION_STATE" :> Ask(Data("int", {1, 2})) @@
    "IMS_SEND_SMS" :> Doc(One("RIL_IMS_SMS_Message"), One("RIL_SMS_Response")) @@
    "SIM_TRANSMIT_APDU_BASIC" :> Doc(One("RIL_SIM_APDU"), One("RIL_SIM_IO_Response")) @@
    "SIM_OPEN_CHANNEL" :> Doc(One("RIL_OpenChannelParams"), Data("int", 1..MaxCount)) @@
    "SIM_CLOSE_CHANNEL" :> Tell(IntsOf(1))

\* SIM_TRANSMIT_APDU_CHANNEL to ALLOW_DATA.
Requests27 ==
    "SIM_TRANSMIT_APDU_CHANNEL" :> Doc(One("RIL_SIM_APDU"), One("RIL_SIM_IO_Response")) @@
    "NV_READ_ITEM" :> Doc(One("RIL_NV_ReadItem"), One("char")) @@
    "NV_WRITE_ITEM" :> Tell(One("RIL_NV_WriteItem")) @@
    "NV_WRITE_CDMA_PRL" :> Tell(Many("byte")) @@
    For({"NV_RESET_CONFIG", "ALLOW_DATA"}, Tell(IntsOf(1))) @@
    "SET_UICC_SUBSCRIPTION" :> Tell(One("RIL_SelectUiccSub"))

\* GET_HARDWARE_CONFIG to SHUTDOWN.
Requests28 ==
    "GET_HARDWARE_CONFIG" :> Ask(Many("RIL_HardwareConfig")) @@
    "SIM_AUTHENTICATION" :> Doc(One("RIL_SimAuthentication"), One("RIL_SIM_IO_Response")) @@
    "GET_DC_RT_INFO" :> Ask(One("RIL_DcRtInfo")) @@
    "SET_DC_RT_INFO_RATE" :> Tell(IntsOf(1)) @@
    "SET_DATA_PROFILE" :> Tell(Many("RIL_DataProfileInfo*")) @@
    "SHUTDOWN" :> Plain

\* GET_RADIO_CAPABILITY to GET_ACTIVITY_INFO.
Requests29 ==
    For({"GET_RADIO_CAPABILITY", "SET_RADIO_CAPABILITY"},
        Doc(One("RIL_RadioCapability"), One("RIL_RadioCapability"))) @@
    "START_LCE" :> Doc(IntsOf(2), One("RIL_LceStatusInfo")) @@
    "STOP_LCE" :> Ask(One("RIL_LceStatusInfo")) @@
    "PULL_LCEDATA" :> Ask(One("RIL_LceDataInfo")) @@
    "GET_ACTIVITY_INFO" :> Ask(One("RIL_ActivityStatsInfo"))

\* SET_CARRIER_RESTRICTIONS to SET_SIM_CARD_POWER.
Requests30 ==
    "SET_CARRIER_RESTRICTIONS" :> Doc(One("RIL_CarrierRestrictions"), IntsOf(1)) @@
    "GET_CARRIER_RESTRICTIONS" :> Ask(Data("RIL_CarrierRestrictions", {0, 1})) @@
    "SEND_DEVICE_STATE" :> Tell(IntsOf(2)) @@
    For({"SET_UNSOLICITED_RESPONSE_FILTER", "SET_SIM_CARD_POWER"}, Tell(IntsOf(1)))

DocumentedRequests ==
    Requests1 @@ Requests2 @@ Requests3 @@ Requests4 @@ Requests5 @@
    Requests6 @@ Requests7 @@ Requests8 @@ Requests9 @@ Requests10 @@
    Requests11 @@ Requests12 @@ Requests13 @@ Requests14 @@ Requests15 @@
    Requests16 @@ Requests17 @@ Requests18 @@ Requests19 @@ Requests20 @@
    Requests21 @@ Requests22 @@ Requests23 @@ Requests24 @@ Requests25 @@
    Requests26 @@ Requests27 @@ Requests28 @@ Requests29 @@ Requests30

-----------------------------------------------------------------------------
(* The unsolicited codes, in the order of ril.h.                           *)

\* RESPONSE_RADIO_STATE_CHANGED to SIGNAL_STRENGTH.
Unsols1 ==
    For({"RESPONSE_RADIO_STATE_CHANGED", "RESPONSE_CALL_STATE_CHANGED",
         "RESPONSE_VOICE_NETWORK_STATE_CHANGED"}, NoData) @@
    For({"RESPONSE_NEW_SMS", "RESPONSE_NEW_SMS_STATUS_REPORT"},
        Data("char[2]", 1..MaxCount)) @@
    "RESPONSE_NEW_SMS_ON_SIM" :> IntsOf(1) @@
    For({"ON_USSD", "ON_USSD_REQUEST"}, StringsOf(2)) @@
    "NITZ_TIME_RECEIVED" :> Data("char", 1..MaxCount) @@
    "SIGNAL_STRENGTH" :> One("RIL_SignalStrength")

\* DATA_CALL_LIST_CHANGED to RESPONSE_CDMA_NEW_SMS.
Unsols2 ==
    "DATA_CALL_LIST_CHANGED" :> Many("RIL_Data_Call_Response") @@
    "SUPP_SVC_NOTIFICATION" :> One("RIL_SuppSvcNotification") @@
    For({"STK_SESSION_END", "SIM_SMS_STORAGE_FULL", "RESPONSE_SIM_STATUS_CHANGED"},
        NoData) @@
    For({"STK_PROACTIVE_COMMAND", "STK_EVENT_NOTIFY"}, Data("char", 1..MaxCount)) @@
    "STK_CALL_SETUP" :> IntsOf(1) @@
    "SIM_REFRESH" :> IntsOf(2) @@
    "CALL_RING" :> Data("RIL_CDMA_SignalInfoRecord", {0, 1}) @@
    "RESPONSE_CDMA_NEW_SMS" :> One("RIL_CDMA_SMS_Message")

\* RESPONSE_NEW_BROADCAST_SMS to EXIT_EMERGENCY_CALLBACK_MODE.
Unsols3 ==
    For({"RESPONSE_NEW_BROADCAST_SMS", "OEM_HOOK_RAW"}, Data("char", 1..MaxCount)) @@
    For({"CDMA_RUIM_SMS_STORAGE_FULL", "ENTER_EMERGENCY_CALLBACK_MODE",
         "RESEND_INCALL_MUTE", "EXIT_EMERGENCY_CALLBACK_MODE"}, NoData) @@
    For({"RESTRICTED_STATE_CHANGED", "CDMA_OTA_PROVISION_STATUS", "RINGBACK_TONE",
         "CDMA_SUBSCRIPTION_SOURCE_CHANGED", "CDMA_PRL_CHANGED"}, IntsOf(1)) @@
    "CDMA_CALL_WAITING" :> One("RIL_CDMA_CallWaiting_v6") @@
    "CDMA_INFO_REC" :> One("RIL_CDMA_InformationRecords")

\* RIL_CONNECTED to LCEDATA_RECV.
Unsols4 ==
    For({"RIL_CONNECTED", "VOICE_RADIO_TECH_CHANGED",
         "UICC_SUBSCRIPTION_STATUS_CHANGED", "SRVCC_STATE_NOTIFY"}, IntsOf(1)) @@
    "CELL_INFO_LIST" :> Many("RIL_CellInfo_v12") @@
    "RESPONSE_IMS_NETWORK_STATE_CHANGED" :> NoData @@
    "HARDWARE_CONFIG_CHANGED" :> Many("RIL_HardwareConfig") @@
    "DC_RT_INFO_CHANGED" :> One("RIL_DcRtInfo") @@
    "RADIO_CAPABILITY" :> One("RIL_RadioCapability") @@
    "ON_SS" :> One("RIL_StkCcUnsolSsResponse") @@
    "STK_CC_ALPHA_NOTIFY" :> Data("char", 1..MaxCount) @@
    "LCEDATA_RECV" :> One("RIL_LceDataInfo")

\* PCO_DATA to MODEM_RESTART.
Unsols5 ==
    "PCO_DATA" :> One("RIL_PCO_Data") @@
    "MODEM_RESTART" :> Data("char", 1..MaxCount)

DocumentedUnsols ==
    Unsols1 @@ Unsols2 @@ Unsols3 @@ Unsols4 @@ Unsols5
=============================================================================
