-------------------------- MODULE RilResponseTable --------------------------
(***************************************************************************)
(* What every response function of ril_service.cpp accepts from the vendor *)
(* library, and s_commands, which says which function answers which        *)
(* request (ril_commands.h).                                               *)
(*                                                                         *)
(* A payload is a pointer and a length.  The length is n elements of the   *)
(* type the function expects, plus, when rem holds, a few bytes that are   *)
(* not a whole element (nor a whole int).  A reader is                     *)
(*   unit      that type                                                   *)
(*   null      what the function does with a NULL pointer: "error", taken  *)
(*             when the length is 0 ("empty"), taken in any case ("any")   *)
(*   accepts   the pairs <<n, rem>> it takes                               *)
(*   reads     how many elements it reads whatever the length says         *)
(* A function that refuses a payload still answers: INVALID_RESPONSE if    *)
(* the vendor library reported success, its own error if not.              *)
(***************************************************************************)
EXTENDS Naturals, TLC

\* Bound on the elements of a payload: one more than the longest minimum, 15.
MaxCount == 16

Lengths == (0..MaxCount) \X BOOLEAN
Whole == (0..MaxCount) \X {FALSE}
From(k) == (k..MaxCount) \X BOOLEAN

Reader(unit, null, accepts, reads) ==
    [unit |-> unit, null |-> null, accepts |-> accepts, reads |-> reads]

For(functions, reader) == [f \in functions |-> reader]

\* populateResponseInfo only: the payload is not looked at.
Ignored == Reader("NULL", "any", Lengths, 0)
\* convertCharPtrToHidlString: a C string; its length is not looked at.
CString == Reader("char", "any", Lengths, 0)
\* responseIntOrEmpty and responseInt: a whole number of ints, and the first is
\* read, also when there is none.
IntOrEmpty == Reader("int", "empty", Whole, 1)
OneInt == Reader("int", "error", Whole, 1)
\* (mutant) Any number of ints is enough.
IntsFrom_AnyNumber(k) == Reader("int", "error", From(1), k)
\* At least k ints or strings; bytes after the last whole one are ignored.
IntsFrom(k) == Reader("int", "error", From(k), k)
Strings(k) == Reader("char*", "error", From(k), k)
\* Exactly one struct, from a vendor library that may also send none.
Struct(unit) == Reader(unit, "error", {<<1, FALSE>>}, 1)
StructOrNull(unit) == Reader(unit, "any", {<<1, FALSE>>}, 1)
\* setupDataCall and iccOpenLogicalChannel: the first of a whole number of
\* elements; NULL means no data call or channel.
FirstOrNull(unit) == Reader(unit, "any", Whole, 1)
\* A list of any whole length, whose elements are read one by one.
List(unit) == Reader(unit, "empty", Whole, 0)
\* The bytes of an OEM answer.
Bytes == Reader("byte", "error", Lengths, 0)
\* getLastCallFailCause: the struct; or a length that is not a multiple of
\* sizeof(int), of which an int is read: the test is the opposite of the others.
FailCause == Reader("RIL_LastCallFailCauseInfo", "error",
                    {<<1, FALSE>>} \cup ((0..MaxCount) \X {TRUE}), 1)

-----------------------------------------------------------------------------
(* The response functions, in the order of ril_service.cpp.                *)

\* The SIM card: status, PIN and PUK retries.
SimStatusResponses ==
    "getIccCardStatus" :> Struct("RIL_CardStatus_v6") @@
    For({"supplyIccPinForApp", "supplyIccPukForApp", "supplyIccPin2ForApp",
         "supplyIccPuk2ForApp"}, IntOrEmpty)

SimPinResponses ==
    For({"changeIccPinForApp", "changeIccPin2ForApp",
         "supplyNetworkDepersonalization"}, IntOrEmpty) @@
    "getCurrentCalls" :> List("RIL_Call*")

\* Calls.
CallResponses ==
    For({"dial", "hangupConnection", "hangupWaitingOrBackground",
         "hangupForegroundResumeBackground", "switchWaitingOrHoldingAndActive",
         "conference"}, Ignored) @@
    "getIMSIForApp" :> CString

CallInfoResponses ==
    "rejectCall" :> Ignored @@
    "getLastCallFailCause" :> FailCause @@
    "getSignalStrength" :> Struct("RIL_SignalStrength")

\* (mutant) Off by one in the version.
RegistrationResponses_Upto15(v) ==
    "getVoiceRegistrationState" :> (IF v <= 15 THEN Strings(15) ELSE Ignored) @@
    "getDataRegistrationState" :> (IF v <= 15 THEN Strings(6) ELSE Ignored)

\* The registration states are strings up to version 14, structs from 15 on.
RegistrationResponses(v) ==
    "getVoiceRegistrationState" :>
        (IF v <= 14 THEN Strings(15)
         ELSE Struct("RIL_VoiceRegistrationStateResponse")) @@
    "getDataRegistrationState" :>
        (IF v <= 14 THEN Strings(6)
         ELSE Struct("RIL_DataRegistrationStateResponse"))

\* Operator, radio power, DTMF and GSM messages.
OperatorResponses ==
    "getOperator" :> Strings(3) @@
    For({"setRadioPower", "sendDtmf"}, Ignored) @@
    For({"sendSms", "sendSMSExpectMore"}, Struct("RIL_SMS_Response"))

\* Data calls, SIM files and USSD.
DataAndIccResponses ==
    "setupDataCall" :> FirstOrNull("RIL_Data_Call_Response") @@
    "iccIOForApp" :> Struct("RIL_SIM_IO_Response") @@
    For({"sendUssd", "cancelPendingUssd"}, Ignored)

\* Supplementary services.
SuppServiceResponses ==
    For({"getClir", "getCallWaiting"}, IntsFrom(2)) @@
    For({"setClir", "setCallForward"}, Ignored) @@
    "getCallForwardStatus" :> List("RIL_CallForwardInfo*")

FacilityResponses ==
    For({"setCallWaiting", "acknowledgeLastIncomingGsmSms", "acceptCall",
         "deactivateDataCall"}, Ignored) @@
    "getFacilityLockForApp" :> OneInt @@
    "setFacilityLockForApp" :> IntOrEmpty

\* Network selection.
NetworkSelectionResponses ==
    For({"setBarringPassword", "setNetworkSelectionModeAutomatic",
         "setNetworkSelectionModeManual"}, Ignored) @@
    "getNetworkSelectionMode" :> OneInt

\* The list of networks is read four strings at a time.
NetworkListResponses ==
    "getAvailableNetworks" :> List("char*[4]") @@
    For({"startDtmf", "stopDtmf"}, Ignored) @@
    "getBasebandVersion" :> CString

MuteResponses ==
    For({"separateConnection", "setMute"}, Ignored) @@
    For({"getMute", "getClip"}, OneInt) @@
    "getDataCallList" :> List("RIL_Data_Call_Response")

\* Messages on the SIM, bands and the SIM toolkit.
SmsStoreResponses ==
    For({"setSuppServiceNotifications", "deleteSmsOnSim", "setBandMode"}, Ignored) @@
    "writeSmsToSim" :> OneInt @@
    "getAvailableBandModes" :> List("int") @@
    "sendEnvelope" :> CString

StkResponses ==
    For({"sendTerminalResponseToSim", "handleStkCallSetupRequestFromSim",
         "explicitCallTransfer", "setPreferredNetworkType"}, Ignored) @@
    "getPreferredNetworkType" :> OneInt

\* Preferences.
PreferenceResponses ==
    "getNeighboringCids" :> List("RIL_NeighboringCell*") @@
    For({"setLocationUpdates", "setCdmaSubscriptionSource",
         "setCdmaRoamingPreference", "setTTYMode"}, Ignored) @@
    "getCdmaRoamingPreference" :> OneInt

PrivacyResponses ==
    "getTTYMode" :> OneInt @@
    "getPreferredVoicePrivacy" :> IntsFrom(1) @@
    For({"setPreferredVoicePrivacy", "sendCDMAFeatureCode", "sendBurstDtmf"}, Ignored) @@
    "sendCdmaSms" :> Struct("RIL_SMS_Response")

\* Cell broadcast.
BroadcastResponses ==
    For({"acknowledgeLastIncomingCdmaSms", "setGsmBroadcastConfig",
         "setGsmBroadcastActivation"}, Ignored) @@
    "getGsmBroadcastConfig" :> List("RIL_GSM_BroadcastSmsConfigInfo*") @@
    "getCdmaBroadcastConfig" :> List("RIL_CDMA_BroadcastSmsConfigInfo*")

\* CDMA administration.
CdmaResponses ==
    For({"setCdmaBroadcastConfig", "setCdmaBroadcastActivation", "deleteSmsOnRuim"}, Ignored) @@
    "getCDMASubscription" :> Strings(5) @@
    "writeSmsToRuim" :> OneInt

DeviceResponses ==
    "getDeviceIdentity" :> Strings(4) @@
    For({"exitEmergencyCallbackMode", "setSmscAddress", "reportSmsMemoryStatus",
         "reportStkServiceIsRunning"}, Ignored) @@
    "getSmscAddress" :> CString

\* Authentication and cells.
CellInfoResponses ==
    For({"getCdmaSubscriptionSource", "getVoiceRadioTechnology"}, OneInt) @@
    "requestIsimAuthentication" :> CString @@
    "acknowledgeIncomingGsmSmsWithPdu" :> Ignored @@
    "sendEnvelopeWithStatus" :> Struct("RIL_SIM_IO_Response") @@
    "getCellInfoList" :> List("RIL_CellInfo_v12")

\* IMS and APDUs.
ImsResponses ==
    For({"setCellInfoListRate", "setInitialAttachApn"}, Ignored) @@
    "getImsRegistrationState" :> IntsFrom(2) @@
    "sendImsSms" :> Struct("RIL_SMS_Response") @@
    "iccTransmitApduBasicChannel" :> Struct("RIL_SIM_IO_Response")

ChannelResponses ==
    "iccOpenLogicalChannel" :> FirstOrNull("int") @@
    For({"iccCloseLogicalChannel", "nvWriteItem", "nvWriteCdmaPrl"}, Ignored) @@
    "iccTransmitApduLogicalChannel" :> Struct("RIL_SIM_IO_Response") @@
    "nvReadItem" :> CString

\* NV items, hardware and authentication.
NvResponses ==
    For({"nvResetConfig", "setUiccSubscription", "setDataAllowed", "setDataProfile"}, Ignored) @@
    "getHardwareConfig" :> List("RIL_HardwareConfig") @@
    "requestIccSimAuthentication" :> Struct("RIL_SIM_IO_Response")

\* Radio capability and link capacity.
CapabilityResponses ==
    "requestShutdown" :> Ignored @@
    For({"getRadioCapability", "setRadioCapability"}, Struct("RIL_RadioCapability")) @@
    For({"startLceService", "stopLceService"}, Struct("RIL_LceStatusInfo"))

CarrierResponses ==
    "pullLceData" :> Struct("RIL_LceDataInfo") @@
    "getModemActivityInfo" :> Struct("RIL_ActivityStatsInfo") @@
    "setAllowedCarriers" :> OneInt @@
    "getAllowedCarriers" :> StructOrNull("RIL_CarrierRestrictions")

\* Device state and IOemHook.
DeviceStateResponses ==
    For({"sendDeviceState", "setIndicationFilter", "setSimCardPower"}, Ignored) @@
    "sendRequestRaw" :> Bytes @@
    "sendRequestStrings" :> List("char*")

-----------------------------------------------------------------------------
FixedResponses ==
    SimStatusResponses @@ SimPinResponses @@ CallResponses @@
    CallInfoResponses @@ OperatorResponses @@ DataAndIccResponses @@
    SuppServiceResponses @@ FacilityResponses @@ NetworkSelectionResponses @@
    NetworkListResponses @@ MuteResponses @@ SmsStoreResponses @@ StkResponses
    @@ PreferenceResponses @@ PrivacyResponses @@ BroadcastResponses @@
    CdmaResponses @@ DeviceResponses @@ CellInfoResponses @@ ImsResponses @@
    ChannelResponses @@ NvResponses @@ CapabilityResponses @@ CarrierResponses
    @@ DeviceStateResponses

ResponsesUpTo14 == FixedResponses @@ RegistrationResponses(14)
ResponsesFrom15 == FixedResponses @@ RegistrationResponses(15)

\* The response functions when the vendor library registered version v.
Responses(v) == IF v < 15 THEN ResponsesUpTo14 ELSE ResponsesFrom15

\* The function the client is called with: its own, except that
\* hangupForegroundResumeBackgroundResponse calls hangupWaitingOrBackgroundResponse.
Callback(f) ==
    IF f = "hangupForegroundResumeBackground"
    THEN "hangupWaitingOrBackground" ELSE f

\* The test at the head of every response function.
Valid(reader, p) ==
    IF p.null
    THEN \/ reader.null = "any"
         \/ reader.null = "empty" /\ p.n = 0 /\ ~p.rem
    ELSE <<p.n, p.rem>> \in reader.accepts

\* responseInfo.error: the vendor's error, or INVALID_RESPONSE in place of success.
ResponseError(reader, e, p) ==
    IF e = "SUCCESS" /\ ~Valid(reader, p) THEN "INVALID_RESPONSE" ELSE e

\* A valid payload whose first elements are read although it is too short.
OverReads(reader, p) == ~p.null /\ Valid(reader, p) /\ p.n < reader.reads

-----------------------------------------------------------------------------
(* s_commands: the function that answers each request.  The requests whose *)
(* entry is NULL are not listed.                                           *)

\* GET_SIM_STATUS to QUERY_CLIP.
CommandsOfSimAndCalls ==
    "GET_SIM_STATUS" :> "getIccCardStatus" @@
    "ENTER_SIM_PIN" :> "supplyIccPinForApp" @@
    "ENTER_SIM_PUK" :> "supplyIccPukForApp" @@
    "ENTER_SIM_PIN2" :> "supplyIccPin2ForApp" @@
    "ENTER_SIM_PUK2" :> "supplyIccPuk2ForApp" @@
    "CHANGE_SIM_PIN" :> "changeIccPinForApp" @@
    "CHANGE_SIM_PIN2" :> "changeIccPin2ForApp" @@
    "ENTER_NETWORK_DEPERSONALIZATION" :> "supplyNetworkDepersonalization" @@
    "GET_CURRENT_CALLS" :> "getCurrentCalls" @@
    "DIAL" :> "dial" @@
    "GET_IMSI" :> "getIMSIForApp" @@
    "HANGUP" :> "hangupConnection" @@
    "HANGUP_WAITING_OR_BACKGROUND" :> "hangupWaitingOrBackground" @@
    "HANGUP_FOREGROUND_RESUME_BACKGROUND" :> "hangupForegroundResumeBackground" @@
    "SWITCH_WAITING_OR_HOLDING_AND_ACTIVE" :> "switchWaitingOrHoldingAndActive" @@
    "CONFERENCE" :> "conference" @@
    "UDUB" :> "rejectCall" @@
    "LAST_CALL_FAIL_CAUSE" :> "getLastCallFailCause" @@
    "SIGNAL_STRENGTH" :> "getSignalStrength" @@
    "VOICE_REGISTRATION_STATE" :> "getVoiceRegistrationState" @@
    "DATA_REGISTRATION_STATE" :> "getDataRegistrationState" @@
    "OPERATOR" :> "getOperator" @@
    "RADIO_POWER" :> "setRadioPower" @@
    "DTMF" :> "sendDtmf" @@
    "SEND_SMS" :> "sendSms" @@
    "SEND_SMS_EXPECT_MORE" :> "sendSMSExpectMore" @@
    "SETUP_DATA_CALL" :> "setupDataCall" @@
    "SIM_IO" :> "iccIOForApp" @@
    "SEND_USSD" :> "sendUssd" @@
    "CANCEL_USSD" :> "cancelPendingUssd" @@
    "GET_CLIR" :> "getClir" @@
    "SET_CLIR" :> "setClir" @@
    "QUERY_CALL_FORWARD_STATUS" :> "getCallForwardStatus" @@
    "SET_CALL_FORWARD" :> "setCallForward" @@
    "QUERY_CALL_WAITING" :> "getCallWaiting" @@
    "SET_CALL_WAITING" :> "setCallWaiting" @@
    "SMS_ACKNOWLEDGE" :> "acknowledgeLastIncomingGsmSms" @@
    "ANSWER" :> "acceptCall" @@
    "DEACTIVATE_DATA_CALL" :> "deactivateDataCall" @@
    "QUERY_FACILITY_LOCK" :> "getFacilityLockForApp" @@
    "SET_FACILITY_LOCK" :> "setFacilityLockForApp" @@
    "CHANGE_BARRING_PASSWORD" :> "setBarringPassword" @@
    "QUERY_NETWORK_SELECTION_MODE" :> "getNetworkSelectionMode" @@
    "SET_NETWORK_SELECTION_AUTOMATIC" :> "setNetworkSelectionModeAutomatic" @@
    "SET_NETWORK_SELECTION_MANUAL" :> "setNetworkSelectionModeManual" @@
    "QUERY_AVAILABLE_NETWORKS" :> "getAvailableNetworks" @@
    "DTMF_START" :> "startDtmf" @@
    "DTMF_STOP" :> "stopDtmf" @@
    "BASEBAND_VERSION" :> "getBasebandVersion" @@
    "SEPARATE_CONNECTION" :> "separateConnection" @@
    "SET_MUTE" :> "setMute" @@
    "GET_MUTE" :> "getMute" @@
    "QUERY_CLIP" :> "getClip"

\* LAST_DATA_CALL_FAIL_CAUSE to DEVICE_IDENTITY.
CommandsOfDataAndCdma ==
    "DATA_CALL_LIST" :> "getDataCallList" @@
    "OEM_HOOK_RAW" :> "sendRequestRaw" @@
    "OEM_HOOK_STRINGS" :> "sendRequestStrings" @@
    "SCREEN_STATE" :> "sendDeviceState" @@
    "SET_SUPP_SVC_NOTIFICATION" :> "setSuppServiceNotifications" @@
    "WRITE_SMS_TO_SIM" :> "writeSmsToSim" @@
    "DELETE_SMS_ON_SIM" :> "deleteSmsOnSim" @@
    "SET_BAND_MODE" :> "setBandMode" @@
    "QUERY_AVAILABLE_BAND_MODE" :> "getAvailableBandModes" @@
    "STK_SEND_ENVELOPE_COMMAND" :> "sendEnvelope" @@
    "STK_SEND_TERMINAL_RESPONSE" :> "sendTerminalResponseToSim" @@
    "STK_HANDLE_CALL_SETUP_REQUESTED_FROM_SIM" :> "handleStkCallSetupRequestFromSim" @@
    "EXPLICIT_CALL_TRANSFER" :> "explicitCallTransfer" @@
    "SET_PREFERRED_NETWORK_TYPE" :> "setPreferredNetworkType" @@
    "GET_PREFERRED_NETWORK_TYPE" :> "getPreferredNetworkType" @@
    "GET_NEIGHBORING_CELL_IDS" :> "getNeighboringCids" @@
    "SET_LOCATION_UPDATES" :> "setLocationUpdates" @@
    "CDMA_SET_SUBSCRIPTION_SOURCE" :> "setCdmaSubscriptionSource" @@
    "CDMA_SET_ROAMING_PREFERENCE" :> "setCdmaRoamingPreference" @@
    "CDMA_QUERY_ROAMING_PREFERENCE" :> "getCdmaRoamingPreference" @@
    "SET_TTY_MODE" :> "setTTYMode" @@
    "QUERY_TTY_MODE" :> "getTTYMode" @@
    "CDMA_SET_PREFERRED_VOICE_PRIVACY_MODE" :> "setPreferredVoicePrivacy" @@
    "CDMA_QUERY_PREFERRED_VOICE_PRIVACY_MODE" :> "getPreferredVoicePrivacy" @@
    "CDMA_FLASH" :> "sendCDMAFeatureCode" @@
    "CDMA_BURST_DTMF" :> "sendBurstDtmf" @@
    "CDMA_SEND_SMS" :> "sendCdmaSms" @@
    "CDMA_SMS_ACKNOWLEDGE" :> "acknowledgeLastIncomingCdmaSms" @@
    "GSM_GET_BROADCAST_SMS_CONFIG" :> "getGsmBroadcastConfig" @@
    "GSM_SET_BROADCAST_SMS_CONFIG" :> "setGsmBroadcastConfig" @@
    "GSM_SMS_BROADCAST_ACTIVATION" :> "setGsmBroadcastActivation" @@
    "CDMA_GET_BROADCAST_SMS_CONFIG" :> "getCdmaBroadcastConfig" @@
    "CDMA_SET_BROADCAST_SMS_CONFIG" :> "setCdmaBroadcastConfig" @@
    "CDMA_SMS_BROADCAST_ACTIVATION" :> "setCdmaBroadcastActivation" @@
    "CDMA_SUBSCRIPTION" :> "getCDMASubscription" @@
    "CDMA_WRITE_SMS_TO_RUIM" :> "writeSmsToRuim" @@
    "CDMA_DELETE_SMS_ON_RUIM" :> "deleteSmsOnRuim" @@
    "DEVICE_IDENTITY" :> "getDeviceIdentity"

\* EXIT_EMERGENCY_CALLBACK_MODE to SET_SIM_CARD_POWER.
CommandsOfDevice ==
    "EXIT_EMERGENCY_CALLBACK_MODE" :> "exitEmergencyCallbackMode" @@
    "GET_SMSC_ADDRESS" :> "getSmscAddress" @@
    "SET_SMSC_ADDRESS" :> "setSmscAddress" @@
    "REPORT_SMS_MEMORY_STATUS" :> "reportSmsMemoryStatus" @@
    "REPORT_STK_SERVICE_IS_RUNNING" :> "reportStkServiceIsRunning" @@
    "CDMA_GET_SUBSCRIPTION_SOURCE" :> "getCdmaSubscriptionSource" @@
    "ISIM_AUTHENTICATION" :> "requestIsimAuthentication" @@
    "ACKNOWLEDGE_INCOMING_GSM_SMS_WITH_PDU" :> "acknowledgeIncomingGsmSmsWithPdu" @@
    "STK_SEND_ENVELOPE_WITH_STATUS" :> "sendEnvelopeWithStatus" @@
    "VOICE_RADIO_TECH" :> "getVoiceRadioTechnology" @@
    "GET_CELL_INFO_LIST" :> "getCellInfoList" @@
    "SET_UNSOL_CELL_INFO_LIST_RATE" :> "setCellInfoListRate" @@
    "SET_INITIAL_ATTACH_APN" :> "setInitialAttachApn" @@
    "IMS_REGISTRATION_STATE" :> "getImsRegistrationState" @@
    "IMS_SEND_SMS" :> "sendImsSms" @@
    "SIM_TRANSMIT_APDU_BASIC" :> "iccTransmitApduBasicChannel" @@
    "SIM_OPEN_CHANNEL" :> "iccOpenLogicalChannel" @@
    "SIM_CLOSE_CHANNEL" :> "iccCloseLogicalChannel" @@
    "SIM_TRANSMIT_APDU_CHANNEL" :> "iccTransmitApduLogicalChannel" @@
    "NV_READ_ITEM" :> "nvReadItem" @@
    "NV_WRITE_ITEM" :> "nvWriteItem" @@
    "NV_WRITE_CDMA_PRL" :> "nvWriteCdmaPrl" @@
    "NV_RESET_CONFIG" :> "nvResetConfig" @@
    "SET_UICC_SUBSCRIPTION" :> "setUiccSubscription" @@
    "ALLOW_DATA" :> "setDataAllowed" @@
    "GET_HARDWARE_CONFIG" :> "getHardwareConfig" @@
    "SIM_AUTHENTICATION" :> "requestIccSimAuthentication" @@
    "SET_DATA_PROFILE" :> "setDataProfile" @@
    "SHUTDOWN" :> "requestShutdown" @@
    "GET_RADIO_CAPABILITY" :> "getRadioCapability" @@
    "SET_RADIO_CAPABILITY" :> "setRadioCapability" @@
    "START_LCE" :> "startLceService" @@
    "STOP_LCE" :> "stopLceService" @@
    "PULL_LCEDATA" :> "pullLceData" @@
    "GET_ACTIVITY_INFO" :> "getModemActivityInfo" @@
    "SET_CARRIER_RESTRICTIONS" :> "setAllowedCarriers" @@
    "GET_CARRIER_RESTRICTIONS" :> "getAllowedCarriers" @@
    "SEND_DEVICE_STATE" :> "sendDeviceState" @@
    "SET_UNSOLICITED_RESPONSE_FILTER" :> "setIndicationFilter" @@
    "SET_SIM_CARD_POWER" :> "setSimCardPower"

s_commands ==
    CommandsOfSimAndCalls @@ CommandsOfDataAndCdma @@ CommandsOfDevice
=============================================================================
