------------------------- MODULE RilIndicationTable -------------------------
(***************************************************************************)
(* The indication functions of ril_service.cpp as readers of a payload     *)
(* (RilResponseTable), and s_unsolResponses (ril_unsol_commands.h): which  *)
(* function handles which code.  A function that refuses its payload       *)
(* returns without calling the client.                                     *)
(***************************************************************************)
EXTENDS RilResponseTable

\* Any bytes at all, but at least one.
NonEmpty == Reader("char", "error", Lengths \ {<<0, FALSE>>}, 0)
\* convertHexStringToBytes: a whole number of pairs of digits, at least one.
HexDigits == Reader("char[2]", "error", (1..MaxCount) \X {FALSE}, 0)
\* (mutant) Nothing is refused.
EmptyOrStruct_NeedsStruct(unit) == Reader(unit, "error", {<<1, FALSE>>}, 0)
\* Nothing, or exactly one struct.
EmptyOrStruct(unit) == Reader(unit, "any", {<<0, FALSE>>, <<1, FALSE>>}, 0)

-----------------------------------------------------------------------------
(* The indication functions, in the order of ril_service.cpp.              *)

\* State changes; the two message indications are hexadecimal PDUs.
StateIndications ==
    For({"radioStateChanged", "callStateChanged", "networkStateChanged"}, Ignored) @@
    For({"newSms", "newSmsStatusReport"}, HexDigits)

MessageIndications ==
    "newSmsOnSim" :> OneInt @@
    "onUssd" :> Strings(2) @@
    "nitzTimeReceived" :> NonEmpty

\* Only the sizes of version 8 and 10 are taken here.
SignalIndications ==
    "currentSignalStrength" :> Struct("RIL_SignalStrength")

StkIndications ==
    "dataCallListChanged" :> List("RIL_Data_Call_Response") @@
    "suppSvcNotify" :> Struct("RIL_SuppSvcNotification") @@
    "stkSessionEnd" :> Ignored @@
    For({"stkProactiveCommand", "stkEventNotify"}, NonEmpty) @@
    "stkCallSetup" :> OneInt

\* callRing: no data is a GSM call, a struct a CDMA call.
SimIndications ==
    For({"simSmsStorageFull", "simStatusChanged"}, Ignored) @@
    "simRefresh" :> Struct("RIL_SimRefreshResponse_v7") @@
    "callRing" :> EmptyOrStruct("RIL_CDMA_SignalInfoRecord") @@
    "cdmaNewSms" :> Struct("RIL_CDMA_SMS_Message")

CdmaIndications ==
    "newBroadcastSms" :> NonEmpty @@
    For({"cdmaRuimSmsStorageFull", "enterEmergencyCallbackMode"}, Ignored) @@
    For({"restrictedStateChanged", "cdmaOtaProvisionStatus"}, OneInt) @@
    "cdmaCallWaiting" :> Struct("RIL_CDMA_CallWaiting_v6")

\* A record of an unknown kind, or one whose text is too long, drops them all.
InfoRecIndications ==
    "cdmaInfoRec" :> Struct("RIL_CDMA_InformationRecords")

CallIndications ==
    For({"indicateRingbackTone", "cdmaSubscriptionSourceChanged",
         "cdmaPrlChanged", "voiceRadioTechChanged"}, OneInt) @@
    For({"resendIncallMute", "exitEmergencyCallbackMode", "rilConnected"}, Ignored)

NetworkIndications ==
    "cellInfoList" :> List("RIL_CellInfo_v12") @@
    "imsNetworkStateChanged" :> Ignored @@
    For({"subscriptionStatusChanged", "srvccStateNotify"}, OneInt)

HardwareIndications ==
    "hardwareConfigChanged" :> List("RIL_HardwareConfig") @@
    "radioCapabilityIndication" :> Struct("RIL_RadioCapability")

SsIndications ==
    "onSupplementaryServiceIndication" :> Struct("RIL_StkCcUnsolSsResponse") @@
    "stkCallControlAlphaNotify" :> NonEmpty

ModemIndications ==
    "lceData" :> Struct("RIL_LceDataInfo") @@
    "pcoData" :> Struct("RIL_PCO_Data") @@
    For({"modemReset", "oemHookRaw"}, NonEmpty)

Indications ==
    StateIndications @@ MessageIndications @@ SignalIndications @@
    StkIndications @@ SimIndications @@ CdmaIndications @@
    InfoRecIndications @@ CallIndications @@ NetworkIndications @@
    HardwareIndications @@ SsIndications @@ ModemIndications

\* The functions that also look at what the payload says: hexadecimal digits,
\* information records.
ReadsContent == {"newSms", "newSmsStatusReport", "cdmaInfoRec"}

\* Whether the client is called.
Delivered(f, p) == Valid(Indications[f], p) /\ (f \in ReadsContent => p.legal)

-----------------------------------------------------------------------------
\* s_unsolResponses: the function of each code; DC_RT_INFO_CHANGED has none.
s_unsolResponses ==
    "RESPONSE_RADIO_STATE_CHANGED" :> "radioStateChanged" @@
    "RESPONSE_CALL_STATE_CHANGED" :> "callStateChanged" @@
    "RESPONSE_VOICE_NETWORK_STATE_CHANGED" :> "networkStateChanged" @@
    "RESPONSE_NEW_SMS" :> "newSms" @@
    "RESPONSE_NEW_SMS_STATUS_REPORT" :> "newSmsStatusReport" @@
    "RESPONSE_NEW_SMS_ON_SIM" :> "newSmsOnSim" @@
    "ON_USSD" :> "onUssd" @@
    "ON_USSD_REQUEST" :> "onUssd" @@
    "NITZ_TIME_RECEIVED" :> "nitzTimeReceived" @@
    "SIGNAL_STRENGTH" :> "currentSignalStrength" @@
    "DATA_CALL_LIST_CHANGED" :> "dataCallListChanged" @@
    "SUPP_SVC_NOTIFICATION" :> "suppSvcNotify" @@
    "STK_SESSION_END" :> "stkSessionEnd" @@
    "STK_PROACTIVE_COMMAND" :> "stkProactiveCommand" @@
    "STK_EVENT_NOTIFY" :> "stkEventNotify" @@
    "STK_CALL_SETUP" :> "stkCallSetup" @@
    "SIM_SMS_STORAGE_FULL" :> "simSmsStorageFull" @@
    "SIM_REFRESH" :> "simRefresh" @@
    "CALL_RING" :> "callRing" @@
    "RESPONSE_SIM_STATUS_CHANGED" :> "simStatusChanged" @@
    "RESPONSE_CDMA_NEW_SMS" :> "cdmaNewSms" @@
    "RESPONSE_NEW_BROADCAST_SMS" :> "newBroadcastSms" @@
    "CDMA_RUIM_SMS_STORAGE_FULL" :> "cdmaRuimSmsStorageFull" @@
    "RESTRICTED_STATE_CHANGED" :> "restrictedStateChanged" @@
    "ENTER_EMERGENCY_CALLBACK_MODE" :> "enterEmergencyCallbackMode" @@
    "CDMA_CALL_WAITING" :> "cdmaCallWaiting" @@
    "CDMA_OTA_PROVISION_STATUS" :> "cdmaOtaProvisionStatus" @@
    "CDMA_INFO_REC" :> "cdmaInfoRec" @@
    "OEM_HOOK_RAW" :> "oemHookRaw" @@
    "RINGBACK_TONE" :> "indicateRingbackTone" @@
    "RESEND_INCALL_MUTE" :> "resendIncallMute" @@
    "CDMA_SUBSCRIPTION_SOURCE_CHANGED" :> "cdmaSubscriptionSourceChanged" @@
    "CDMA_PRL_CHANGED" :> "cdmaPrlChanged" @@
    "EXIT_EMERGENCY_CALLBACK_MODE" :> "exitEmergencyCallbackMode" @@
    "RIL_CONNECTED" :> "rilConnected" @@
    "VOICE_RADIO_TECH_CHANGED" :> "voiceRadioTechChanged" @@
    "CELL_INFO_LIST" :> "cellInfoList" @@
    "RESPONSE_IMS_NETWORK_STATE_CHANGED" :> "imsNetworkStateChanged" @@
    "UICC_SUBSCRIPTION_STATUS_CHANGED" :> "subscriptionStatusChanged" @@
    "SRVCC_STATE_NOTIFY" :> "srvccStateNotify" @@
    "HARDWARE_CONFIG_CHANGED" :> "hardwareConfigChanged" @@
    "RADIO_CAPABILITY" :> "radioCapabilityIndication" @@
    "ON_SS" :> "onSupplementaryServiceIndication" @@
    "STK_CC_ALPHA_NOTIFY" :> "stkCallControlAlphaNotify" @@
    "LCEDATA_RECV" :> "lceData" @@
    "PCO_DATA" :> "pcoData" @@
    "MODEM_RESTART" :> "modemReset"

\* The codes handled without a wake lock.
DontWake == {"ON_USSD_REQUEST", "SIGNAL_STRENGTH"}

\* RIL_onUnsolicitedResponse: the entry a code finds.  A code above the AOSP range
\* is looked for in s_unsolResponses_v, whose functions are all NULL; a code
\* outside the AOSP table is logged and then handled as its first entry.
NoFunction == "NULL"
FirstUnsol == "RESPONSE_RADIO_STATE_CHANGED"
UnsolFunction(code) ==
    CASE code \in {"vendor", "unknown vendor", "DC_RT_INFO_CHANGED"} -> NoFunction
      [] code = "unknown" -> s_unsolResponses[FirstUnsol]
      [] OTHER -> s_unsolResponses[code]
Wakes(code) ==
    (IF code = "unknown" THEN FirstUnsol ELSE code) \notin DontWake
=============================================================================
