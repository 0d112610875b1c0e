-------------------------- MODULE RilRequestTable --------------------------
(***************************************************************************)
(* What every method of IRadio and IOemHook does before the vendor library *)
(* sees the request (ril_service.cpp): the request it is listed as, the    *)
(* steps that can refuse it and the data CALL_ONREQUEST passes on.         *)
(*                                                                         *)
(* A method has one row per path its arguments can select.  A row is       *)
(*   request   the RIL_REQUEST_ code, without its prefix                   *)
(*   unit, n   the data: n elements of that C type (datalen / sizeof)      *)
(*   script    the steps after addRequestToList that may end the call:     *)
(*     "array"       calloc of a block                                     *)
(*     "copy"        copyHidlStringToRil of a string of the client; an     *)
(*                   empty one becomes NULL                                *)
(*     "copyEmpty"   the same with allowEmpty: always a block              *)
(*     "own", "ownEmpty"   the same of a hidl_string made from a C string, *)
(*                   whose size() is its length                            *)
(*     "mvno", "one", "tech"   a check of the arguments                    *)
(*     "unsupported" an answer this library gives itself                   *)
(*   onError   for each step, the steps whose blocks the method frees when *)
(*             that step fails                                             *)
(*   after     the steps whose blocks it frees after CALL_ONREQUEST        *)
(* Freeing the block of a step that allocated none frees NULL: structures  *)
(* start out as {} and arrays come from calloc.                            *)
(***************************************************************************)
EXTENDS Naturals, Sequences, TLC

\* The lengths of the lists a client passes in.
ListSizes == 0..2

Row(request, unit, n, script, onError, after) ==
    [request |-> request, unit |-> unit, n |-> n, script |-> script,
     onError |-> onError, after |-> after]

Steps(k, op) == [i \in 1..k |-> op]
Copies(k) == Steps(k, "copy")

\* dispatchVoid: no data at all.
Void(request) == Row(request, "NULL", 0, <<>>, <<>>, {})

\* dispatchString: one copied string, NULL when it is empty.
Str(request) == Row(request, "char", 1, <<"own">>, <<{}>>, {1})

\* (mutant) The loop over the earlier strings stops one short.
Strs_LosesOne(request, n, op) ==
    Row(request, "char*", n, <<"array">> \o Steps(n, op),
        <<{}>> \o [i \in 1..n |-> {1} \cup 2..(i - 1)], {1} \cup 2..(n + 1))

\* dispatchStrings, in both its forms: an array of copied strings.  When string i
\* fails a loop frees the ones before it, then the array.
Strs(request, n, op) ==
    Row(request, "char*", n, <<"array">> \o Steps(n, op),
        <<{}>> \o [i \in 1..n |-> {1} \cup 2..i], {1} \cup 2..(n + 1))

\* dispatchInts: an array of integers.
Ints(request, n) == Row(request, "int", n, <<"array">>, <<{}>>, {1})

\* A method that fills in a struct itself, without a step that may fail.
Filled(request, unit) == Row(request, unit, 1, <<>>, <<>>, {})

\* A struct with one copied string.
OneString(request, unit) == Row(request, unit, 1, Copies(1), <<{}>>, {1})

\* dispatchCallForwardStatus and dispatchIccApdu.
CallForward(request) == OneString(request, "RIL_CallForwardInfo")
IccApdu(request) == OneString(request, "RIL_SIM_APDU")

\* dispatchRaw: the bytes of the caller, not copied.
Raw(request) == Row(request, "byte", 2, <<>>, <<>>, {})

-----------------------------------------------------------------------------
(* The methods, in the order of ril_service.cpp.                           *)

\* The SIM card: status, PIN, PUK and depersonalization.
SimPinMethods ==
    "getIccCardStatus" :> {Void("GET_SIM_STATUS")} @@
    "supplyIccPinForApp" :> {Strs("ENTER_SIM_PIN", 2, "ownEmpty")} @@
    "supplyIccPukForApp" :> {Strs("ENTER_SIM_PUK", 3, "ownEmpty")} @@
    "supplyIccPin2ForApp" :> {Strs("ENTER_SIM_PIN2", 2, "ownEmpty")} @@
    "supplyIccPuk2ForApp" :> {Strs("ENTER_SIM_PUK2", 3, "ownEmpty")} @@
    "changeIccPinForApp" :> {Strs("CHANGE_SIM_PIN", 3, "ownEmpty")} @@
    "changeIccPin2ForApp" :> {Strs("CHANGE_SIM_PIN2", 3, "ownEmpty")} @@
    "supplyNetworkDepersonalization" :>
        {Strs("ENTER_NETWORK_DEPERSONALIZATION", 1, "ownEmpty")}

\* Calls.  dial copies the user-to-user data only when there is some.
CallMethods ==
    "getCurrentCalls" :> {Void("GET_CURRENT_CALLS")} @@
    "dial" :> {Row("DIAL", "RIL_Dial", 1, Copies(1), <<{}>>, {1, 2}),
               Row("DIAL", "RIL_Dial", 1, Copies(2), <<{}, {1}>>, {1, 2})} @@
    "getImsiForApp" :> {Strs("GET_IMSI", 1, "own")} @@
    "hangup" :> {Ints("HANGUP", 1)} @@
    "hangupWaitingOrBackground" :> {Void("HANGUP_WAITING_OR_BACKGROUND")} @@
    "hangupForegroundResumeBackground" :> {Void("HANGUP_FOREGROUND_RESUME_BACKGROUND")} @@
    "switchWaitingOrHoldingAndActive" :> {Void("SWITCH_WAITING_OR_HOLDING_AND_ACTIVE")} @@
    "conference" :> {Void("CONFERENCE")} @@
    "rejectCall" :> {Void("UDUB")} @@
    "getLastCallFailCause" :> {Void("LAST_CALL_FAIL_CAUSE")}

\* Registration, radio power, DTMF and GSM messages.
NetworkMethods ==
    "getSignalStrength" :> {Void("SIGNAL_STRENGTH")} @@
    "getVoiceRegistrationState" :> {Void("VOICE_REGISTRATION_STATE")} @@
    "getDataRegistrationState" :> {Void("DATA_REGISTRATION_STATE")} @@
    "getOperator" :> {Void("OPERATOR")} @@
    "setRadioPower" :> {Ints("RADIO_POWER", 1)} @@
    "sendDtmf" :> {Str("DTMF")} @@
    "sendSms" :> {Strs("SEND_SMS", 2, "own")} @@
    "sendSMSExpectMore" :> {Strs("SEND_SMS_EXPECT_MORE", 2, "own")}

\* setupDataCall: 7 strings up to version 14; later 15, after the MVNO type has
\* been converted, which fails for a value outside the enumeration.
SetupDataCall(v) ==
    IF v <= 14
    THEN {Strs("SETUP_DATA_CALL", 7, "ownEmpty")}
    ELSE {Row("SETUP_DATA_CALL", "char*", 15,
              <<"mvno", "array">> \o Steps(15, "ownEmpty"),
              <<{}, {}>> \o [i \in 1..15 |-> {2} \cup 3..(i + 1)], {2} \cup 3..17)}

\* iccIOForApp: path, data, pin2 and aid.
IccIOForApp ==
    {Row("SIM_IO", "RIL_SIM_IO_v6", 1, Copies(4), <<{}, {1}, {1, 2}, {1, 2, 3}>>,
         {1, 2, 3, 4})}

\* Supplementary services, facility locks and data call teardown.
SuppServiceMethods ==
    "sendUssd" :> {Str("SEND_USSD")} @@
    "cancelPendingUssd" :> {Void("CANCEL_USSD")} @@
    "getClir" :> {Void("GET_CLIR")} @@
    "setClir" :> {Ints("SET_CLIR", 1)} @@
    "getCallForwardStatus" :> {CallForward("QUERY_CALL_FORWARD_STATUS")} @@
    "setCallForward" :> {CallForward("SET_CALL_FORWARD")} @@
    "getCallWaiting" :> {Ints("QUERY_CALL_WAITING", 1)} @@
    "setCallWaiting" :> {Ints("SET_CALL_WAITING", 2)} @@
    "acknowledgeLastIncomingGsmSms" :> {Ints("SMS_ACKNOWLEDGE", 2)} @@
    "acceptCall" :> {Void("ANSWER")} @@
    "deactivateDataCall" :> {Strs("DEACTIVATE_DATA_CALL", 2, "own")} @@
    "getFacilityLockForApp" :> {Strs("QUERY_FACILITY_LOCK", 4, "ownEmpty")} @@
    "setFacilityLockForApp" :> {Strs("SET_FACILITY_LOCK", 5, "ownEmpty")} @@
    "setBarringPassword" :> {Strs("CHANGE_BARRING_PASSWORD", 3, "ownEmpty")}

\* Network selection, mute and lists.
NetworkSelectionMethods ==
    "getNetworkSelectionMode" :> {Void("QUERY_NETWORK_SELECTION_MODE")} @@
    "setNetworkSelectionModeAutomatic" :> {Void("SET_NETWORK_SELECTION_AUTOMATIC")} @@
    "setNetworkSelectionModeManual" :> {Str("SET_NETWORK_SELECTION_MANUAL")} @@
    "getAvailableNetworks" :> {Void("QUERY_AVAILABLE_NETWORKS")} @@
    "startDtmf" :> {Str("DTMF_START")} @@
    "stopDtmf" :> {Void("DTMF_STOP")} @@
    "getBasebandVersion" :> {Void("BASEBAND_VERSION")} @@
    "separateConnection" :> {Ints("SEPARATE_CONNECTION", 1)} @@
    "setMute" :> {Ints("SET_MUTE", 1)} @@
    "getMute" :> {Void("GET_MUTE")} @@
    "getClip" :> {Void("QUERY_CLIP")} @@
    "getDataCallList" :> {Void("DATA_CALL_LIST")} @@
    "setSuppServiceNotifications" :> {Ints("SET_SUPP_SVC_NOTIFICATION", 1)}

\* Messages on the SIM, bands and the SIM toolkit.
SmsAndStkMethods ==
    "writeSmsToSim" :>
        {Row("WRITE_SMS_TO_SIM", "RIL_SMS_WriteArgs", 1, Copies(2), <<{}, {1}>>, {1, 2})} @@
    "deleteSmsOnSim" :> {Ints("DELETE_SMS_ON_SIM", 1)} @@
    "setBandMode" :> {Ints("SET_BAND_MODE", 1)} @@
    "getAvailableBandModes" :> {Void("QUERY_AVAILABLE_BAND_MODE")} @@
    "sendEnvelope" :> {Str("STK_SEND_ENVELOPE_COMMAND")} @@
    "sendTerminalResponseToSim" :> {Str("STK_SEND_TERMINAL_RESPONSE")} @@
    "handleStkCallSetupRequestFromSim" :> {Ints("STK_HANDLE_CALL_SETUP_REQUESTED_FROM_SIM", 1)} @@
    "explicitCallTransfer" :> {Void("EXPLICIT_CALL_TRANSFER")}

\* Preferred modes and CDMA preferences.
PreferenceMethods ==
    "setPreferredNetworkType" :> {Ints("SET_PREFERRED_NETWORK_TYPE", 1)} @@
    "getPreferredNetworkType" :> {Void("GET_PREFERRED_NETWORK_TYPE")} @@
    "getNeighboringCids" :> {Void("GET_NEIGHBORING_CELL_IDS")} @@
    "setLocationUpdates" :> {Ints("SET_LOCATION_UPDATES", 1)} @@
    "setCdmaSubscriptionSource" :> {Ints("CDMA_SET_SUBSCRIPTION_SOURCE", 1)} @@
    "setCdmaRoamingPreference" :> {Ints("CDMA_SET_ROAMING_PREFERENCE", 1)} @@
    "getCdmaRoamingPreference" :> {Void("CDMA_QUERY_ROAMING_PREFERENCE")} @@
    "setTTYMode" :> {Ints("SET_TTY_MODE", 1)} @@
    "getTTYMode" :> {Void("QUERY_TTY_MODE")} @@
    "setPreferredVoicePrivacy" :> {Ints("CDMA_SET_PREFERRED_VOICE_PRIVACY_MODE", 1)} @@
    "getPreferredVoicePrivacy" :> {Void("CDMA_QUERY_PREFERRED_VOICE_PRIVACY_MODE")} @@
    "sendCDMAFeatureCode" :> {Str("CDMA_FLASH")}

\* CDMA messages; the broadcast lists live on the stack.
CdmaSmsMethods ==
    "sendBurstDtmf" :> {Strs("CDMA_BURST_DTMF", 3, "own")} @@
    "sendCdmaSms" :> {Filled("CDMA_SEND_SMS", "RIL_CDMA_SMS_Message")} @@
    "acknowledgeLastIncomingCdmaSms" :> {Filled("CDMA_SMS_ACKNOWLEDGE", "RIL_CDMA_SMS_Ack")} @@
    "getGsmBroadcastConfig" :> {Void("GSM_GET_BROADCAST_SMS_CONFIG")} @@
    "setGsmBroadcastConfig" :>
        {Row("GSM_SET_BROADCAST_SMS_CONFIG", "RIL_GSM_BroadcastSmsConfigInfo*", n,
             <<>>, <<>>, {}) : n \in ListSizes} @@
    "setGsmBroadcastActivation" :> {Ints("GSM_SMS_BROADCAST_ACTIVATION", 1)}

\* CDMA administration and message centre.
CdmaAdminMethods ==
    "getCdmaBroadcastConfig" :> {Void("CDMA_GET_BROADCAST_SMS_CONFIG")} @@
    "setCdmaBroadcastConfig" :>
        {Row("CDMA_SET_BROADCAST_SMS_CONFIG", "RIL_CDMA_BroadcastSmsConfigInfo*", n,
             <<>>, <<>>, {}) : n \in ListSizes} @@
    "setCdmaBroadcastActivation" :> {Ints("CDMA_SMS_BROADCAST_ACTIVATION", 1)} @@
    "getCDMASubscription" :> {Void("CDMA_SUBSCRIPTION")} @@
    "writeSmsToRuim" :> {Filled("CDMA_WRITE_SMS_TO_RUIM", "RIL_CDMA_SMS_WriteArgs")} @@
    "deleteSmsOnRuim" :> {Ints("CDMA_DELETE_SMS_ON_RUIM", 1)} @@
    "getDeviceIdentity" :> {Void("DEVICE_IDENTITY")} @@
    "exitEmergencyCallbackMode" :> {Void("EXIT_EMERGENCY_CALLBACK_MODE")} @@
    "getSmscAddress" :> {Void("GET_SMSC_ADDRESS")} @@
    "setSmscAddress" :> {Str("SET_SMSC_ADDRESS")} @@
    "reportSmsMemoryStatus" :> {Ints("REPORT_SMS_MEMORY_STATUS", 1)} @@
    "reportStkServiceIsRunning" :> {Void("REPORT_STK_SERVICE_IS_RUNNING")} @@
    "getCdmaSubscriptionSource" :> {Void("CDMA_GET_SUBSCRIPTION_SOURCE")} @@
    "requestIsimAuthentication" :> {Str("ISIM_AUTHENTICATION")}

\* Acknowledgement with PDU, cell information.
AttachMethods ==
    "acknowledgeIncomingGsmSmsWithPdu" :>
        {Strs("ACKNOWLEDGE_INCOMING_GSM_SMS_WITH_PDU", 2, "own")} @@
    "sendEnvelopeWithStatus" :> {Str("STK_SEND_ENVELOPE_WITH_STATUS")} @@
    "getVoiceRadioTechnology" :> {Void("VOICE_RADIO_TECH")} @@
    "getCellInfoList" :> {Void("GET_CELL_INFO_LIST")} @@
    "setCellInfoListRate" :> {Ints("SET_UNSOL_CELL_INFO_LIST_RATE", 1)}

\* setInitialAttachApn, built without NEEDS_ROAMING_PROTOCOL_FIELD.
SetInitialAttachApn(v) ==
    IF v <= 14
    THEN {Row("SET_INITIAL_ATTACH_APN", "RIL_InitialAttachApn", 1,
              <<"copyEmpty">> \o Copies(3), <<{}, {1}, {1, 2}, {1, 2, 3}>>, {1, 2, 3, 4})}
    ELSE {Row("SET_INITIAL_ATTACH_APN", "RIL_InitialAttachApn_v15", 1,
              <<"copyEmpty">> \o Copies(4) \o <<"mvno", "copy">>,
              <<{}, {1}, {1, 2}, {1, 2, 3}, {1, 2, 3, 4}, {1, 2, 3, 4, 5}, {1, 2, 3, 4, 5}>>,
              {1, 2, 3, 4, 5, 7})}

\* sendImsSms: GSM, CDMA, or a technology that is neither.  The length passed on is
\* not that of the structure: the sizes of tech, retry and messageRef, and of what
\* the message pointer leads to (two pointers, or a RIL_CDMA_SMS_Message).
SendImsSms ==
    LET Ims(len, script, onError, after) ==
            Row("IMS_SEND_SMS", "byte", 4 + 1 + 4 + len, script, onError, after)
    IN {Ims(2 * 4, <<"one", "array", "copy", "copy">>, <<{}, {}, {2}, {2, 3}>>, {2, 3, 4}),
        Ims(372, <<"one">>, <<{}>>, {}),
        Ims(0, <<"tech">>, <<{}>>, {})}

\* IMS and the basic SIM channel.
ApduMethods ==
    "getImsRegistrationState" :> {Void("IMS_REGISTRATION_STATE")} @@
    "sendImsSms" :> SendImsSms @@
    "iccTransmitApduBasicChannel" :> {IccApdu("SIM_TRANSMIT_APDU_BASIC")}

\* (mutant) Off by one in the version.
IccOpenLogicalChannel_Upto15(v) ==
    IF v <= 15
    THEN {Str("SIM_OPEN_CHANNEL")}
    ELSE {OneString("SIM_OPEN_CHANNEL", "RIL_OpenChannelParams")}

\* iccOpenLogicalChannel: before version 15 the P2 parameter is lost.
IccOpenLogicalChannel(v) ==
    IF v < 15
    THEN {Str("SIM_OPEN_CHANNEL")}
    ELSE {OneString("SIM_OPEN_CHANNEL", "RIL_OpenChannelParams")}

\* Logical channels, NV items and subscriptions.
NvMethods ==
    "iccCloseLogicalChannel" :> {Ints("SIM_CLOSE_CHANNEL", 1)} @@
    "iccTransmitApduLogicalChannel" :> {IccApdu("SIM_TRANSMIT_APDU_CHANNEL")} @@
    "nvReadItem" :> {Filled("NV_READ_ITEM", "RIL_NV_ReadItem")} @@
    "nvWriteItem" :> {OneString("NV_WRITE_ITEM", "RIL_NV_WriteItem")} @@
    "nvWriteCdmaPrl" :> {Raw("NV_WRITE_CDMA_PRL")} @@
    "nvResetConfig" :> {Ints("NV_RESET_CONFIG", 1)} @@
    "setUiccSubscription" :> {Filled("SET_UICC_SUBSCRIPTION", "RIL_SelectUiccSub")} @@
    "setDataAllowed" :> {Ints("ALLOW_DATA", 1)} @@
    "getHardwareConfig" :> {Void("GET_HARDWARE_CONFIG")}

\* SIM authentication.
SimAuthMethods ==
    "requestIccSimAuthentication" :>
        {Row("SIM_AUTHENTICATION", "RIL_SimAuthentication", 1, Copies(2), <<{}, {1}>>, {1, 2})}

\* setDataProfile: the profiles, the pointers to them, and for each profile its
\* strings; from version 15 on the MVNO type is converted last.
\* freeSetDataProfileData frees the first "fields" strings of every profile, the
\* ones not reached too (they are NULL), and both arrays.
SetDataProfile(v) ==
    LET profile == IF v <= 14
                   THEN Steps(4, "copyEmpty")
                   ELSE <<"copyEmpty", "copy">> \o Steps(4, "copyEmpty") \o <<"mvno">>
        per == Len(profile)
        fields == IF v <= 14 THEN 4 ELSE 6
        script(n) == [i \in 1..(n * per) |-> profile[((i - 1) % per) + 1]]
        all(n) == {1, 2} \cup {2 + (j - 1) * per + f : j \in 1..n, f \in 1..fields}
    IN {Row("SET_DATA_PROFILE",
            IF v <= 14 THEN "RIL_DataProfileInfo*" ELSE "RIL_DataProfileInfo_v15*",
            n, <<"array", "array">> \o script(n),
            <<{}, {1}>> \o [i \in 1..(n * per) |-> all(n)], all(n)) : n \in ListSizes}

\* Radio capability, link capacity and carrier restrictions.
\* setAllowedCarriers does not look at allAllowed.
CapabilityMethods ==
    "requestShutdown" :> {Void("SHUTDOWN")} @@
    "getRadioCapability" :> {Void("GET_RADIO_CAPABILITY")} @@
    "setRadioCapability" :> {Filled("SET_RADIO_CAPABILITY", "RIL_RadioCapability")} @@
    "startLceService" :> {Ints("START_LCE", 2)} @@
    "stopLceService" :> {Void("STOP_LCE")} @@
    "pullLceData" :> {Void("PULL_LCEDATA")} @@
    "getModemActivityInfo" :> {Void("GET_ACTIVITY_INFO")} @@
    "setAllowedCarriers" :>
        {Row("SET_CARRIER_RESTRICTIONS", "RIL_CarrierRestrictions", 1, <<"array", "array">>,
             <<{}, {1}>>, {1, 2})} @@
    "getAllowedCarriers" :> {Void("GET_CARRIER_RESTRICTIONS")}

\* sendDeviceState and setIndicationFilter: version 14 knows only the screen state.
SendDeviceState(v) ==
    IF v < 15
    THEN {Ints("SCREEN_STATE", 1),
          Row("SEND_DEVICE_STATE", "int", 2, <<"unsupported">>, <<{}>>, {})}
    ELSE {Ints("SEND_DEVICE_STATE", 2)}
SetIndicationFilter(v) ==
    IF v < 15
    THEN {Row("SET_UNSOLICITED_RESPONSE_FILTER", "int", 1, <<"unsupported">>, <<{}>>, {})}
    ELSE {Ints("SET_UNSOLICITED_RESPONSE_FILTER", 1)}

\* (mutant) Listed under another code.
SetSimCardPower_WrongCode == {Ints("RADIO_POWER", 1)}

\* setSimCardPower.
SetSimCardPower == {Ints("SET_SIM_CARD_POWER", 1)}

\* IOemHook.
OemHookMethods ==
    "sendRequestRaw" :> {Raw("OEM_HOOK_RAW")} @@
    "sendRequestStrings" :> {Strs("OEM_HOOK_STRINGS", n, "copy") : n \in ListSizes}

-----------------------------------------------------------------------------
\* The methods that depend on the version the vendor library registered with.
VersionedMethods(v) ==
    "setupDataCall" :> SetupDataCall(v) @@
    "iccIOForApp" :> IccIOForApp @@
    "setInitialAttachApn" :> SetInitialAttachApn(v) @@
    "iccOpenLogicalChannel" :> IccOpenLogicalChannel(v) @@
    "setDataProfile" :> SetDataProfile(v) @@
    "sendDeviceState" :> SendDeviceState(v) @@
    "setIndicationFilter" :> SetIndicationFilter(v) @@
    "setSimCardPower" :> SetSimCardPower

FixedMethods ==
    SimPinMethods @@ CallMethods @@ NetworkMethods @@ SuppServiceMethods @@
    NetworkSelectionMethods @@ SmsAndStkMethods @@ PreferenceMethods @@
    CdmaSmsMethods @@ CdmaAdminMethods @@ AttachMethods @@ ApduMethods @@
    NvMethods @@ SimAuthMethods @@ CapabilityMethods @@ OemHookMethods

MethodsUpTo14 == FixedMethods @@ VersionedMethods(14)
MethodsFrom15 == FixedMethods @@ VersionedMethods(15)

\* The rows of every method for a vendor library of version v.
Methods(v) == IF v < 15 THEN MethodsUpTo14 ELSE MethodsFrom15
=============================================================================
