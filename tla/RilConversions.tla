--------------------------- MODULE RilConversions ---------------------------
(***************************************************************************)
(* The conversions of ril_service.cpp that compute something: the signal   *)
(* strength, which is clamped and translated from an older convention in   *)
(* the vendor library's own structure, the list of data calls, whose       *)
(* version is guessed from its length, and the cell identity, which up to  *)
(* version 14 is picked from the strings of a registration state.  The     *)
(* library is 32 bits wide (TARGET_ARCH := arm).                           *)
(***************************************************************************)
EXTENDS Integers

\* SAMSUNG_NEXT_GEN_MODEM or MODEM_TYPE_XMM6262 is defined, as for every modem of
\* ril/Android.mk but the xmm6260, whose own branch is left out.
CONSTANT NextGenModem
ASSUME ModemAssumption == NextGenModem \in BOOLEAN

INT_MAX == 2147483647

-----------------------------------------------------------------------------
\* RIL_SignalStrength_v5, _v6, _v8 and _v10: sizeof, and the lengths
\* that getSignalStrengthResponse and currentSignalStrengthInd accept.
sizeofSignalStrength == [v5 |-> 28, v6 |-> 48, v8 |-> 52, v10 |-> 56]
getSignalStrengthResponse == {28, 48, 52, 56}
currentSignalStrengthInd == {52, 56}

\* value & 0xFF and the clamp to 0..31, 99.  The test for a negative value comes
\* after the mask and is never true.
Clamped(value) ==
    LET byte == value % 256 IN IF byte > 31 /\ byte # 99 THEN 31 ELSE byte
Dbm(value) == IF NextGenModem THEN Clamped(value) ELSE value

\* (mutant) The sign is changed whatever it is.
LteFixup_AlwaysNegates(s) ==
    [s EXCEPT !.lte = IF @ = -1 THEN 99 ELSE @,
              !.rsrp = IF @ \in {-1, INT_MAX} THEN INT_MAX ELSE -@,
              !.rsrq = IF @ = -1 THEN INT_MAX ELSE @,
              !.cqi = IF @ = -1 THEN INT_MAX ELSE @]
\* "Fixup LTE for backwards compatibility", in the structure of the vendor library.
LteFixup(s) ==
    [s EXCEPT !.lte = IF @ = -1 THEN 99 ELSE @,
              !.rsrp = IF @ = -1 THEN INT_MAX ELSE IF @ < -1 THEN -@ ELSE @,
              !.rsrq = IF @ = -1 THEN INT_MAX ELSE @,
              !.cqi = IF @ = -1 THEN INT_MAX ELSE @]

\* The conversions, of a structure after its fixup.
convertRilSignalStrengthToHalV10(s) ==
    [s EXCEPT !.gw = Clamped(@), !.cdma = Dbm(@), !.evdo = Dbm(@)]
convertRilSignalStrengthToHalV8(s) ==
    [convertRilSignalStrengthToHalV10(s) EXCEPT !.rscp = INT_MAX]
convertRilSignalStrengthToHalV6(s) ==
    [convertRilSignalStrengthToHalV8(s) EXCEPT !.timingAdvance = INT_MAX]
convertRilSignalStrengthToHalV5(s) ==
    [convertRilSignalStrengthToHalV6(s) EXCEPT
        !.lte = 99, !.rsrp = INT_MAX, !.rsrq = INT_MAX, !.cqi = INT_MAX]
convertRilSignalStrengthToHal(s, len) ==
    CASE len = sizeofSignalStrength.v5 -> convertRilSignalStrengthToHalV5(s)
      [] len = sizeofSignalStrength.v6 -> convertRilSignalStrengthToHalV6(s)
      [] len = sizeofSignalStrength.v8 -> convertRilSignalStrengthToHalV8(s)
      [] OTHER -> convertRilSignalStrengthToHalV10(s)

-----------------------------------------------------------------------------
\* RIL_Data_Call_Response_v6, _v9 and _v11: nine fields, a tenth, an eleventh.
sizeofDataCall == [v6 |-> 36, v9 |-> 40, v11 |-> 44]

\* (mutant) The oldest version is tried first.
convertRilDataCallListToHal_OldestFirst(len) ==
    CASE len % sizeofDataCall.v6 = 0 -> [version |-> "v6", num |-> len \div sizeofDataCall.v6]
      [] len % sizeofDataCall.v6 # 0 /\ len % sizeofDataCall.v9 = 0 ->
            [version |-> "v9", num |-> len \div sizeofDataCall.v9]
      [] OTHER -> [version |-> "v11", num |-> len \div sizeofDataCall.v11]
\* The version taken and the number of calls; the length is a multiple of one size.
convertRilDataCallListToHal(len) ==
    CASE len % sizeofDataCall.v11 = 0 ->
            [version |-> "v11", num |-> len \div sizeofDataCall.v11]
      [] len % sizeofDataCall.v11 # 0 /\ len % sizeofDataCall.v9 = 0 ->
            [version |-> "v9", num |-> len \div sizeofDataCall.v9]
      [] OTHER -> [version |-> "v6", num |-> len \div sizeofDataCall.v6]

-----------------------------------------------------------------------------
\* The radio technology of a registration state, NULL when there is none.
getCellInfoTypeRadioTechnology(rat) ==
    CASE rat \in {"GPRS", "EDGE", "GSM"} -> "GSM"
      [] rat \in {"UMTS", "HSDPA", "HSUPA", "HSPA", "HSPAP"} -> "WCDMA"
      [] rat \in {"IS95A", "IS95B", "1xRTT", "EVDO_0", "EVDO_A", "EVDO_B", "EHRPD"} -> "CDMA"
      [] rat \in {"LTE", "LTE_CA"} -> "LTE"
      [] rat = "TD_SCDMA" -> "TD_SCDMA"
      [] rat \in {"NULL", "UNKNOWN"} -> "NONE"

\* The strings each function always reads, and those it makes the cell identity
\* of, by the type of the cell: lac, cid and psc; tac, pci and ci; basestationId,
\* longitude, latitude, systemId and networkId.
AlwaysRead == [voice |-> {0, 3, 7, 10, 11, 12, 13}, data |-> {0, 3, 4, 5}]
VoiceIdentity ==
    [GSM |-> {1, 2}, WCDMA |-> {1, 2, 14}, TD_SCDMA |-> {1, 2}, CDMA |-> {4, 5, 6, 8, 9},
     LTE |-> {1, 2}, NONE |-> {}]
DataIdentity ==
    [GSM |-> {1, 2}, WCDMA |-> {1, 2}, TD_SCDMA |-> {1, 2}, CDMA |-> {},
     LTE |-> {6, 7, 8}, NONE |-> {}]
IdentityStrings(kind, type) == IF kind = "voice" THEN VoiceIdentity[type] ELSE DataIdentity[type]

\* The fewest strings each function accepts, and the number it passes on.
MinStrings == [voice |-> 15, data |-> 6]
StringsPassed(kind, n) == CASE kind = "voice" -> 15
                            [] kind = "data" -> IF n < 11 THEN 6 ELSE 11
\* convertResponseStringEntryToInt and convertResponseHexStringEntryToInt: an entry
\* past the number passed is not looked at, the field is -1.
EntriesRead(kind, type, n) ==
    {i \in IdentityStrings(kind, type) : i < StringsPassed(kind, n)}
=============================================================================
