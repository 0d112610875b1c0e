----------------------------- MODULE RilDispatch -----------------------------
(***************************************************************************)
(* The way of a request through libril and back: a method of IRadio or     *)
(* IOemHook lists the request, copies its arguments and hands them to the  *)
(* vendor library (RilRequestTable); the answer finds its response         *)
(* function through s_commands, and the function checks the payload and    *)
(* calls the client (RilResponseTable).  Unsolicited codes go through      *)
(* s_unsolResponses to their indication function (RilIndicationTable).     *)
(* RilContract is what ril.h promises the vendor library and expects of    *)
(* it, and the properties compare the two sides.                           *)
(*                                                                         *)
(* One request is followed at a time: what several pending requests do to  *)
(* each other is RilRequests, and the locks are RilService.  A payload is  *)
(* its length; the contents matter to the signal strength and to the list  *)
(* of data calls (RilConversions), which are followed on their own.        *)
(***************************************************************************)
EXTENDS RilRequestTable, RilIndicationTable, RilContract, RilConversions

CONSTANTS
    Versions,     \* the versions a vendor library may register with
    MaxDataCalls, \* bound: data calls in a list
    Measurements  \* the signal strengths a vendor library may write
ASSUME VersionsAssumption == Versions \subseteq {14, 15} /\ MaxDataCalls \in Nat
\* -1 is the older convention's unknown value, and a negative power is one that was not
\* multiplied by -1.  The GSM value is that of TS 27.007.
ASSUME MeasurementsAssumption ==
    Measurements \subseteq
        [gw : 0..31 \cup {99}, cdma : Nat, evdo : Nat, lte : -INT_MAX..INT_MAX,
         rsrp : -INT_MAX..INT_MAX, rsrq : -INT_MAX..INT_MAX, cqi : -INT_MAX..INT_MAX,
         timingAdvance : 0..INT_MAX, rscp : 0..INT_MAX]

VARIABLES
    version, \* s_vendorFunctions->version
    call,    \* the method in progress or last called, the row it takes
    stage,   \* the binder thread: "idle", "prepare", "freeing", "crashed"
    at,      \* the next step of the row's script
    blocks,  \* the steps whose blocks of memory the method has not freed
    owed,    \* the vendor library holds the request and has not answered
    replies, \* calls of a response function for the request
    upcall,  \* the last response or indication: function, error, payload
    strength \* the vendor library's signal strength: its format, the values
             \* measured, and the structure they were written to

dispatchVars == <<version, call, stage, at, blocks, owed, replies, upcall, strength>>

NoCall == [method |-> "none", row |-> Void("none"), listed |-> FALSE,
           truncated |-> FALSE]
NoUpcall == [kind |-> "none"]
NoStrength == [format |-> "none"]

Errors == {"SUCCESS", "GENERIC_FAILURE"}
\* The numbers of elements a payload is tried with: around every minimum.
Counts == 0..6 \cup {14, 15, 16}
\* and the numbers of strings of a registration state.
StringCounts == 6..16
Payloads == [null : BOOLEAN, n : Counts, rem : BOOLEAN]
NullPayload == [null |-> TRUE, n |-> 0, rem |-> FALSE]
\* legal: the digits or records inside are well formed.
IndicationPayloads == {[null |-> p.null, n |-> p.n, rem |-> p.rem, legal |-> l] :
                           p \in Payloads, l \in BOOLEAN}
Codes == DOMAIN s_unsolResponses
             \cup {"vendor", "unknown vendor", "unknown", "DC_RT_INFO_CHANGED"}

Script == call.row.script
\* pRI->pCI->responseFunction, from the entry of s_commands.
ResponseFunction == s_commands[call.row.request]

DispatchInit ==
    /\ version \in Versions
    /\ call = NoCall
    /\ stage = "idle" /\ at = 1 /\ blocks = {}
    /\ owed = FALSE /\ replies = 0 /\ upcall = NoUpcall /\ strength = NoStrength

-----------------------------------------------------------------------------
\* Nothing is under way.
Quiet == stage = "idle" /\ ~owed /\ call = NoCall /\ upcall = NoUpcall /\ strength = NoStrength

\* A method lists its request; its own steps follow.
Call(m, row) ==
    /\ Quiet
    /\ call' = [method |-> m, row |-> row, listed |-> TRUE, truncated |-> FALSE]
    /\ stage' = "prepare"
    /\ UNCHANGED <<version, at, blocks, owed, replies, upcall, strength>>

\* addRequestToList finds no memory.  The dispatch functions return false and the
\* methods return: the client is not answered.  sendDeviceState and
\* setIndicationFilter use the NULL pointer to refuse the request.
CallNotListed(m, row) ==
    /\ Quiet
    /\ call' = [method |-> m, row |-> row, listed |-> FALSE, truncated |-> FALSE]
    /\ stage' = IF row.script = <<"unsupported">> THEN "crashed" ELSE "idle"
    /\ UNCHANGED <<version, at, blocks, owed, replies, upcall, strength>>

\* A block is allocated, or an empty string becomes NULL, or a check passes.
BlocksOf(op) ==
    CASE op \in {"array", "copyEmpty", "ownEmpty"} -> {{at}}
      [] op \in {"copy", "own"} -> {{}, {at}}
      [] op \in {"mvno", "one"} -> {{}}
      [] OTHER -> {} \* "tech" and "unsupported" always refuse the call

StepPasses ==
    /\ stage = "prepare" /\ at <= Len(Script)
    /\ \E b \in BlocksOf(Script[at]) : blocks' = blocks \cup b
    /\ at' = at + 1
    /\ UNCHANGED <<version, call, stage, owed, replies, upcall, strength>>

StepError(op) ==
    CASE op \in {"array", "copy", "copyEmpty", "own", "ownEmpty"} -> "NO_MEMORY"
      [] op \in {"mvno", "one", "tech"} -> "INVALID_ARGUMENTS"
      [] op = "unsupported" -> "REQUEST_NOT_SUPPORTED"

\* (mutant) The method returns without sendErrorResponse.
StepFails_Silent ==
    /\ stage = "prepare" /\ at <= Len(Script)
    /\ blocks' = blocks \ call.row.onError[at]
    /\ stage' = "idle"
    /\ UNCHANGED <<version, call, at, owed, replies, upcall, strength>>

\* A step fails: sendErrorResponse calls the response function with a NULL payload
\* and the method frees what its error path for that step names.
StepFails ==
    /\ stage = "prepare" /\ at <= Len(Script)
    /\ upcall' = [kind |-> "response", f |-> ResponseFunction, p |-> NullPayload,
                  e |-> StepError(Script[at]), error |-> StepError(Script[at])]
    /\ replies' = replies + 1
    /\ blocks' = blocks \ call.row.onError[at]
    /\ stage' = "idle"
    /\ UNCHANGED <<version, call, at, owed, strength>>

\* copyHidlStringToRil finds more characters in the client's string than its size()
\* says: it returns false and answers nobody.  The caller frees what it frees for
\* a failed copy, and the request stays on the list.
StepTruncates ==
    /\ stage = "prepare" /\ at <= Len(Script)
    /\ Script[at] \in {"copy", "copyEmpty"}
    /\ call' = [method |-> call.method, row |-> call.row, listed |-> TRUE, truncated |-> TRUE]
    /\ blocks' = (blocks \cup {at}) \ call.row.onError[at]
    /\ stage' = "idle"
    /\ UNCHANGED <<version, at, owed, replies, upcall, strength>>

\* CALL_ONREQUEST: the vendor library has the request and reads the data.
OnRequest ==
    /\ stage = "prepare" /\ at > Len(Script)
    /\ stage' = "freeing"
    /\ owed' = TRUE
    /\ UNCHANGED <<version, call, at, blocks, replies, upcall, strength>>

\* onRequest has returned; the answer may be there already.
FreeArguments ==
    /\ stage = "freeing"
    /\ blocks' = blocks \ call.row.after
    /\ stage' = "idle"
    /\ UNCHANGED <<version, call, at, owed, replies, upcall, strength>>

\* RIL_onRequestComplete calls the response function, which checks the payload,
\* reads it and calls the client.
Answer(e, p) ==
    /\ owed
    /\ owed' = FALSE
    /\ upcall' = [kind |-> "response", f |-> ResponseFunction, p |-> p, e |-> e,
                  error |-> ResponseError(Responses(version)[ResponseFunction], e, p)]
    /\ replies' = replies + 1
    /\ UNCHANGED <<version, call, stage, at, blocks, strength>>

\* RIL_onUnsolicitedResponse: an entry without a function calls nobody.  The
\* client is not told of a payload its function refuses.
Indicate(code, p) ==
    /\ Quiet
    /\ upcall' = IF UnsolFunction(code) = NoFunction
                 THEN [kind |-> "dropped", code |-> code]
                 ELSE [kind |-> "indication", code |-> code, p |-> p,
                       f |-> UnsolFunction(code),
                       delivered |-> Delivered(UnsolFunction(code), p)]
    /\ UNCHANGED <<version, call, stage, at, blocks, owed, replies, strength>>

\* The vendor library fills its structure.
Measure(format, m) ==
    /\ Quiet
    /\ strength' = [format |-> format, measured |-> m, struct |-> m]
    /\ UNCHANGED <<version, call, stage, at, blocks, owed, replies, upcall>>
\* The structure is converted for an answer or an indication.  The fixup stays in
\* it; RIL_SignalStrength_v5 has no LTE part.
SignalStrength(accepted) ==
    /\ strength # NoStrength
    /\ LET len == sizeofSignalStrength[strength.format]
           s == IF strength.format = "v5" THEN strength.struct ELSE LteFixup(strength.struct)
       IN /\ len \in accepted
          /\ strength' = [strength EXCEPT !.struct = s]
          /\ upcall' = [kind |-> "signal", report |-> convertRilSignalStrengthToHal(s, len)]
    /\ UNCHANGED <<version, call, stage, at, blocks, owed, replies>>
\* A list of data calls, in an answer or an indication.
DataCallList(v, n) ==
    /\ Quiet
    /\ upcall' = [kind |-> "calls", sent |-> [version |-> v, num |-> n],
                  got |-> convertRilDataCallListToHal(n * sizeofDataCall[v])]
    /\ UNCHANGED <<version, call, stage, at, blocks, owed, replies, strength>>

\* A registration state of n strings, from a vendor library up to version 14.
RegistrationState(kind, rat, n) ==
    /\ Quiet /\ version <= 14 /\ n >= MinStrings[kind]
    /\ LET type == getCellInfoTypeRadioTechnology(rat)
       IN upcall' = [kind |-> "registration", n |-> n,
                     read |-> EntriesRead(kind, type, n),
                     always |-> AlwaysRead[kind]]
    /\ UNCHANGED <<version, call, stage, at, blocks, owed, replies, strength>>

\* The exchange is over, and the next one may begin.
Done ==
    /\ stage = "idle" /\ ~owed /\ ~Quiet
    /\ call' = NoCall /\ at' = 1 /\ replies' = 0 /\ upcall' = NoUpcall /\ strength' = NoStrength
    /\ blocks' = {}
    /\ UNCHANGED <<version, stage, owed>>

\* init restarts rild: nothing of the process is left.
Restart ==
    /\ stage = "crashed"
    /\ stage' = "idle" /\ call' = NoCall /\ at' = 1 /\ blocks' = {}
    /\ owed' = FALSE /\ replies' = 0 /\ upcall' = NoUpcall /\ strength' = NoStrength
    /\ UNCHANGED version

DispatchNext ==
    \/ \E m \in DOMAIN Methods(version) : \E row \in Methods(version)[m] :
          Call(m, row) \/ CallNotListed(m, row)
    \/ StepPasses \/ StepFails \/ StepTruncates \/ OnRequest \/ FreeArguments
    \/ \E e \in Errors, p \in Payloads : Answer(e, p)
    \/ \E code \in Codes, p \in IndicationPayloads : Indicate(code, p)
    \/ \E format \in DOMAIN sizeofSignalStrength, m \in Measurements : Measure(format, m)
    \/ SignalStrength(getSignalStrengthResponse) \/ SignalStrength(currentSignalStrengthInd)
    \/ \E v \in DOMAIN sizeofDataCall, n \in 0..MaxDataCalls : DataCallList(v, n)
    \/ \E kind \in {"voice", "data"}, n \in StringCounts,
          rat \in {"EDGE", "HSPA", "EVDO_A", "LTE", "TD_SCDMA", "UNKNOWN", "NULL"} :
          RegistrationState(kind, rat, n)
    \/ Done \/ Restart

DispatchSpec == DispatchInit /\ [][DispatchNext]_dispatchVars

-----------------------------------------------------------------------------
DispatchTypeOK ==
    /\ version \in Versions
    /\ call = NoCall \/ /\ call.method \in DOMAIN Methods(version)
                        /\ call.row \in Methods(version)[call.method]
    /\ stage \in {"idle", "prepare", "freeing", "crashed"}
    /\ at \in 1..(Len(Script) + 1)
    /\ blocks \subseteq 1..Len(Script)
    /\ owed \in BOOLEAN
    /\ replies \in 0..1

\* Every request a client made is answered exactly once, by the vendor library or
\* by the method itself.  Two exceptions: addRequestToList found no memory, and a
\* copied string was longer than its size() says.
OneAnswer ==
    stage = "idle" /\ ~owed /\ call # NoCall
        => replies = IF call.listed /\ ~call.truncated THEN 1 ELSE 0

\* Whichever step refuses a call, and however many of its strings are empty, the
\* free list of that error path, and the one after CALL_ONREQUEST, name every block
\* the method has allocated.  The exception is a truncated string itself: the error
\* paths free the strings before it, so its own block is lost, except in
\* setDataProfile, which frees every field.
NothingLeaked ==
    stage = "idle" =>
        blocks \subseteq IF call.truncated /\ call.method # "setDataProfile" THEN {at} ELSE {}

\* An answered request was called back by the function of the method the client
\* called: the request code of the method and the entry of s_commands agree.
\* hangupForegroundResumeBackground is the exception: its response function calls
\* hangupWaitingOrBackgroundResponse (ril_service.cpp:3161).
CallbackOfMethod(m) ==
    CASE m = "getImsiForApp" -> "getIMSIForApp"
      [] m = "hangup" -> "hangupConnection"
      [] OTHER -> m
OwnCallback ==
    upcall.kind = "response" /\ call.method # "hangupForegroundResumeBackground"
        => Callback(upcall.f) = CallbackOfMethod(call.method)

\* What a vendor library of version 15 receives with a request is what ril.h says
\* "data" is.  Four requests differ: ril.h still documents the strings or the
\* structs of earlier versions for the attach APN and the data profiles, and data
\* for GET_RADIO_CAPABILITY, which is sent without; and as it says of
\* RIL_IMS_SMS_Message, "we don't have datalen equal to sizeof(data)".
ArgumentsDiffer ==
    {"SET_INITIAL_ATTACH_APN", "SET_DATA_PROFILE", "GET_RADIO_CAPABILITY", "IMS_SEND_SMS"}
DocumentedArguments ==
    stage = "freeing" /\ version = 15 /\ call.row.request \notin ArgumentsDiffer
        => LET data == DocumentedRequests[call.row.request].data
           IN call.row.unit = data.unit /\ call.row.n \in data.counts

\* The payloads ril.h allows as data of that kind.
Documented(data, p) == p.n \in data.counts /\ ~p.rem /\ (p.null <=> p.n = 0)

\* The reader takes the data for what it is, or does not look at its length.
SameType(data, reader) ==
    data.unit \in {reader.unit, "NULL"} \/ reader.accepts = Lengths

\* The reader a response or indication function is.
ReaderOf(u) ==
    IF u.kind = "response" THEN Responses(version)[u.f] ELSE Indications[u.f]

\* A successful answer as ril.h documents it (version 15) is not turned into an
\* error.  ril.h documents one integer where getCallWaiting and
\* getImsRegistrationState insist on two.
AnswersDiffer == {"QUERY_CALL_WAITING", "IMS_REGISTRATION_STATE"}
DocumentedAnswerAccepted ==
    upcall.kind = "response" /\ version = 15 /\ upcall.e = "SUCCESS"
    /\ call.row.request \notin AnswersDiffer
        => LET answer == DocumentedRequests[call.row.request].answer
               reader == ReaderOf(upcall)
           IN Documented(answer, upcall.p)
              => SameType(answer, reader) /\ upcall.error = "SUCCESS"

\* An indication as ril.h documents it reaches the client, and each code its own
\* function.  SIM_REFRESH is documented as integers and read as a struct.
DocumentedIndicationDelivered ==
    upcall.kind = "indication" /\ upcall.code \in DOMAIN DocumentedUnsols \ {"SIM_REFRESH"}
    /\ upcall.p.legal /\ Documented(DocumentedUnsols[upcall.code], upcall.p)
        => SameType(DocumentedUnsols[upcall.code], ReaderOf(upcall)) /\ upcall.delivered

\* Whatever pointer and length the vendor library sends, no function reads past the
\* end of the payload (the counts inside a structure, such as num_applications of a
\* card status, are taken on trust by the code and are not in the model), except a
\* length of zero with a pointer that is not NULL: a whole number of
\* integers or structs, of which the first is read all the same.  The other
\* exception is getLastCallFailCause, whose length test is inverted.  Of a registration
\* state no function reads a string that was not sent, although the number of strings
\* tells them which of the cell identity are there.
Reads(u) == \/ u.kind = "response" /\ u.error = "SUCCESS"
            \/ u.kind = "indication" /\ u.delivered
OnlyEmptyOverRead ==
    /\ Reads(upcall) /\ OverReads(ReaderOf(upcall), upcall.p)
           => upcall.p.n = 0 /\ (upcall.p.rem => upcall.f = "getLastCallFailCause")
    /\ upcall.kind = "registration" =>
           \A i \in upcall.read \cup upcall.always : i < upcall.n

\* However often the vendor library reports one structure, as an answer or as an
\* indication, and although each conversion rewrites it: the client is told what was
\* measured, in the convention of ril.h, and "unknown" for what was not.  The dbm of
\* CDMA and EVDO beyond 31 are the exception on the newer modems, which clamp them.
Told(has, unknown, m) == IF has /\ m # -1 THEN m ELSE unknown
SignalAsMeasured ==
    upcall.kind = "signal" =>
        LET m == strength.measured
            r == upcall.report
            lte == strength.format # "v5"
        IN /\ r.gw = m.gw
           /\ m.cdma \in 0..31 => r.cdma = m.cdma
           /\ ~NextGenModem => r.cdma = m.cdma /\ r.evdo = m.evdo
           /\ r.lte = Told(lte, 99, m.lte)
           /\ r.rsrp = Told(lte, INT_MAX, IF m.rsrp < -1 THEN -m.rsrp ELSE m.rsrp)
           /\ r.rsrq = Told(lte, INT_MAX, m.rsrq) /\ r.cqi = Told(lte, INT_MAX, m.cqi)
           /\ r.timingAdvance = Told(strength.format \in {"v8", "v10"}, INT_MAX, m.timingAdvance)
           /\ r.rscp = Told(strength.format = "v10", INT_MAX, m.rscp)

\* The guess from the length is right for lists of up to nine data calls: the
\* client is told of the calls the vendor library sent and no field is read from
\* another.  Ten of version 6 have the length of nine of version 9.
CallListAsSent ==
    upcall.kind = "calls" /\ upcall.sent.num \in 1..9 => upcall.got = upcall.sent
=============================================================================
