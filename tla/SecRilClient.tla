---------------------------- MODULE SecRilClient ----------------------------
(***************************************************************************)
(* libsecril-client, the library through which the audio HAL talks to rild *)
(* (secril-client.cpp), under the calls ril_interface.c makes of it.  The  *)
(* HAL calls it with adev->lock held, from a thread of its own or from the *)
(* handler of a report, voice_session_wb_amr_callback, which runs on the   *)
(* reader; only adev_close calls ril_close without that lock.  Every       *)
(* Connect_RILD starts a reader thread, RxReaderFunc.  The threads share   *)
(* the client structure without a lock: each step below is what a thread   *)
(* does between two looks at what another thread may change.  rild         *)
(* answers, reports on its own, dies and comes back.                       *)
(*                                                                         *)
(* A reader selects on descriptors and works on whatever the structure     *)
(* holds when it wakes.  A descriptor is a number: one that was closed may *)
(* be the number of the next connection.  A socket that is full (EAGAIN)   *)
(* is not modelled, nor what a thread does with a structure that has been  *)
(* freed: it is not stepped any more.  An abort is FD_SET or FD_ISSET of   *)
(* -1, or pthread_join of a thread joined before.                          *)
(***************************************************************************)
EXTENDS Integers, Sequences, FiniteSets, FiniteSetsExt

CONSTANTS
    Fds,          \* descriptor numbers a socket may get
    Tokens,       \* the bits of token_pool, 32 in the code
    Functions,    \* the calls of the library that the client makes
    MaxConnects,  \* bound: connections tried
    MaxCalls,     \* bound: requests the client makes
    MaxDeaths,    \* bound: deaths of rild
    MaxReports    \* bound: unsolicited messages
ASSUME ClientAssumption ==
    /\ Fds \subseteq Nat \ {0}
    /\ Tokens \subseteq Nat \ {0} /\ Tokens # {}
    /\ MaxConnects \in Nat \ {0} /\ MaxCalls \in Nat
    /\ MaxDeaths \in Nat /\ MaxReports \in Nat

NoFd == -1
Conns == 1..MaxConnects
NoConn == 0

VARIABLES
    \* RilClientPrv
    sock, b_connect, token_pool, history, handler, b_del_handler,
    pipefd,    \* the connection whose pipe it is
    p_rs,      \* the descriptor the record stream reads
    tid,       \* tid_reader: the reader of which connection; 0 when joined or none
    \* the kernel
    file,      \* the connection behind a descriptor
    pipes,     \* the state of each connection's pipe: "none", "open", "close", "closed"
    sent,      \* the tokens of the requests on their way to rild
    received,  \* the messages on their way to the client
    \* rild
    rild,      \* it runs
    up,        \* its end of each connection is open
    \* the call of the library that is under way
    stage, call, token, load, err,
    holder,    \* who has adev->lock: the reader of this connection, or NoConn
    waited,    \* a call with a handler has been made
    overlap,   \* a connection was made while the reader of one before still ran
    \* ril_close
    closing,   \* where it is, "none" before it is called
    joining,   \* the argument of pthread_join
    aborted,
    \* the readers, one per connection
    reader, rset, rtoken, rload,
    connects, calls, deaths, reports

shared == <<sock, b_connect, token_pool, history, handler, b_del_handler, pipefd, p_rs, tid>>
kernel == <<file, pipes, sent, received>>
server == <<rild, up, deaths, reports>>
client == <<stage, call, token, load, err, holder, waited, overlap, connects, calls>>
close == <<closing, joining, aborted>>
readers == <<reader, rset, rtoken, rload>>
clientVars == <<shared, kernel, server, client, close, readers>>

-----------------------------------------------------------------------------
\* The calls: the request ID, whether the argument is checked and may be refused,
\* and whether a handler waits for the answer.
Request(id, checked, waits) == [id |-> id, checked |-> checked, waits |-> waits]
SetCallVolume == Request("SET_CALL_VOLUME", TRUE, FALSE)
SetCallAudioPath == Request("SET_AUDIO_PATH", TRUE, FALSE)
SetCallClockSync == Request("SET_CALL_CLOCK_SYNC", TRUE, FALSE)
SetVideoCallClockSync == Request("SET_CALL_VT_CTRL", TRUE, FALSE)
SetCallRecord == Request("SET_CALL_RECORDING", TRUE, FALSE)
SetMute == Request("SET_CALL_MUTE", TRUE, FALSE)
GetMute == Request("GET_CALL_MUTE", FALSE, TRUE)
SetTwoMicControl == Request("SET_TWO_MIC_CTRL", TRUE, FALSE)
SetDhaSolution == Request("SET_DHA_CTRL", FALSE, FALSE)
SetLoopbackTest == Request("SET_LOOPBACK", FALSE, FALSE)
InvokeOemRequestHookRaw == Request("OEM_HOOK_RAW", FALSE, FALSE)
Library ==
    [ SetCallVolume |-> SetCallVolume, SetCallAudioPath |-> SetCallAudioPath,
      SetCallClockSync |-> SetCallClockSync, SetMute |-> SetMute,
      SetVideoCallClockSync |-> SetVideoCallClockSync, SetCallRecord |-> SetCallRecord,
      GetMute |-> GetMute, SetTwoMicControl |-> SetTwoMicControl,
      SetDhaSolution |-> SetDhaSolution, SetLoopbackTest |-> SetLoopbackTest,
      InvokeOemRequestHookRaw |-> InvokeOemRequestHookRaw ]

-----------------------------------------------------------------------------
\* token_pool and history.  The history is the slots in use, in their order: a
\* record takes the first free slot and the first match is cleared.
FirstFree == Min(Tokens \ token_pool)
RecordReqHistory(h, t, id) ==
    LET slot == Min({i \in 1..(Cardinality(DOMAIN h) + 1) : i \notin DOMAIN h})
    IN [i \in DOMAIN h \cup {slot} |-> IF i = slot THEN [token |-> t, id |-> id] ELSE h[i]]
ClearReqHistory(h, t) ==
    LET match == {i \in DOMAIN h : h[i].token = t}
    IN IF match = {} THEN h ELSE [i \in DOMAIN h \ {Min(match)} |-> h[i]]
\* The only handler is GetMute's.
FindReqHandler(t) ==
    handler /\ \E i \in DOMAIN history : history[i].token = t /\ history[i].id = GetMute.id

\* What a reader selects on, and what select found ready.
NoSet == [sock |-> NoFd, file |-> NoConn, pipe |-> NoConn, sockSet |-> FALSE, pipeSet |-> FALSE]

\* OpenClient_RILD.
ClientInit ==
    /\ sock = NoFd /\ b_connect = FALSE /\ token_pool = {} /\ history = << >>
    /\ handler = FALSE /\ b_del_handler = FALSE /\ pipefd = NoConn /\ p_rs = NoFd /\ tid = NoConn
    /\ file = [f \in Fds |-> NoConn] /\ pipes = [c \in Conns \cup {NoConn} |-> "none"]
    /\ sent = [c \in Conns |-> << >>] /\ received = [c \in Conns |-> << >>]
    /\ rild \in BOOLEAN /\ up = [c \in Conns |-> FALSE] /\ deaths = 0 /\ reports = 0
    /\ stage = "idle" /\ call = Library.SetLoopbackTest /\ token = 0 /\ load = {} /\ err = "none"
    /\ holder = NoConn /\ waited = FALSE /\ overlap = FALSE
    /\ closing = "none" /\ joining = NoConn /\ aborted = FALSE
    /\ reader = [c \in Conns |-> "none"]
    /\ rset = [c \in Conns |-> NoSet]
    /\ rtoken = [c \in Conns |-> 0] /\ rload = [c \in Conns |-> {}]
    /\ connects = 0 /\ calls = 0

\* Locals that are not read again get their first value back.
Goto(label) == stage' = label
Running == ~aborted /\ closing # "freed"

-----------------------------------------------------------------------------
ril_connect_if_required == Goto(IF b_connect THEN "check" ELSE "connect")
\* A call of ril_interface.c, which asks for the connection before the library's
\* call.
Begin(f) ==
    /\ stage = "idle" /\ calls < MaxCalls /\ (b_connect \/ connects < MaxConnects)
    /\ calls' = calls + 1 /\ call' = Library[f] /\ waited' = (waited \/ Library[f].waits)
    /\ ril_connect_if_required
    /\ UNCHANGED <<shared, kernel, server, close, readers, token, load, err, holder, overlap, connects>>
\* The HAL makes it under adev->lock.
ril_set(f) == holder = NoConn /\ closing = "none" /\ Begin(f)

\* Connect_RILD, Connect_QRILD and Connect_RILD_Second differ in the name of the
\* socket.  socket_local_client stores its result, -1 when rild is not there or no
\* descriptor is left.
ConnectSocket ==
    /\ stage = "connect"
    /\ IF rild /\ \E g \in Fds : file[g] = NoConn
       THEN \E f \in {g \in Fds : file[g] = NoConn} :
               /\ connects' = connects + 1
               /\ sock' = f /\ file' = [file EXCEPT ![f] = connects + 1]
               /\ up' = [up EXCEPT ![connects + 1] = TRUE]
               /\ overlap' = (overlap \/ \E c \in Conns : reader[c] \notin {"none", "ended"})
               /\ Goto("start")
       ELSE sock' = NoFd /\ Goto("idle") /\ UNCHANGED <<connects, file, up, overlap>>
    /\ UNCHANGED <<b_connect, token_pool, history, handler, b_del_handler, pipefd, p_rs, tid>>
    /\ UNCHANGED <<pipes, sent, received, readers, rild, deaths, reports>>
    /\ UNCHANGED <<call, token, load, err, holder, close, waited, calls>>

\* The rest of Connect_RILD: b_connect, the pipe and the reader thread.
ConnectStarts ==
    /\ stage = "start"
    /\ b_connect' = TRUE /\ p_rs' = sock /\ pipefd' = connects /\ tid' = connects
    /\ pipes' = [pipes EXCEPT ![connects] = "open"]
    /\ reader' = [reader EXCEPT ![connects] = "top"]
    /\ Goto("check")
    /\ UNCHANGED <<sock, token_pool, history, handler, b_del_handler>>
    /\ UNCHANGED <<file, sent, received, server, rset, rtoken, rload>>
    /\ UNCHANGED <<call, token, load, err, holder, close, waited, overlap, connects, calls>>

CloseFile(f) == file' = [g \in Fds |-> IF g = f THEN NoConn ELSE file[g]]

\* fcntl or pipe fails: the socket is closed, and the structure says connected.
ConnectFails ==
    /\ stage = "start"
    /\ b_connect' = TRUE /\ CloseFile(sock)
    /\ Goto("idle")
    /\ UNCHANGED <<sock, token_pool, history, handler, b_del_handler, pipefd, p_rs, tid>>
    /\ UNCHANGED <<pipes, sent, received, server, readers>>
    /\ UNCHANGED <<call, token, load, err, holder, close, waited, overlap, connects, calls>>

\* pthread_create fails: everything is closed and the structure is cleared.
ConnectNoThread ==
    /\ stage = "start"
    /\ CloseFile(sock) /\ sock' = NoFd /\ b_connect' = FALSE /\ token_pool' = {}
    /\ history' = << >> /\ handler' = FALSE /\ b_del_handler' = FALSE
    /\ pipefd' = NoConn /\ p_rs' = NoFd /\ tid' = NoConn
    /\ pipes' = [pipes EXCEPT ![connects] = "closed"]
    /\ Goto("idle")
    /\ UNCHANGED <<sent, received, server, readers>>
    /\ UNCHANGED <<call, token, load, err, holder, close, waited, overlap, connects, calls>>

\* The beginning of a call: not connected, or an argument that is refused.
CallRefused ==
    /\ stage = "check" /\ (sock = NoFd \/ call.checked)
    /\ Goto("idle")
    /\ UNCHANGED <<shared, kernel, server, readers, call, token, load, err, holder, close, waited, overlap, connects, calls>>
\* The handler is registered, or unregistered when there is none.
CallRegisters ==
    /\ stage = "check" /\ sock # NoFd
    /\ b_del_handler' = (b_del_handler \/ call.waits)
    /\ handler' = (handler \/ call.waits)
    /\ Goto("alloc")
    /\ UNCHANGED <<sock, b_connect, token_pool, history, pipefd, p_rs, tid>>
    /\ UNCHANGED <<kernel, server, readers, call, token, load, err, holder, close, waited, overlap, connects, calls>>

-----------------------------------------------------------------------------
\* SendOemRequestHookRaw.  AllocateToken loads the pool and stores it with one bit
\* more; the reader may store it in between.
AllocateToken ==
    /\ stage = "alloc"
    /\ IF Tokens \subseteq token_pool
       THEN Goto("idle") /\ handler' = (handler /\ ~call.waits) /\ UNCHANGED <<token, load>>
       ELSE token' = FirstFree /\ load' = token_pool /\ Goto("record") /\ UNCHANGED handler
    /\ UNCHANGED <<sock, b_connect, token_pool, history, b_del_handler, pipefd, p_rs, tid>>
    /\ UNCHANGED <<kernel, server, readers, call, err, holder, close, waited, overlap, connects, calls>>
TokenRecorded ==
    /\ stage = "record"
    /\ token_pool' = load \cup {token} /\ load' = {}
    /\ history' = RecordReqHistory(history, token, call.id)
    /\ Goto("write")
    /\ UNCHANGED <<sock, b_connect, handler, b_del_handler, pipefd, p_rs, tid>>
    /\ UNCHANGED <<kernel, server, readers, call, token, err, holder, close, waited, overlap, connects, calls>>

\* blockingWrite of the header and the data.  On an error it closes the descriptor.
WriteSent ==
    /\ stage = "write" /\ sock # NoFd
    /\ file[sock] # NoConn /\ up[file[sock]]
    /\ sent' = [sent EXCEPT ![file[sock]] = Append(@, token)]
    /\ Goto("sent")
    /\ UNCHANGED <<shared, file, pipes, received, server, readers>>
    /\ UNCHANGED <<call, token, load, err, holder, close, waited, overlap, connects, calls>>
WriteFails ==
    /\ stage = "write"
    /\ \/ sock = NoFd /\ err' = "EBADF"
       \/ sock # NoFd /\ file[sock] = NoConn /\ err' = "EBADF"
       \/ sock # NoFd /\ file[sock] # NoConn /\ ~up[file[sock]] /\ err' = "EPIPE"
    /\ CloseFile(sock)
    /\ Goto("free")
    /\ UNCHANGED <<shared, pipes, sent, received, server, readers>>
    /\ UNCHANGED <<call, token, load, holder, close, waited, overlap, connects, calls>>
\* (mutant) The token of a request that nobody waits for is kept until the answer.
TokenKept_Always ==
    /\ stage = "sent"
    /\ Goto("idle")
    /\ UNCHANGED <<shared, kernel, server, readers, call, token, load, err, holder, close, waited, overlap, connects, calls>>
\* "deregister token to prevent token pool overflow".
TokenKept ==
    /\ stage = "sent"
    /\ Goto(IF FindReqHandler(token) THEN "idle" ELSE "free")
    /\ UNCHANGED <<shared, kernel, server, readers, call, token, load, err, holder, close, waited, overlap, connects, calls>>
\* FreeToken loads the pool and stores it; ClearReqHistory.
FreeToken ==
    /\ stage = "free"
    /\ load' = token_pool
    /\ Goto("clear")
    /\ UNCHANGED <<shared, kernel, server, readers, call, token, err, holder, close, waited, overlap, connects, calls>>
TokenFreed ==
    /\ stage = "clear"
    /\ token_pool' = load \ {token} /\ load' = {} /\ token' = 0
    /\ history' = ClearReqHistory(history, token)
    /\ Goto(IF err = "none" THEN "idle" ELSE "failed")
    /\ UNCHANGED <<sock, b_connect, handler, b_del_handler, pipefd, p_rs, tid>>
    /\ UNCHANGED <<kernel, server, readers, call, err, holder, close, waited, overlap, connects, calls>>
\* A broken connection is closed and forgotten; not so after EBADF, which is not
\* the EBADFD of the test.  The handler of the call is unregistered.
SendFailed ==
    /\ stage = "failed"
    /\ IF err = "EPIPE"
       THEN CloseFile(sock) /\ sock' = NoFd /\ b_connect' = FALSE
       ELSE UNCHANGED <<file, sock, b_connect>>
    /\ handler' = (handler /\ ~call.waits) /\ err' = "none"
    /\ Goto("idle")
    /\ UNCHANGED <<token_pool, history, b_del_handler, pipefd, p_rs, tid>>
    /\ UNCHANGED <<pipes, sent, received, server, readers, call, token, load, holder, close, waited, overlap, connects, calls>>

-----------------------------------------------------------------------------
\* ril_close: Disconnect_RILD, and CloseClient_RILD, which disconnects again and
\* frees the structure.  No call of the HAL is under way, but a reader may be in its
\* handler.
Moves(label) == closing' = label
ril_close ==
    /\ closing = "none" /\ (holder = NoConn => stage = "idle")
    /\ Moves("disconnect")
    /\ UNCHANGED <<shared, kernel, server, client, readers, joining, aborted>>
Disconnect_RILD ==
    /\ closing \in {"disconnect", "disconnect2"}
    /\ Moves(CASE sock = NoFd /\ closing = "disconnect" -> "disconnect2"
               [] sock = NoFd /\ closing = "disconnect2" -> "freed"
               [] sock # NoFd /\ closing = "disconnect" -> "ask"
               [] sock # NoFd /\ closing = "disconnect2" -> "ask2")
    /\ UNCHANGED <<shared, kernel, server, client, readers, joining, aborted>>
\* (mutant) Only b_connect is reset, which a reader in select does not see.
DisconnectAsks_NoWrite ==
    /\ closing \in {"ask", "ask2"}
    /\ b_connect' = FALSE /\ joining' = tid
    /\ Moves(IF closing = "ask" THEN "join" ELSE "join2")
    /\ UNCHANGED <<sock, token_pool, history, handler, b_del_handler, pipefd, p_rs, tid>>
    /\ UNCHANGED <<kernel, server, client, readers, aborted>>
\* "close" is written to the pipe if the socket is still there.
DisconnectAsks ==
    /\ closing \in {"ask", "ask2"}
    /\ pipes' = [c \in DOMAIN pipes |-> IF c = pipefd /\ sock # NoFd /\ pipes[c] = "open"
                                 THEN "close" ELSE pipes[c]]
    /\ b_connect' = FALSE /\ joining' = tid
    /\ Moves(IF closing = "ask" THEN "join" ELSE "join2")
    /\ UNCHANGED <<sock, token_pool, history, handler, b_del_handler, pipefd, p_rs, tid>>
    /\ UNCHANGED <<file, sent, received, server, client, readers, aborted>>
\* pthread_join of the reader; of no thread, or of one joined before, it aborts.
ReaderJoined ==
    /\ closing \in {"join", "join2"}
    /\ joining # NoConn => reader[joining] = "ended"
    /\ IF joining = NoConn THEN aborted' = TRUE /\ UNCHANGED closing
       ELSE Moves(IF closing = "join" THEN "disconnect2" ELSE "freed") /\ UNCHANGED aborted
    /\ tid' = IF tid = joining THEN NoConn ELSE tid
    /\ joining' = NoConn
    /\ UNCHANGED <<sock, b_connect, token_pool, history, handler, b_del_handler, pipefd, p_rs>>
    /\ UNCHANGED <<kernel, server, client, readers>>

-----------------------------------------------------------------------------
\* RxReaderFunc, the thread that connection c started.
At(c, label) == reader[c] = label /\ Running
To(c, label) == reader' = [reader EXCEPT ![c] = label]
Aborts(c) == aborted' = TRUE /\ UNCHANGED <<reader, rset>>

\* The loop's test, FD_SET of what the structure holds, and select.  A descriptor
\* that is closed already makes select fail.
SelectEntered(c) ==
    /\ At(c, "top") /\ b_connect
    /\ IF sock = NoFd THEN Aborts(c)
       ELSE /\ rset' = [rset EXCEPT ![c].sock = sock, ![c].file = file[sock],
                                           ![c].pipe = pipefd]
            /\ To(c, IF file[sock] = NoConn THEN "broken" ELSE "select")
            /\ UNCHANGED aborted
    /\ UNCHANGED <<shared, kernel, server, client, closing, joining, rtoken, rload>>
ReaderEnds(c) ==
    /\ At(c, "top") /\ ~b_connect
    /\ To(c, "ended")
    /\ UNCHANGED <<shared, kernel, server, client, close, rset, rtoken, rload>>

\* select holds on to the files it waits for: a descriptor closed meanwhile does
\* not wake it, the end of the connection does.
SockReady(c) == LET x == rset[c].file IN received[x] # << >> \/ ~up[x]
PipeReady(c) == pipes[rset[c].pipe] \in {"close", "closed"}
SelectReturns(c) ==
    /\ At(c, "select") /\ (SockReady(c) \/ PipeReady(c))
    /\ rset' = [rset EXCEPT ![c].sockSet = SockReady(c), ![c].pipeSet = PipeReady(c)]
    /\ To(c, "woken")
    /\ UNCHANGED <<shared, kernel, server, client, close, rtoken, rload>>
\* FD_ISSET of the socket the structure holds now.
SockTested(c) ==
    /\ At(c, "woken")
    /\ IF sock = NoFd THEN Aborts(c)
       ELSE /\ To(c, IF sock = rset[c].sock /\ rset[c].sockSet THEN "read" ELSE "pipe")
            /\ UNCHANGED <<aborted, rset>>
    /\ UNCHANGED <<shared, kernel, server, client, closing, joining, rtoken, rload>>
\* record_stream_get_next: a message, nothing more for now, or the end.
Message(c) == received[file[p_rs]]
ReadEnds(c) ==
    /\ At(c, "read")
    /\ p_rs \in Fds /\ file[p_rs] # NoConn => Message(c) = << >>
    /\ To(c, IF p_rs \in Fds /\ file[p_rs] # NoConn /\ up[file[p_rs]] THEN "pipe" ELSE "lost")
    /\ UNCHANGED <<shared, kernel, server, client, close, rset, rtoken, rload>>
TakeMessage(c) ==
    /\ At(c, "read") /\ p_rs \in Fds /\ file[p_rs] # NoConn /\ Message(c) # << >>
    /\ received' = [received EXCEPT ![file[p_rs]] = Tail(@)]
\* processUnsolicited: a report that nobody handles, or whose data is not valid, or
\* that goes to voice_session_wb_amr_callback.
processUnsolicited(c) ==
    /\ TakeMessage(c) /\ Head(Message(c)).kind = "unsolicited"
    /\ \E label \in {"read", "report"} : To(c, label)
    /\ UNCHANGED <<shared, file, pipes, sent, server, client, close, rset, rtoken, rload>>
\* voice_session_wb_amr_callback takes adev->lock; if the type has changed in a call,
\* stop_voice_call and start_voice_call call the library, which may connect again.
ReportLocks(c) ==
    /\ At(c, "report") /\ holder = NoConn /\ stage = "idle"
    /\ holder' = c
    /\ To(c, "callback")
    /\ UNCHANGED <<shared, kernel, server, close, rset, rtoken, rload>>
    /\ UNCHANGED <<stage, call, token, load, err, waited, overlap, connects, calls>>
ReportCalls(c, f) == At(c, "callback") /\ holder = c /\ ~Library[f].waits /\ Begin(f)
ReportUnlocks(c) ==
    /\ At(c, "callback") /\ holder = c /\ stage = "idle"
    /\ holder' = NoConn
    /\ To(c, "read")
    /\ UNCHANGED <<shared, kernel, server, close, rset, rtoken, rload>>
    /\ UNCHANGED <<stage, call, token, load, err, waited, overlap, connects, calls>>
\* processSolicited: an answer with an invalid token is dropped, after an error no
\* handler is called.
processSolicited(c) ==
    LET m == Head(Message(c))
    IN /\ TakeMessage(c) /\ m.kind = "answer"
       /\ rtoken' = [rtoken EXCEPT ![c] = IF m.token \in token_pool THEN m.token ELSE 0]
       /\ To(c, CASE m.token \notin token_pool -> "read"
                 [] m.token \in token_pool /\ m.ok /\ FindReqHandler(m.token) -> "handled"
                 [] m.token \in token_pool /\ ~(m.ok /\ FindReqHandler(m.token)) -> "free")
       /\ UNCHANGED <<shared, file, pipes, sent, server, client, close, rset, rload>>
\* The handler has returned.
HandlerDeleted(c) ==
    /\ At(c, "handled")
    /\ b_del_handler' = FALSE
    /\ To(c, IF b_del_handler THEN "unregister" ELSE "free")
    /\ UNCHANGED <<sock, b_connect, token_pool, history, handler, pipefd, p_rs, tid>>
    /\ UNCHANGED <<kernel, server, client, close, rset, rtoken, rload>>
HandlerUnregistered(c) ==
    /\ At(c, "unregister")
    /\ handler' = FALSE
    /\ To(c, "free")
    /\ UNCHANGED <<sock, b_connect, token_pool, history, b_del_handler, pipefd, p_rs, tid>>
    /\ UNCHANGED <<kernel, server, client, close, rset, rtoken, rload>>
ReaderFrees(c) ==
    /\ At(c, "free")
    /\ rload' = [rload EXCEPT ![c] = token_pool]
    /\ To(c, "freed")
    /\ UNCHANGED <<shared, kernel, server, client, close, rset, rtoken>>
ReaderFreed(c) ==
    /\ At(c, "freed")
    /\ token_pool' = rload[c] \ {rtoken[c]}
    /\ rload' = [rload EXCEPT ![c] = {}]
    /\ To(c, "clear")
    /\ UNCHANGED <<sock, b_connect, history, handler, b_del_handler, pipefd, p_rs, tid>>
    /\ UNCHANGED <<kernel, server, client, close, rset, rtoken>>
ReaderClears(c) ==
    /\ At(c, "clear")
    /\ history' = ClearReqHistory(history, rtoken[c])
    /\ rtoken' = [rtoken EXCEPT ![c] = 0]
    /\ To(c, "read")
    /\ UNCHANGED <<sock, b_connect, token_pool, handler, b_del_handler, pipefd, p_rs, tid>>
    /\ UNCHANGED <<kernel, server, client, close, rset, rload>>

\* (mutant) The reader ends and leaves the structure as it is.
ConnectionLost_Silent(c) ==
    /\ At(c, "lost") \/ At(c, "broken")
    /\ To(c, "ended") /\ rset' = [rset EXCEPT ![c] = NoSet]
    /\ UNCHANGED <<shared, kernel, server, client, close, rtoken, rload>>
\* The connection is over, or select failed and the loop goes on.  The audio HAL
\* has no error callback.
ConnectionLost(c) ==
    /\ At(c, "lost") \/ At(c, "broken")
    /\ IF sock # NoFd
       THEN CloseFile(sock) /\ sock' = NoFd /\ b_connect' = FALSE
       ELSE UNCHANGED <<file, sock, b_connect>>
    /\ To(c, IF reader[c] = "lost" THEN "ended" ELSE "top") /\ rset' = [rset EXCEPT ![c] = NoSet]
    /\ UNCHANGED <<token_pool, history, handler, b_del_handler, pipefd, p_rs, tid>>
    /\ UNCHANGED <<pipes, sent, received, server, client, close, rtoken, rload>>
\* FD_ISSET of the pipe the structure holds now, and the read of "close".
PipeTested(c) ==
    /\ At(c, "pipe")
    /\ To(c, "top")
    /\ IF pipefd = rset[c].pipe /\ rset[c].pipeSet /\ pipes[pipefd] = "close"
       THEN /\ CloseFile(sock) /\ pipes' = [pipes EXCEPT ![pipefd] = "closed"]
            /\ sock' = NoFd /\ b_connect' = FALSE
       ELSE UNCHANGED <<file, pipes, sock, b_connect>>
    /\ rset' = [rset EXCEPT ![c] = NoSet]
    /\ UNCHANGED <<token_pool, history, handler, b_del_handler, pipefd, p_rs, tid>>
    /\ UNCHANGED <<sent, received, server, client, close, rtoken, rload>>

-----------------------------------------------------------------------------
\* rild: it answers the requests of a connection in their order, reports a change
\* of the speech codec, dies with its connections and is started again.
RildAnswers(c, ok) ==
    /\ rild /\ sent[c] # << >> /\ Running
    /\ sent' = [sent EXCEPT ![c] = Tail(@)]
    /\ received' = [received EXCEPT
                      ![c] = Append(@, [kind |-> "answer", token |-> Head(sent[c]), ok |-> ok])]
    /\ UNCHANGED <<shared, file, pipes, server, client, close, readers>>
RildReports(c) ==
    /\ rild /\ up[c] /\ reports < MaxReports /\ Running
    /\ reports' = reports + 1
    /\ received' = [received EXCEPT ![c] = Append(@, [kind |-> "unsolicited"])]
    /\ UNCHANGED <<shared, file, pipes, sent, rild, up, deaths, client, close, readers>>
RildDies ==
    /\ rild /\ deaths < MaxDeaths /\ Running
    /\ rild' = FALSE /\ deaths' = deaths + 1
    /\ up' = [c \in Conns |-> FALSE] /\ sent' = [c \in Conns |-> << >>]
    /\ UNCHANGED <<shared, file, pipes, received, reports, client, close, readers>>
RildStarts ==
    /\ ~rild /\ Running
    /\ rild' = TRUE
    /\ UNCHANGED <<shared, kernel, up, deaths, reports, client, close, readers>>

CallerStep ==
    /\ Running
    /\ \/ ConnectSocket \/ ConnectStarts \/ ConnectFails \/ ConnectNoThread
       \/ CallRefused \/ CallRegisters \/ AllocateToken \/ TokenRecorded
       \/ WriteSent \/ WriteFails \/ TokenKept \/ FreeToken \/ TokenFreed \/ SendFailed
CloserStep == Running /\ (Disconnect_RILD \/ DisconnectAsks \/ ReaderJoined)
ReaderStep(c) ==
    \/ SelectEntered(c) \/ ReaderEnds(c) \/ SelectReturns(c) \/ SockTested(c)
    \/ ReadEnds(c) \/ processUnsolicited(c) \/ processSolicited(c)
    \/ HandlerDeleted(c) \/ HandlerUnregistered(c) \/ ReaderFrees(c) \/ ReaderFreed(c)
    \/ ReaderClears(c) \/ ConnectionLost(c) \/ PipeTested(c)
    \/ ReportLocks(c) \/ ReportUnlocks(c) \/ \E f \in Functions : ReportCalls(c, f)
RildStep ==
    \/ \E c \in Conns : RildReports(c) \/ \E ok \in BOOLEAN : RildAnswers(c, ok)
    \/ RildDies \/ RildStarts

ClientNext ==
    \/ \E f \in Functions : Running /\ ril_set(f)
    \/ Running /\ ril_close
    \/ CallerStep \/ CloserStep \/ RildStep
    \/ \E c \in Conns : ReaderStep(c)

\* The threads of the process run; the client need not call, nor rild answer.
Fairness ==
    /\ WF_clientVars(CallerStep) /\ WF_clientVars(CloserStep)
    /\ \A c \in Conns : WF_clientVars(ReaderStep(c))
ClientSpec == ClientInit /\ [][ClientNext]_clientVars /\ Fairness

-----------------------------------------------------------------------------
\* As long as no request waits for its answer, which is how the audio HAL uses the
\* library, every call leaves the pool and the history as it found them: empty,
\* although the reader frees the token of an answer that comes while the caller
\* still has it, and neither thread locks the pool.
TokensReturned ==
    stage = "idle" /\ ~waited => token_pool = {} /\ history = << >>

\* ril_close comes to its end, whatever rild does, and an abort is not an end.  There
\* are three exceptions.  After a connection that was made while the reader of an
\* earlier one still ran, in a later call or by the handler of a report on that reader,
\* the reader takes the socket or the pipe of the new one and "close" does not reach it.
\* Disconnect_RILD joins a thread that is not there, and aborts, when it finds the
\* socket still set after the reader has ended: the reader ends as soon as it sees
\* b_connect reset, before it has read "close", and the Disconnect_RILD of
\* CloseClient_RILD then joins it again; or Connect_RILD failed before pthread_create.
\* And a reader that has not yet looked at the socket aborts after a write that failed
\* has cleared it.
NoReaderToJoin == closing \in {"disconnect", "disconnect2"} /\ sock # NoFd /\ tid = NoConn
SocketCleared == sock = NoFd /\ \E c \in Conns : reader[c] \in {"select", "woken"}
DisconnectReturns ==
    closing = "disconnect" ~> closing = "freed" \/ overlap \/ NoReaderToJoin \/ SocketCleared

\* A connection rild has closed does not stay the client's connection: a write or
\* the reader notices, and the next call connects again.
Dead(c) == sock \in Fds /\ file[sock] = c /\ ~up[c]
LossNoticed == \A c \in Conns : Dead(c) /\ stage # "start" ~> ~Dead(c) \/ ~Running
=============================================================================
