------------------------------- MODULE Levin -------------------------------
(***************************************************************************)
(* One connection of the levin protocol:                                   *)
(* levin_protocol_handler_async.h (async_protocol_handler) over            *)
(* abstract_tcp_server2.inl (connection).  Threads call invoke,            *)
(* async_invoke and notify; the strand of the connection reads; writes     *)
(* complete, timers expire and the connection is closed on other threads.  *)
(* An invoke that waits serves the io_service meanwhile: a handler that    *)
(* runs on its thread may make a call of its own, to which m_call_lock, a  *)
(* recursive mutex, is open.                                               *)
(*                                                                         *)
(* A step ends where a lock is taken or released or a flag that another    *)
(* thread uses is read or written.  A packet is its header and its body,   *)
(* the two entries it takes in m_send_que.  The peer follows the protocol: *)
(* it answers requests in the order in which they came, once or never.     *)
(***************************************************************************)
EXTENDS Naturals, Sequences, FiniteSets, Functions

CONSTANTS
  Async, Sync, Notify,  \* the calls that will be made, each by a thread or under a waiting invoke
  Node,                 \* the node itself, which may close the connection
  Nobody,               \* no call
  QueMax,               \* ABSTRACT_SERVER_SEND_QUE_MAX_COUNT
  MaxIncoming           \* bound on the requests of the peer

Calls   == Async \cup Sync \cup Notify
Closers == Calls \cup {Node}

ASSUME CallsAssumption ==
  /\ IsFiniteSet(Calls)
  /\ Async \cap Sync = {} /\ Async \cap Notify = {} /\ Sync \cap Notify = {}
  /\ Node \notin Calls /\ Nobody \notin Closers
ASSUME BoundsAssumption == QueMax \in Nat /\ MaxIncoming \in Nat

VARIABLES
  pc,          \* where each call is
  under,       \* the invoke on whose waiting thread a handler makes the call, if any
  cb,          \* (history) how often the callback of an asynchronous call was called
  got,         \* (history) whose answer a call was given
  timer,       \* the timer of the invoke_handler of a call
  handlers,    \* m_invoke_response_handlers
  refs,        \* m_self_refs and m_wait_count, which move together
  bufReady, invBuf,    \* m_invoke_buf_ready, m_local_inv_buff
  que, writing,        \* m_send_que; an async_write is pending
  shut,        \* m_was_shutdown
  releasing,   \* a thread is between m_was_shutdown and release_protocol
  released,    \* m_protocol_released
  wantClose, closeCalled,   \* m_want_close_connection, m_close_called
  closer,      \* who is inside connection::close and what size it has read
  reader,      \* the read handler: where it is and the packet it has
  destroyed,   \* the destructor has run
  wire,        \* requests the peer has not answered
  inbox,       \* packets on the way from the peer
  incoming     \* requests the peer has sent

callVars  == << pc, under, got, bufReady, invBuf >>
timerVars == << cb, timer, handlers, refs >>
sendVars  == << que, writing >>
closeVars == << shut, releasing, released, wantClose, closeCalled, closer >>
peerVars  == << wire, inbox, incoming >>
vars == << callVars, timerVars, sendVars, closeVars, reader, destroyed, peerVars >>

Reading == [pc |-> "read", msg |-> Nobody]
NotReading == [pc |-> "off", msg |-> Nobody]

Init ==
  /\ pc = [c \in Calls |-> "idle"] /\ under = [c \in Calls |-> Nobody]
  /\ got = [c \in Calls |-> Nobody]
  /\ cb = [c \in Async |-> 0] /\ timer = [c \in Async |-> "none"]
  /\ handlers = <<>> /\ refs = 0 /\ bufReady = FALSE /\ invBuf = Nobody
  /\ que = <<>> /\ writing = FALSE
  /\ shut = FALSE /\ releasing = FALSE /\ released = FALSE
  /\ wantClose = FALSE /\ closeCalled = FALSE /\ closer = [x \in Closers |-> "no"]
  /\ reader = Reading /\ destroyed = FALSE
  /\ wire = <<>> /\ inbox = <<>> /\ incoming = 0

-----------------------------------------------------------------------------
(***************************************************************************)
(* Locks.  A call holds m_call_lock from "head" on, m_send_lock (and an    *)
(* asynchronous one m_invoke_response_handlers_lock) between its two       *)
(* do_send.  A thread whose invoke waits holds m_call_lock and may take it *)
(* again, for a call under that invoke, which goes on when that call ends. *)
(***************************************************************************)
HasCallLock(c) == pc[c] \in {"head", "add", "body", "wait", "closing"}
HasSendLock(c) == pc[c] \in {"add", "body"}
CallLockFree     == \A c \in Calls : ~HasCallLock(c)
SendLockFree     == \A c \in Calls : ~HasSendLock(c)
HandlersLockFree == \A c \in Async : ~HasSendLock(c)
Active  == {"ref", "head", "add", "body", "overflow", "err", "wait", "closing"}
Busy(s) == \E c \in Calls : under[c] = s /\ pc[c] \in Active

(***************************************************************************)
(* connection: shutdown, release_protocol, do_send.                        *)
(***************************************************************************)
Goto(c, l) == pc' = [pc EXCEPT ![c] = l]

\* Mutant of Armed: the handlers that release_protocol cancels are forgotten.
ArmedForgotten == {}
\* cancel_timer succeeds for a handler whose timer is still pending.
Armed == { c \in Range(handlers) : timer[c] = "armed" }

\* release_protocol: all handlers are taken out of the list and cancelled; a
\* cancelled one calls its callback and ends its outer call.
ReleaseProtocol ==
  /\ released' = TRUE /\ handlers' = <<>>
  /\ cb' = [c \in Async |-> IF c \in Armed THEN cb[c] + 1 ELSE cb[c]]
  /\ timer' = [c \in Async |-> IF c \in Range(handlers) /\ timer[c] = "armed" THEN "off" ELSE timer[c]]
  /\ refs' = refs - Cardinality(Armed)

\* shutdown up to its call of release_protocol, which waits for the handlers' lock.
Shutdown == shut' = TRUE /\ releasing' = (releasing \/ ~shut)

QueFull == Len(que) > QueMax
\* do_send when the connection is alive and the queue not too long.
Enqueue(part) ==
  /\ ~shut /\ ~QueFull
  /\ que' = Append(que, part) /\ writing' = TRUE
\* do_send when the queue is too long: close() and shutdown() at once, on the
\* calling thread, with the locks it holds.
Overflow ==
  /\ ~shut /\ QueFull
  /\ wantClose' = TRUE /\ shut' = TRUE
  /\ ReleaseProtocol

-----------------------------------------------------------------------------
(***************************************************************************)
(* The calls.                                                              *)
(***************************************************************************)
\* find_and_lock_connection: start_outer_call, refused after a shutdown.  The caller
\* is a thread of its own, or a handler that call_run_once_service_io runs.
Runners == { s \in Sync : pc[s] = "wait" /\ ~Busy(s) }
FindAndLock(c) ==
  /\ pc[c] = "idle" /\ ~destroyed
  /\ \E s \in Runners \cup {Nobody} : under' = [under EXCEPT ![c] = s]
  /\ IF shut THEN Goto(c, "refused") /\ UNCHANGED refs
             ELSE Goto(c, "ref") /\ refs' = refs + 1
  /\ UNCHANGED << got, bufReady, invBuf, cb, timer, handlers, sendVars, closeVars, reader, destroyed, peerVars >>

\* m_call_lock, which the thread of the waiting invoke has; an invoke forgets the
\* answer of the one before.
Enter(c) ==
  /\ pc[c] = "ref" /\ (under[c] = Nobody => CallLockFree)
  /\ Goto(c, "head")
  /\ bufReady' = (bufReady /\ c \in Notify)
  /\ UNCHANGED << under, got, invBuf, timerVars, sendVars, closeVars, reader, destroyed, peerVars >>

\* A failed do_send: an asynchronous call has yet to call its callback, the
\* others return.
Failed(c) == IF c \in Async THEN Goto(c, "err") ELSE Goto(c, "failed")
LeftBy(c) == IF c \in Async THEN refs ELSE refs - 1

SendHead(c) ==
  /\ pc[c] = "head" /\ SendLockFree /\ (c \in Async => HandlersLockFree)
  /\ \/ /\ Enqueue(<<c, "head">>)
        /\ Goto(c, IF c \in Async THEN "add" ELSE "body")
        /\ UNCHANGED << timerVars, closeVars >>
     \/ /\ shut
        /\ Failed(c) /\ refs' = LeftBy(c)
        /\ UNCHANGED << cb, timer, handlers, sendVars, closeVars >>
  /\ UNCHANGED << under, got, bufReady, invBuf, reader, destroyed, peerVars >>

\* add_invoke_response_handler: the handler is put into the list even when its
\* own start_outer_call fails and it has no timer.
AddHandler(c) ==
  /\ pc[c] = "add"
  /\ \/ /\ released
        /\ Goto(c, "err") /\ UNCHANGED << timer, handlers, refs >>
     \/ /\ ~released /\ shut
        /\ Goto(c, "err") /\ handlers' = Append(handlers, c) /\ UNCHANGED << timer, refs >>
     \/ /\ ~released /\ ~shut
        /\ Goto(c, "body") /\ handlers' = Append(handlers, c)
        /\ timer' = [timer EXCEPT ![c] = "armed"] /\ refs' = refs + 1
  /\ UNCHANGED << under, got, bufReady, invBuf, cb, sendVars, closeVars, reader, destroyed, peerVars >>

\* The body: an asynchronous call and a notify return, an invoke waits.
SendBody(c) ==
  /\ pc[c] = "body"
  /\ \/ /\ Enqueue(<<c, "body">>)
        /\ Goto(c, IF c \in Sync THEN "wait" ELSE "sent")
        /\ refs' = IF c \in Sync THEN refs ELSE refs - 1
        /\ UNCHANGED << cb, timer, handlers, closeVars >>
     \/ /\ shut
        /\ Failed(c) /\ refs' = LeftBy(c)
        /\ UNCHANGED << cb, timer, handlers, sendVars, closeVars >>
  /\ UNCHANGED << under, got, bufReady, invBuf, reader, destroyed, peerVars >>

\* A do_send of the call finds the queue too long.
SendOverflow(c) ==
  /\ \/ pc[c] = "head" /\ SendLockFree /\ (c \in Async => HandlersLockFree)
     \/ pc[c] = "body"
  /\ Overflow
  /\ Goto(c, "overflow")
  /\ UNCHANGED << under, got, bufReady, invBuf, sendVars, releasing, closeCalled, closer, reader, destroyed, peerVars >>
\* ... and returns false.
SendOverflowed(c) ==
  /\ pc[c] = "overflow"
  /\ Failed(c) /\ refs' = LeftBy(c)
  /\ UNCHANGED << under, got, bufReady, invBuf, cb, timer, handlers, sendVars, closeVars, reader, destroyed, peerVars >>

\* async_invoke reports its error, outside the locks.
ReportError(c) ==
  /\ pc[c] = "err"
  /\ cb' = [cb EXCEPT ![c] = @ + 1]
  /\ Goto(c, "failed") /\ refs' = refs - 1
  /\ UNCHANGED << under, got, bufReady, invBuf, timer, handlers, sendVars, closeVars, reader, destroyed, peerVars >>

\* invoke: the answer has come, or the protocol has been released.  The flag and the
\* buffer are those of the connection: a call under this one may have used both.
InvokeReturns(c) ==
  /\ pc[c] = "wait" /\ ~Busy(c) /\ (bufReady \/ released)
  /\ \/ ~released /\ Goto(c, "sent") /\ got' = [got EXCEPT ![c] = invBuf] /\ invBuf' = Nobody
     \/ released /\ Goto(c, "failed") /\ UNCHANGED << got, invBuf >>
  /\ refs' = refs - 1
  /\ UNCHANGED << under, bufReady, cb, timer, handlers, sendVars, closeVars, reader, destroyed, peerVars >>

-----------------------------------------------------------------------------
(***************************************************************************)
(* Closing: close() reads the size of the queue, then sets                 *)
(* m_want_close_connection, and shuts down if the size was 0.              *)
(***************************************************************************)
ReadQueSize(x) == closer' = [closer EXCEPT ![x] = IF que = <<>> THEN "empty" ELSE "busy"]

\* Mutant of InvokeTimeout: the call gives up and leaves the connection open.
InvokeTimeoutKeepsOpen(c) ==
  /\ pc[c] = "wait" /\ ~Busy(c) /\ ~bufReady /\ ~released
  /\ Goto(c, "failed") /\ refs' = refs - 1
  /\ UNCHANGED << under, got, bufReady, invBuf, cb, timer, handlers, sendVars, closeVars, reader, destroyed, peerVars >>
InvokeTimeout(c) ==
  /\ pc[c] = "wait" /\ ~Busy(c) /\ ~bufReady /\ ~released
  /\ Goto(c, "closing") /\ closeCalled' = TRUE /\ ReadQueSize(c)
  /\ UNCHANGED << under, got, bufReady, invBuf, timerVars, sendVars, shut, releasing, released, wantClose, reader, destroyed, peerVars >>

\* The timer expires: its handler is queued and cannot be cancelled any more.
TimerExpires(c) ==
  /\ timer[c] = "armed"
  /\ timer' = [timer EXCEPT ![c] = "due"]
  /\ UNCHANGED << callVars, cb, handlers, refs, sendVars, closeVars, reader, destroyed, peerVars >>
\* The timer's handler: the callback, then close().
TimerRuns(c) ==
  /\ timer[c] = "due"
  /\ timer' = [timer EXCEPT ![c] = "closing"]
  /\ cb' = [cb EXCEPT ![c] = @ + 1]
  /\ closeCalled' = TRUE /\ ReadQueSize(c)
  /\ UNCHANGED << callVars, handlers, refs, sendVars, shut, releasing, released, wantClose, reader, destroyed, peerVars >>

\* The node drops the connection: async_protocol_handler_config::close.
NodeCloses ==
  /\ closer[Node] = "no" /\ ~destroyed
  /\ closeCalled' = TRUE /\ ReadQueSize(Node)
  /\ UNCHANGED << callVars, timerVars, sendVars, shut, releasing, released, wantClose, reader, destroyed, peerVars >>

\* Mutant of CloseEnds: the wish to close is not left for the write handler.
CloseEndsQuietly(x) ==
  /\ closer[x] \in {"empty", "busy"}
  /\ IF closer[x] = "empty" THEN Shutdown ELSE UNCHANGED << shut, releasing >>
  /\ closer' = [closer EXCEPT ![x] = "done"]
  /\ \/ x = Node /\ UNCHANGED << pc, timer, refs >>
     \/ x \in Sync /\ Goto(x, "failed") /\ refs' = refs - 1 /\ UNCHANGED timer
     \/ x \in Async /\ timer' = [timer EXCEPT ![x] = "off"] /\ refs' = refs - 1 /\ UNCHANGED pc
  /\ UNCHANGED << under, got, bufReady, invBuf, cb, handlers, sendVars, wantClose, released, closeCalled, reader, destroyed, peerVars >>
\* The second half of close(), and what follows it.
CloseEnds(x) ==
  /\ closer[x] \in {"empty", "busy"}
  /\ wantClose' = TRUE
  /\ IF closer[x] = "empty" THEN Shutdown ELSE UNCHANGED << shut, releasing >>
  /\ closer' = [closer EXCEPT ![x] = "done"]
  /\ \/ x = Node /\ UNCHANGED << pc, timer, refs >>
     \/ x \in Sync /\ Goto(x, "failed") /\ refs' = refs - 1 /\ UNCHANGED timer
     \/ x \in Async /\ timer' = [timer EXCEPT ![x] = "off"] /\ refs' = refs - 1 /\ UNCHANGED pc
  /\ UNCHANGED << under, got, bufReady, invBuf, cb, handlers, sendVars, released, closeCalled, reader, destroyed, peerVars >>

\* The second half of shutdown().
Release ==
  /\ releasing /\ HandlersLockFree
  /\ releasing' = FALSE
  /\ ReleaseProtocol
  /\ UNCHANGED << callVars, sendVars, shut, wantClose, closeCalled, closer, reader, destroyed, peerVars >>

-----------------------------------------------------------------------------
(***************************************************************************)
(* The write handler.                                                      *)
(***************************************************************************)
HandleWrite ==
  /\ writing /\ ~shut
  /\ que' = Tail(que) /\ writing' = (Len(que) > 1)
  /\ IF Len(que) = 1 /\ wantClose THEN Shutdown ELSE UNCHANGED << shut, releasing >>
  /\ wire' = IF Head(que)[2] = "body" /\ Head(que)[1] \notin Notify
             THEN Append(wire, Head(que)[1]) ELSE wire
  /\ UNCHANGED << callVars, timerVars, released, wantClose, closeCalled, closer, reader, destroyed, inbox, incoming >>
HandleWriteError ==
  /\ writing
  /\ writing' = FALSE /\ Shutdown
  /\ UNCHANGED << callVars, timerVars, que, released, wantClose, closeCalled, closer, reader, destroyed, peerVars >>

-----------------------------------------------------------------------------
(***************************************************************************)
(* The read handler: handle_recv.                                          *)
(***************************************************************************)
\* handle_read when handle_recv returns false: no further read.
WantClose ==
  /\ wantClose' = TRUE /\ reader' = NotReading
  /\ IF que = <<>> THEN Shutdown ELSE UNCHANGED << shut, releasing >>

HandleRecv ==
  /\ reader.pc = "read" /\ inbox # <<>> /\ ~shut
  /\ inbox' = Tail(inbox)
  /\ IF closeCalled THEN WantClose
     ELSE reader' = [pc |-> "got", msg |-> Head(inbox)] /\ UNCHANGED << wantClose, shut, releasing >>
  /\ UNCHANGED << callVars, timerVars, sendVars, released, closeCalled, closer, destroyed, wire, incoming >>

\* Mutant of HandleResponse: the first handler is served although its timer has expired.
HandleResponseLate ==
  /\ reader.pc = "got" /\ reader.msg \in Calls /\ HandlersLockFree /\ handlers # <<>>
  /\ LET c == Head(handlers) IN
       /\ handlers' = Tail(handlers) /\ timer' = [timer EXCEPT ![c] = IF @ = "armed" THEN "off" ELSE @]
       /\ cb' = [cb EXCEPT ![c] = @ + 1] /\ got' = [got EXCEPT ![c] = reader.msg]
       /\ refs' = IF timer[c] = "armed" THEN refs - 1 ELSE refs
  /\ reader' = Reading
  /\ UNCHANGED << pc, under, bufReady, invBuf, sendVars, closeVars, destroyed, peerVars >>
\* An answer goes to the first handler, if its timer can still be cancelled.
HandleResponse ==
  /\ reader.pc = "got" /\ reader.msg \in Calls /\ HandlersLockFree /\ handlers # <<>>
  /\ LET c == Head(handlers) IN
       \/ /\ timer[c] = "armed"
          /\ handlers' = Tail(handlers) /\ timer' = [timer EXCEPT ![c] = "off"]
          /\ cb' = [cb EXCEPT ![c] = @ + 1] /\ got' = [got EXCEPT ![c] = reader.msg]
          /\ refs' = refs - 1
       \/ /\ timer[c] # "armed"
          /\ UNCHANGED << timerVars, got >>
  /\ reader' = Reading
  /\ UNCHANGED << pc, under, bufReady, invBuf, sendVars, closeVars, destroyed, peerVars >>

\* Without handlers it is for an invoke that waits, if anybody does.
HandleSyncResponse ==
  /\ reader.pc = "got" /\ reader.msg \in Calls /\ HandlersLockFree /\ handlers = <<>>
  /\ \/ /\ refs = 0 /\ ~closeCalled
        /\ WantClose /\ UNCHANGED << bufReady, invBuf >>
     \/ /\ refs # 0 \/ closeCalled
        /\ bufReady' = TRUE /\ invBuf' = reader.msg
        /\ reader' = Reading /\ UNCHANGED << wantClose, shut, releasing >>
  /\ UNCHANGED << pc, under, got, timerVars, sendVars, released, closeCalled, closer, destroyed, peerVars >>

\* Mutant of HandleRequest: the answer is sent without m_send_lock.
HandleRequestUnlocked ==
  /\ reader.pc = "got" /\ reader.msg = Node
  /\ \/ /\ Enqueue(<<Node, "packet">>)
        /\ reader' = Reading /\ UNCHANGED << wantClose, shut, releasing >>
     \/ /\ shut
        /\ WantClose /\ UNCHANGED sendVars
  /\ UNCHANGED << callVars, timerVars, released, closeCalled, closer, destroyed, peerVars >>
\* A request of the peer: the command handler, and the answer in one do_send.
HandleRequest ==
  /\ reader.pc = "got" /\ reader.msg = Node /\ SendLockFree
  /\ \/ /\ Enqueue(<<Node, "packet">>)
        /\ reader' = Reading /\ UNCHANGED << wantClose, shut, releasing >>
     \/ /\ shut
        /\ WantClose /\ UNCHANGED sendVars
  /\ UNCHANGED << callVars, timerVars, released, closeCalled, closer, destroyed, peerVars >>
HandleRequestOverflow ==
  /\ reader.pc = "got" /\ reader.msg = Node /\ SendLockFree
  /\ Overflow
  /\ reader' = NotReading
  /\ UNCHANGED << callVars, sendVars, releasing, closeCalled, closer, destroyed, peerVars >>

\* The read fails (always after a shutdown); at the end of the stream nothing is done.
ReadError ==
  /\ reader.pc = "read"
  /\ reader' = NotReading /\ Shutdown
  /\ UNCHANGED << callVars, timerVars, sendVars, released, wantClose, closeCalled, closer, destroyed, peerVars >>
ReadEof ==
  /\ reader.pc = "read" /\ inbox = <<>>
  /\ reader' = NotReading
  /\ UNCHANGED << callVars, timerVars, sendVars, closeVars, destroyed, peerVars >>

\* Mutant of Destroy: the references of outer calls do not keep the object.
DestroyAnyway ==
  /\ ~destroyed /\ reader.pc = "off" /\ ~writing /\ ~releasing
  /\ closer[Node] \in {"no", "done"}
  /\ destroyed' = TRUE /\ shut' = TRUE
  /\ IF shut THEN UNCHANGED << released, timerVars >> ELSE ReleaseProtocol
  /\ UNCHANGED << callVars, sendVars, releasing, wantClose, closeCalled, closer, reader, peerVars >>
\* The last reference goes: neither a read nor a write is pending, and no outer
\* call holds one.  The destructor shuts down.
Destroy ==
  /\ ~destroyed /\ reader.pc = "off" /\ ~writing /\ ~releasing /\ refs = 0
  /\ closer[Node] \in {"no", "done"}
  /\ destroyed' = TRUE /\ shut' = TRUE
  /\ IF shut THEN UNCHANGED << released, timerVars >> ELSE ReleaseProtocol
  /\ UNCHANGED << callVars, sendVars, releasing, wantClose, closeCalled, closer, reader, peerVars >>

-----------------------------------------------------------------------------
(***************************************************************************)
(* The peer.                                                               *)
(***************************************************************************)
PeerAnswers ==
  /\ wire # <<>>
  /\ inbox' = Append(inbox, Head(wire)) /\ wire' = Tail(wire)
  /\ UNCHANGED << callVars, timerVars, sendVars, closeVars, reader, destroyed, incoming >>
PeerInvokes ==
  /\ incoming < MaxIncoming
  /\ incoming' = incoming + 1 /\ inbox' = Append(inbox, Node)
  /\ UNCHANGED << callVars, timerVars, sendVars, closeVars, reader, destroyed, wire >>

CallStep(c) ==
  \/ Enter(c) \/ SendHead(c) \/ (c \in Async /\ AddHandler(c)) \/ SendBody(c)
  \/ SendOverflow(c) \/ SendOverflowed(c)
  \/ (c \in Async /\ ReportError(c)) \/ (c \in Sync /\ InvokeReturns(c))
Read == HandleResponse \/ HandleSyncResponse \/ HandleRequest \/ HandleRequestOverflow
Write == HandleWrite \/ HandleWriteError

Next ==
  \/ \E c \in Calls : FindAndLock(c) \/ CallStep(c)
  \/ \E c \in Sync : InvokeTimeout(c)
  \/ \E c \in Async : TimerExpires(c) \/ TimerRuns(c)
  \/ NodeCloses \/ (\E x \in Closers : CloseEnds(x)) \/ Release
  \/ Write \/ HandleRecv \/ Read \/ ReadError \/ ReadEof \/ Destroy
  \/ PeerAnswers \/ PeerInvokes

Spec == Init /\ [][Next]_vars

\* Threads run, timers expire, a write is completed or fails, a packet that has
\* arrived is read and a pending read ends once the socket is shut down.  Nothing
\* is asked of the peer or of who takes m_call_lock next.
Fairness ==
  /\ \A c \in Calls : WF_vars(CallStep(c))
  /\ \A c \in Sync : WF_vars(InvokeTimeout(c))
  /\ \A c \in Async : WF_vars(TimerExpires(c)) /\ WF_vars(TimerRuns(c))
  /\ \A x \in Closers : WF_vars(CloseEnds(x))
  /\ WF_vars(Release) /\ WF_vars(Write) /\ WF_vars(HandleRecv) /\ WF_vars(Read)
  /\ WF_vars(shut /\ ReadError) /\ WF_vars(Destroy)
FairSpec == Spec /\ Fairness

-----------------------------------------------------------------------------
(***************************************************************************)
(* Properties                                                              *)
(***************************************************************************)
Labels == {"idle", "refused", "ref", "head", "add", "body", "overflow", "err", "wait", "closing", "sent", "failed"}
\* Types of the state; the number of references is a natural number: release() never
\* finds m_self_refs empty.
TypeOK ==
  /\ pc \in [Calls -> Labels] /\ under \in [Calls -> Sync \cup {Nobody}] /\ got \in [Calls -> Calls \cup {Nobody}]
  /\ cb \in [Async -> 0..2] /\ timer \in [Async -> {"none", "armed", "due", "closing", "off"}]
  /\ handlers \in Seq(Async) /\ refs \in Nat
  /\ bufReady \in BOOLEAN /\ invBuf \in Calls \cup {Nobody}
  /\ que \in Seq(Closers \X {"head", "body", "packet"}) /\ writing \in BOOLEAN
  /\ shut \in BOOLEAN /\ releasing \in BOOLEAN /\ released \in BOOLEAN
  /\ wantClose \in BOOLEAN /\ closeCalled \in BOOLEAN
  /\ closer \in [Closers -> {"no", "empty", "busy", "done"}]
  /\ reader \in [pc : {"read", "got", "off"}, msg : Closers \cup {Nobody}]
  /\ destroyed \in BOOLEAN
  /\ wire \in Seq(Calls) /\ inbox \in Seq(Closers) /\ incoming \in Nat

\* The connection object outlives every call, timer and close that uses it.
NoUseAfterDestroy ==
  destroyed =>
    /\ \A c \in Calls : pc[c] \in {"idle", "refused", "sent", "failed"}
    /\ \A c \in Async : timer[c] \in {"none", "off"}
    /\ \A x \in Closers : closer[x] \in {"no", "done"}

\* A callback is called once, whichever of the answer, the timer and the end of the
\* connection comes first.  It is called twice only for a call whose body could not
\* be sent after its handler was registered.
CallbackOnce == \A c \in Async : cb[c] > 1 => timer[c] # "none" /\ pc[c] = "failed"

\* Answers carry no number and are matched by order alone: a call gets the answer
\* of another one only on a connection that is already being closed, or when a handler
\* made a call under a waiting invoke: the one that took m_call_lock last then waits for
\* the answer that comes first.
NestedCall == \E c \in Calls : under[c] # Nobody
AnswerMatches == ~closeCalled /\ ~NestedCall => \A c \in Calls : got[c] \in {Nobody, c}

\* Packets of different threads are not mixed in the stream.
PacketsWhole ==
  \A i \in 1..(Len(que) - 1) :
    /\ que[i][2] = "head" => que[i + 1] = <<que[i][1], "body">>
    /\ que[i + 1][2] = "body" => que[i] = <<que[i + 1][1], "head">>

\* Every call ends, whatever the peer, the timers and the closing threads do: an
\* asynchronous call that was sent gets its callback, a synchronous one returns.
CallsEnd ==
  /\ \A c \in Async : pc[c] = "sent" ~> cb[c] > 0
  /\ \A c \in Sync : pc[c] = "wait" ~> pc[c] \in {"sent", "failed"}

\* close() ends the connection, but for one race: the last write completed between
\* its two halves and nobody shuts down until the peer sends something.
CloseEffective == closeCalled ~> (destroyed \/ (wantClose /\ ~shut /\ que = <<>>))

\* An expectation the code does not meet when a handler calls under a waiting invoke.
AnswerMatchesNested == ~closeCalled => \A c \in Calls : got[c] \in {Nobody, c}

\* An expectation the code does not meet when a send overflows the queue:
\* "Never call callback inside critical section, that can cause deadlock": a thread
\* calls no callback in a step it takes while it holds the locks of a call.
NoCallbackInsideLock ==
  [][\A c \in Calls : HasCallLock(c) /\ pc'[c] # pc[c] => cb' = cb]_vars
=============================================================================
