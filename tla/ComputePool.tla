---------------------------- MODULE ComputePool ----------------------------
(***************************************************************************)
(* RustComputeClient over its scheduler, and the socket server it talks    *)
(* to.  A call with an abort signal opens a connection of its own; one     *)
(* without borrows a shared channel, which keeps its connection from call  *)
(* to call.  The server runs a thread per connection behind two admission  *)
(* counters: connections, and computations (a condition variable).         *)
(*                                                                         *)
(* A thread learns that its client has gone only at a checkpoint of the    *)
(* computation or when it reads or writes, so it outlives its call.        *)
(*                                                                         *)
(* Definitions with a word after "_" are wrong on purpose, as in RunStore. *)
(***************************************************************************)
EXTENDS ComputeScheduler

CONSTANTS
    Signalled,     \* the calls with an AbortSignal
    Shared,        \* the shared channels, one per scheduler slot
    Sockets,       \* names of connections, used again when both ends are done
    NoSocket,      \* undefined
    MaxActive,     \* --max-active
    MaxConnections \* --max-connections

ASSUME ComputePoolAssumption ==
    /\ Signalled \subseteq Ops
    /\ IsFiniteSet(Shared) /\ Cardinality(Shared) = Capacity
    /\ NoOp \notin Shared /\ Shared \cap Ops = {}
    /\ NoSocket \notin Sockets
    /\ MaxActive \in Nat \ {0} /\ MaxConnections >= MaxActive

VARIABLES
    stage,     \* where RustSocketChannel.request stands for a started call
    channel,   \* the channel of a started call: a shared one, or its own name
    available, \* availableChannels
    socket,    \* socket of each channel
    peer,      \* whether the client's end of the connection is open
    thread,    \* the server's end of the connection
    frames     \* the requests on the connection that have no answer read, in order

poolVars == <<stage, channel, available, socket, peer, thread, frames>>

Channels == Shared \cup Signalled

Held(seq) == {seq[i] : i \in DOMAIN seq}

PoolTypeOK ==
    /\ stage \in [Ops -> {"none", "sent", "settled", "refused"}]
    /\ channel \in [Ops -> Channels \cup {NoOp}]
    /\ available \in Seq(Shared) /\ Len(available) <= Capacity
    /\ socket \in [Channels -> Sockets \cup {NoSocket}]
    /\ peer \in [Sockets -> BOOLEAN]
    /\ thread \in [Sockets -> {"none", "backlog", "reading", "acquiring", "waiting",
                               "computing", "replied"}]
    /\ frames \in [Sockets -> Seq(Ops)]

PoolInit ==
    /\ stage = [o \in Ops |-> "none"]
    /\ channel = [o \in Ops |-> NoOp]
    /\ available \in [1..Capacity -> Shared]
    /\ Shared \subseteq Held(available)
    /\ socket = [c \in Channels |-> NoSocket]
    /\ peer = [s \in Sockets |-> FALSE]
    /\ thread = [s \in Sockets |-> "none"]
    /\ frames = [s \in Sockets |-> <<>>]

Served == {s \in Sockets : thread[s] \in {"reading", "acquiring", "waiting", "computing", "replied"}}
Computing == {s \in Sockets : thread[s] = "computing"}

-----------------------------------------------------------------------------
(* The client *)

(* reset of a channel: the socket is destroyed, and with it the buffers *)
Reset(c) ==
    /\ socket' = [socket EXCEPT ![c] = NoSocket]
    /\ peer' = [s \in Sockets |-> peer[s] /\ s # socket[c]]

(* The operation that a started call runs, up to connect.  An abort that    *)
(* came first is seen by request.                                           *)
TakeChannel(o, aborted) ==
    /\ op[o] = "active" /\ stage[o] = "none" /\ channel[o] = NoOp
    /\ IF o \notin Signalled /\ available = <<>>
       THEN /\ stage' = [stage EXCEPT ![o] = "refused"]
            /\ UNCHANGED <<channel, available>>
       ELSE /\ stage' = IF aborted THEN [stage EXCEPT ![o] = "settled"] ELSE stage
            /\ channel' = [channel EXCEPT ![o] = IF o \in Signalled THEN o ELSE Head(available)]
            /\ available' = IF o \in Signalled THEN available ELSE Tail(available)
    /\ UNCHANGED <<vars, socket, peer, thread, frames>>

(* connect, if the channel has no connection, and the write of the frame *)
Send(o) ==
    LET c == channel[o]
    IN /\ op[o] = "active" /\ stage[o] = "none" /\ c # NoOp
       /\ ~closed
       /\ stage' = [stage EXCEPT ![o] = "sent"]
       /\ \/ /\ socket[c] # NoSocket
             /\ frames' = [frames EXCEPT ![socket[c]] = Append(@, o)]
             /\ UNCHANGED <<socket, peer, thread>>
          \/ /\ socket[c] = NoSocket
             /\ \E s \in Sockets :
                  /\ ~peer[s] /\ thread[s] = "none"
                  /\ socket' = [socket EXCEPT ![c] = s]
                  /\ peer' = [peer EXCEPT ![s] = TRUE]
                  /\ thread' = [thread EXCEPT ![s] = "backlog"]
                  /\ frames' = [frames EXCEPT ![s] = <<o>>]
       /\ UNCHANGED <<vars, channel, available>>

(* connect fails or times out, or the client is closed *)
ConnectFails(o) ==
    /\ op[o] = "active" /\ stage[o] = "none" /\ channel[o] # NoOp
    /\ stage' = [stage EXCEPT ![o] = "settled"]
    /\ UNCHANGED <<vars, channel, available, socket, peer, thread, frames>>

TimeOut_SocketKept(o) ==
    /\ stage[o] = "sent"
    /\ stage' = [stage EXCEPT ![o] = "settled"]
    /\ UNCHANGED <<vars, channel, available, socket, peer, thread, frames>>

(* The timeout of request, or an error of the socket *)
TimeOut(o) ==
    /\ stage[o] = "sent"
    /\ stage' = [stage EXCEPT ![o] = "settled"]
    /\ Reset(channel[o])
    /\ UNCHANGED <<vars, channel, available, thread, frames>>

(* onData.  The channel has one request pending, that of the call that     *)
(* holds it.                                                                *)
Answer(o) ==
    LET s == socket[channel[o]]
    IN /\ stage[o] = "sent"
       /\ s # NoSocket /\ thread[s] = "replied"
       /\ stage' = [stage EXCEPT ![o] = "settled"]
       /\ thread' = [thread EXCEPT ![s] = "reading"]
       /\ frames' = [frames EXCEPT ![s] = Tail(@)]
       /\ UNCHANGED <<vars, channel, available, socket, peer>>

(* The close event of a connection that the server has dropped *)
ConnectionLost(s) ==
    /\ peer[s] /\ thread[s] = "none"
    /\ peer' = [peer EXCEPT ![s] = FALSE]
    /\ socket' = [c \in Channels |-> IF socket[c] = s THEN NoSocket ELSE socket[c]]
    /\ stage' = [o \in Ops |-> IF stage[o] = "sent" /\ socket[channel[o]] = s
                               THEN "settled" ELSE stage[o]]
    /\ frames' = [frames EXCEPT ![s] = <<>>]
    /\ UNCHANGED <<vars, channel, available, thread>>

CallEnds_LeftOpen(o) ==
    LET c == channel[o]
    IN /\ stage[o] \in {"settled", "refused"}
       /\ OperationEnds(o)
       /\ stage' = [stage EXCEPT ![o] = "none"]
       /\ channel' = [channel EXCEPT ![o] = NoOp]
       /\ available' = IF o \in Signalled \/ closed \/ c = NoOp
                       THEN available ELSE Append(available, c)
       /\ UNCHANGED <<socket, peer, thread, frames>>

(* The finally of compute and then that of the scheduler: a call's own      *)
(* channel is closed, a shared one is given back.                           *)
CallEnds(o) ==
    LET c == channel[o]
    IN /\ stage[o] \in {"settled", "refused"}
       /\ OperationEnds(o)
       /\ stage' = [stage EXCEPT ![o] = "none"]
       /\ channel' = [channel EXCEPT ![o] = NoOp]
       /\ IF o \in Signalled
          THEN Reset(c) /\ UNCHANGED available
          ELSE /\ available' = IF closed \/ c = NoOp THEN available ELSE Append(available, c)
               /\ UNCHANGED <<socket, peer>>
       /\ UNCHANGED <<thread, frames>>

(* What the abort of its signal does to a call, wherever it stands *)
Abort(o) ==
    \/ /\ op[o] = "waiting"
       /\ GiveUp(o)
       /\ UNCHANGED poolVars
    \/ /\ op[o] = "active" /\ stage[o] = "sent"
       /\ stage' = [stage EXCEPT ![o] = "settled"]
       /\ Reset(channel[o])
       /\ UNCHANGED <<vars, channel, available, thread, frames>>
    \/ /\ op[o] = "active" /\ stage[o] = "none" /\ channel[o] # NoOp
       /\ stage' = [stage EXCEPT ![o] = "settled"]
       /\ UNCHANGED <<vars, channel, available, socket, peer, thread, frames>>
    \/ /\ op[o] = "idle" \/ stage[o] = "settled" \/ (stage[o] = "none" /\ channel[o] = NoOp /\ op[o] = "active")
       /\ UNCHANGED <<vars, poolVars>>

(* close *)
ClientClose ==
    /\ Close
    /\ stage' = [o \in Ops |-> IF stage[o] = "sent" THEN "settled" ELSE stage[o]]
    /\ available' = <<>>
    /\ socket' = [c \in Channels |-> NoSocket]
    /\ peer' = [s \in Sockets |-> FALSE]
    /\ UNCHANGED <<channel, thread, frames>>

-----------------------------------------------------------------------------
(* The socket server *)

(* serve accepts the connection, or drops it at the limit of connections *)
Accept(s) ==
    /\ thread[s] = "backlog"
    /\ thread' = [thread EXCEPT ![s] =
                    IF Cardinality(Served) < MaxConnections THEN "reading" ELSE "none"]
    /\ UNCHANGED <<vars, stage, channel, available, socket, peer, frames>>

(* read_socket_frame: a request that is in the buffer is read although its  *)
(* client has gone; an end of file or the read timeout ends the thread.     *)
ReadFrame(s) ==
    /\ thread[s] = "reading"
    /\ thread' = [thread EXCEPT ![s] = IF frames[s] # <<>> THEN "acquiring" ELSE "none"]
    /\ UNCHANGED <<vars, stage, channel, available, socket, peer, frames>>

(* Admission.acquire: the thread has the lock and tests the counter *)
Acquire(s) ==
    /\ thread[s] = "acquiring"
    /\ thread' = [thread EXCEPT ![s] =
                    IF Cardinality(Computing) < MaxActive THEN "computing" ELSE "waiting"]
    /\ UNCHANGED <<vars, stage, channel, available, socket, peer, frames>>

(* The permit is dropped and one of the threads that wait is woken. *)
Woken(t) ==
    IF \E w \in Sockets : t[w] = "waiting"
    THEN {[t EXCEPT ![w] = "acquiring"] : w \in {v \in Sockets : t[v] = "waiting"}}
    ELSE {t}

ComputationEnds_NoneWoken(s) ==
    /\ thread[s] = "computing"
    /\ thread' = [thread EXCEPT ![s] = IF peer[s] THEN "replied" ELSE "none"]
    /\ frames' = IF peer[s] THEN frames ELSE [frames EXCEPT ![s] = <<>>]
    /\ UNCHANGED <<vars, stage, channel, available, socket, peer>>

(* compute_with_control returns: with its result, or with the error of a    *)
(* checkpoint that found the client gone.  The answer is written to a       *)
(* client that is there, and the write fails on one that is not.            *)
ComputationEnds(s) ==
    /\ thread[s] = "computing"
    /\ thread' \in Woken([thread EXCEPT ![s] = IF peer[s] THEN "replied" ELSE "none"])
    /\ frames' = IF peer[s] THEN frames ELSE [frames EXCEPT ![s] = <<>>]
    /\ UNCHANGED <<vars, stage, channel, available, socket, peer>>

(* The client went after the answer was written. *)
AnswerLost(s) ==
    /\ thread[s] = "replied" /\ ~peer[s]
    /\ thread' = [thread EXCEPT ![s] = "none"]
    /\ frames' = [frames EXCEPT ![s] = <<>>]
    /\ UNCHANGED <<vars, stage, channel, available, socket, peer>>

ServerStep(s) ==
    Accept(s) \/ ReadFrame(s) \/ Acquire(s) \/ ComputationEnds(s) \/ AnswerLost(s)

-----------------------------------------------------------------------------
(* Properties *)

(* The answer a call reads is the answer to its request, although a call    *)
(* that timed out leaves its request at the server and its channel to the   *)
(* next call: the identity check of onData never has to fail.               *)
AnswersItsRequest ==
    \A o \in Ops : stage[o] = "sent" /\ socket[channel[o]] # NoSocket
                     => frames[socket[channel[o]]] = <<o>>

(* No wake-up is lost: while a computation slot of the server is free, a    *)
(* thread that waits for one is not left asleep alone.                      *)
NoLostWakeup ==
    (\E s \in Sockets : thread[s] = "waiting") /\ Cardinality(Computing) < MaxActive
      => \E s \in Sockets : thread[s] = "acquiring"

(* No connection is left behind: an open one belongs to a channel, and that *)
(* of an aborted or ended call with a signal is closed.                     *)
ConnectionsOwned ==
    \A s \in Sockets : peer[s] =>
        \E c \in Channels : /\ socket[c] = s
                            /\ c \in Signalled => channel[c] = c
=============================================================================
