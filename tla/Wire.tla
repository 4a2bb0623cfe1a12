-------------------------------- MODULE Wire --------------------------------
(***************************************************************************)
(* One direction of a connection between two remoteNodes, down to the      *)
(* bytes: sendMessage, networkSender and SendData at the end "out", the    *)
(* TCP stream, ReadData, networkConsumer, queueInboundMessage and the      *)
(* handler at the end "in" (cluster/remoteNode.go, comms/connection.go).   *)
(*                                                                         *)
(* The goroutines of an end form a run.Group (external): when one of them  *)
(* returns, the group calls the interrupt functions of all, in the order   *)
(* they were added, and the last one tears the end down when all are gone. *)
(* The goroutines that are not of this direction (pings, the parent, the   *)
(* other direction) may return at any time.                                *)
(***************************************************************************)
EXTENDS Integers, Sequences

CONSTANTS
    Message,    \* records [code, data], data a sequence of bytes
    ChanSize,   \* CHAN_SIZE
    Chunk,      \* bound: how many bytes get through when not all do
    MaxSent     \* bound: messages queued in a behaviour

Byte == 0 .. 255
Uint16Range == {c \in Nat : c < 65536}

(* TLC's largest integer: it stands for lengths of some 4 GB. *)
Huge == 2147483647

(* Codes are of 16 bits, and a body with its code fits a frame's length. *)
ASSUME WireAssumption ==
    /\ Message \subseteq [code : Uint16Range, data : Seq(Byte)]
    /\ \A m \in Message : Len(m.data) + 2 <= Huge
    /\ ChanSize \in Nat /\ MaxSent \in Nat

VARIABLES
    outbound,   \* outboundMsgQueue of "out"
    sender,     \* networkSender: [pc, frame, count]
    stream,     \* bytes on their way, in the sockets and in buffReader
    broken,     \* the network has failed
    consumer,   \* networkConsumer: [pc, dataLength, msgCode, data]
    inbound,    \* inboundMsgQueue of "in"
    handler,    \* handleMessage: "take", "verified" or "end"
    state,      \* remoteNode.state of each end
    group,      \* how far the run.Group of each end is with its end
    sent, passed, delivered   \* history: see Channel

outVars == <<outbound, sender>>
inVars == <<consumer, inbound, handler>>
history == <<sent, passed, delivered>>
vars == <<outVars, stream, broken, inVars, state, group, history>>

Side == {"out", "in"}
MsgVERIFY == 10
MsgVERIFYOK == 11

Nothing(pc) == [pc |-> pc, dataLength |-> 0, msgCode |-> 0, data |-> <<>>]

Init ==
    /\ outbound = <<>> /\ inbound = <<>>
    /\ sender = [pc |-> "take", frame |-> <<>>, count |-> 0]
    /\ consumer = Nothing("check")
    /\ handler = "take"
    /\ stream = <<>> /\ broken = FALSE
    /\ state = [s \in Side |-> "handshake"]
    /\ group = [s \in Side |-> 0]
    /\ sent = <<>> /\ passed = 0 /\ delivered = <<>>

-----------------------------------------------------------------------------
(* What the interrupt functions have done: close(done), close(inbound-     *)
(* MsgQueue), close(outboundMsgQueue), conn.Close, buffReader = nil.  All  *)
(* but the first set the state; handleVerify may set it again in between.  *)
doneClosed(s) == group[s] >= 1
inboundClosed == group["in"] >= 3
outboundClosed == group["out"] >= 4
connStaysOpen(s) == FALSE   \* mutant: connection.Close is forgotten
connClosed(s) == group[s] >= 5
readerGone(s) == group[s] >= 6
TornDown == 7

Crashed == consumer.pc = "panic"     \* no recover: the process is gone
Alive(s) == s = "in" => ~Crashed

Interrupt(s) ==
    /\ Alive(s)
    /\ group[s] \in 1 .. 5
    /\ group' = [group EXCEPT ![s] = @ + 1]
    /\ state' = [state EXCEPT ![s] = IF group[s] = 4 THEN @ ELSE "disconnected"]
    /\ UNCHANGED <<outVars, stream, broken, inVars, history>>

(* An actor returned. *)
Returned(s) == IF s = "out" THEN sender.pc = "end"
               ELSE consumer.pc = "end" \/ handler = "end"

Start(s) ==
    /\ Alive(s)
    /\ group[s] = 0
    /\ group' = [group EXCEPT ![s] = 1]
    /\ UNCHANGED <<outVars, stream, broken, inVars, state, history>>

(* The last actor: wg.Wait is over, tearDown. *)
tearDown(s) ==
    /\ Alive(s)
    /\ group[s] = 6
    /\ IF s = "out" THEN sender.pc = "end" ELSE consumer.pc = "end" /\ handler = "end"
    /\ group' = [group EXCEPT ![s] = TornDown]
    /\ UNCHANGED <<outVars, stream, broken, inVars, state, history>>

-----------------------------------------------------------------------------
(* The sending end. *)

(* Mutant: a queue without a limit. *)
sendMessageUnbounded ==
    /\ state["out"] # "disconnected" /\ ~outboundClosed
    /\ Len(sent) < MaxSent
    /\ \E m \in Message : outbound' = Append(outbound, m) /\ sent' = Append(sent, m)
    /\ UNCHANGED <<sender, stream, broken, inVars, state, group, passed, delivered>>

(* sendMessage that gets its message queued; it gives up when the end is   *)
(* disconnected or done, and when the channel is closed under it.          *)
sendMessage ==
    /\ state["out"] # "disconnected" /\ ~outboundClosed
    /\ Len(outbound) < ChanSize
    /\ Len(sent) < MaxSent
    /\ \E m \in Message : outbound' = Append(outbound, m) /\ sent' = Append(sent, m)
    /\ UNCHANGED <<sender, stream, broken, inVars, state, group, passed, delivered>>

(* Little-endian fields. *)
PutUint16(v) == <<v % 256, (v \div 256) % 256>>
PutUint32(v) == <<v % 256, (v \div 256) % 256, (v \div 65536) % 256, (v \div 16777216) % 256>>
Uint16(b) == b[1] + 256 * b[2]
Uint32(b) == b[1] + 256 * b[2] + 65536 * b[3] + 16777216 * b[4]

(* uint32 - 2; below zero it wraps to some 4 GB, which never arrive. *)
Minus2(v) == IF v >= 2 THEN v - 2 ELSE Huge

Frame(m) == PutUint32(Len(m.data) + 2) \o PutUint16(m.code) \o m.data

networkSender ==
    /\ sender.pc = "take"
    /\ \/ /\ outbound # <<>>
          /\ outbound' = Tail(outbound)
          /\ sender' = IF state["out"] = "disconnected" THEN sender
                       ELSE [pc |-> "write", frame |-> Frame(Head(outbound)), count |-> 0]
       \/ /\ outbound = <<>> /\ outboundClosed
          /\ sender' = [sender EXCEPT !.pc = "end"]
          /\ UNCHANGED outbound
    /\ UNCHANGED <<stream, broken, inVars, state, group, history>>

CanWrite == ~connClosed("out") /\ ~broken

Taken(size) == {size} \cup (Chunk \cap 1 .. size)

(* Mutant: a short write is not followed by the rest. *)
SendDataOnce ==
    /\ sender.pc = "write" /\ CanWrite
    /\ \E n \in Taken(Len(sender.frame)) :
          stream' = IF connClosed("in") \/ Crashed THEN stream
                    ELSE stream \o SubSeq(sender.frame, 1, n)
    /\ sender' = [pc |-> "take", frame |-> <<>>, count |-> 0]
    /\ UNCHANGED <<outbound, broken, inVars, state, group, history>>

(* SendData: one conn.Write, which may take a part of what is left.  What  *)
(* the other end no longer reads is lost.                                  *)
SendData ==
    /\ sender.pc = "write" /\ CanWrite
    /\ \E n \in Taken(Len(sender.frame) - sender.count) :
          /\ stream' = IF connClosed("in") \/ Crashed THEN stream
                       ELSE stream \o SubSeq(sender.frame, sender.count + 1, sender.count + n)
          /\ sender' = IF sender.count + n < Len(sender.frame)
                       THEN [sender EXCEPT !.count = @ + n]
                       ELSE [pc |-> "take", frame |-> <<>>, count |-> 0]
    /\ UNCHANGED <<outbound, broken, inVars, state, group, history>>

SendDataFails ==
    /\ sender.pc = "write"
    /\ ~CanWrite \/ connClosed("in") \/ Crashed
    /\ sender' = [pc |-> "end", frame |-> <<>>, count |-> 0]
    /\ UNCHANGED <<outbound, stream, broken, inVars, state, group, history>>

-----------------------------------------------------------------------------
(* The receiving end.  pc of the consumer: "check" (the loop condition),   *)
(* "header" and "body" (about to call ReadFull), "inHeader" and "inBody"   *)
(* (in it), "filter" and "queue" (queueInboundMessage), "end", "panic".    *)
At(pc) == consumer.pc = pc
Go(pc) == consumer' = [consumer EXCEPT !.pc = pc]

checkState ==
    /\ At("check")
    /\ Go(IF state["in"] = "disconnected" THEN "end" ELSE "header")
    /\ UNCHANGED <<outVars, stream, broken, inbound, handler, state, group, history>>

(* ReadData hands c.buffReader to ReadFull: a nil reader panics. *)
readFull ==
    /\ At("header") \/ At("body")
    /\ Go(IF readerGone("in") THEN "panic"
          ELSE IF At("header") THEN "inHeader" ELSE "inBody")
    /\ UNCHANGED <<outVars, stream, broken, inbound, handler, state, group, history>>

Take(n) == stream' = SubSeq(stream, n + 1, Len(stream))

(* Mutant: one byte more than the header is waited for. *)
readHeaderLate ==
    /\ At("inHeader")
    /\ Len(stream) > 6
    /\ LET dataLength == Minus2(Uint32(stream))
       IN  consumer' = [pc |-> IF dataLength > 0 THEN "body" ELSE "filter",
                        dataLength |-> dataLength,
                        msgCode |-> Uint16(SubSeq(stream, 5, 6)), data |-> <<>>]
    /\ Take(6)
    /\ UNCHANGED <<outVars, broken, inbound, handler, state, group, history>>

readHeader ==
    /\ At("inHeader")
    /\ Len(stream) >= 6
    /\ LET dataLength == Minus2(Uint32(stream))
       IN  consumer' = [pc |-> IF dataLength > 0 THEN "body" ELSE "filter",
                        dataLength |-> dataLength,
                        msgCode |-> Uint16(SubSeq(stream, 5, 6)), data |-> <<>>]
    /\ Take(6)
    /\ UNCHANGED <<outVars, broken, inbound, handler, state, group, history>>

readBody ==
    /\ At("inBody")
    /\ Len(stream) >= consumer.dataLength
    /\ consumer' = [consumer EXCEPT !.pc = "filter",
                                    !.data = SubSeq(stream, 1, consumer.dataLength)]
    /\ Take(consumer.dataLength)
    /\ UNCHANGED <<outVars, broken, inbound, handler, state, group, history>>

(* The connection is closed, or too few bytes are left before its end. *)
readFails ==
    /\ At("inHeader") \/ At("inBody")
    /\ \/ connClosed("in")
       \/ /\ broken \/ connClosed("out")
          /\ Len(stream) < IF At("inHeader") THEN 6 ELSE consumer.dataLength
    /\ consumer' = Nothing("end")
    /\ UNCHANGED <<outVars, stream, broken, inbound, handler, state, group, history>>

Current == [code |-> consumer.msgCode, data |-> consumer.data]
Verify(m) == m.code \in {MsgVERIFY, MsgVERIFYOK}

(* Mutant: the handshake lets everything through. *)
FilteredNever == FALSE

Filtered == state["in"] = "handshake" /\ ~Verify(Current)

filterMessage ==
    /\ At("filter")
    /\ IF Filtered \/ state["in"] = "disconnected"
       THEN consumer' = Nothing("check") /\ passed' = passed + 1
       ELSE Go("queue") /\ UNCHANGED passed
    /\ UNCHANGED <<outVars, stream, broken, inbound, handler, state, group, sent, delivered>>

(* The select: done, or the channel; a closed channel panics, and          *)
(* queueInboundMessage recovers.                                           *)
queueInboundMessage ==
    /\ At("queue")
    /\ \/ /\ Len(inbound) < ChanSize /\ ~inboundClosed
          /\ inbound' = Append(inbound, Current)
          /\ delivered' = Append(delivered, Current)
       \/ /\ doneClosed("in")
          /\ UNCHANGED <<inbound, delivered>>
    /\ passed' = passed + 1
    /\ consumer' = Nothing("check")
    /\ UNCHANGED <<outVars, stream, broken, handler, state, group, sent>>

(* handleMessage.  handleVerify registers the peer, or refuses it and the  *)
(* handler returns; then it sets the state.  Messages are handled in       *)
(* Membership and Replication.                                             *)
handleMessage ==
    /\ ~Crashed
    /\ handler = "take"
    /\ \/ /\ inbound # <<>>
          /\ inbound' = Tail(inbound)
          /\ IF state["in"] # "disconnected" /\ Head(inbound).code = MsgVERIFY
             THEN handler' \in {"verified", "end"}
             ELSE UNCHANGED handler
       \/ /\ inbound = <<>> /\ inboundClosed
          /\ handler' = "end"
          /\ UNCHANGED inbound
    /\ UNCHANGED <<outVars, stream, broken, consumer, state, group, history>>

handleVerified ==
    /\ ~Crashed
    /\ handler = "verified"
    /\ handler' = "take"
    /\ state' = [state EXCEPT !["in"] = "connected"]
    /\ UNCHANGED <<outVars, stream, broken, consumer, inbound, group, history>>

(* The network fails: the bytes not yet there are lost. *)
Break ==
    /\ ~broken
    /\ broken' = TRUE
    /\ \E n \in {0} \cup Taken(Len(stream)) : stream' = SubSeq(stream, 1, n)
    /\ UNCHANGED <<outVars, inVars, state, group, history>>

-----------------------------------------------------------------------------
Sender == networkSender \/ SendData \/ SendDataFails
Consumer == \/ checkState \/ readFull \/ readHeader \/ readBody \/ readFails
            \/ filterMessage \/ queueInboundMessage
Handler == handleMessage \/ handleVerified
Group(s) == (Returned(s) /\ Start(s)) \/ Interrupt(s) \/ tearDown(s)

Next ==
    \/ sendMessage \/ Break
    \/ Sender \/ Consumer \/ Handler
    \/ \E s \in Side : Start(s) \/ Interrupt(s) \/ tearDown(s)

Spec == Init /\ [][Next]_vars

(* The goroutines run; the network carries what is written.  Nothing makes *)
(* the caller send, the network fail or the rest of the node go down.      *)
Fairness ==
    /\ WF_vars(Sender) /\ WF_vars(Consumer) /\ WF_vars(Handler)
    /\ \A s \in Side : WF_vars(Group(s))

FairSpec == Spec /\ Fairness

-----------------------------------------------------------------------------
(* Types; a state that is set again after the end is torn down stays set.  *)
TypeOK ==
    /\ outbound \in Seq(Message) /\ Len(outbound) <= ChanSize
    /\ Len(inbound) <= ChanSize
    /\ sender.pc \in {"take", "write", "end"} /\ sender.count \in 0 .. Len(sender.frame)
    /\ consumer.pc \in {"check", "header", "inHeader", "body", "inBody", "filter", "queue",
                        "end", "panic"}
    /\ handler \in {"take", "verified", "end"}
    /\ state \in [Side -> {"handshake", "connected", "disconnected"}]
    /\ group \in [Side -> 0 .. TornDown]
    /\ passed \in 0 .. Len(sent)

(* The bytes of this direction that are still to be read, with what the    *)
(* consumer holds of its current message, are the frames of exactly the    *)
(* messages still to be passed on, however writes and reads split them, as *)
(* long as both ends are up.                                               *)
Frames(msgs) ==
    LET first[n \in 0 .. Len(msgs)] ==
            IF n = 0 THEN <<>> ELSE first[n - 1] \o Frame(msgs[n])
    IN first[Len(msgs)]
Held == IF consumer.pc \in {"body", "inBody"}
        THEN PutUint32(consumer.dataLength + 2) \o PutUint16(consumer.msgCode)
        ELSE IF consumer.pc \in {"filter", "queue"} THEN Frame(Current) ELSE <<>>
Unwritten == SubSeq(sender.frame, sender.count + 1, Len(sender.frame))
NothingLost ==
    ~broken /\ ~Crashed /\ (\A s \in Side : group[s] = 0)
       => Held \o stream \o Unwritten \o Frames(outbound)
             = Frames(SubSeq(sent, passed + 1, Len(sent)))

(* The handlers see a Channel: the decoded messages are the ones sent, in  *)
(* order, without a gap once the peer is verified and until the end goes   *)
(* down, with nothing but VERIFY and VERIFYOK let through before.          *)
Chan == INSTANCE Channel WITH
    verified <- state["in"] = "connected" /\ group["in"] = 0,
    closing <- group["in"] > 0
ChannelSpec == Chan!Init /\ [][Chan!Next]_(Chan!vars)

(* A message that was queued gets through, unless an end goes down or the  *)
(* network fails.                                                          *)
Delivers ==
    \A i \in 1 .. MaxSent :
       Len(sent) >= i ~> (passed >= i \/ broken \/ \E s \in Side : group[s] > 0)

(* An end of which one goroutine has returned is torn down: no goroutine   *)
(* waits for ever for bytes, for room in a queue or for another one.       *)
EndsTogether == \A s \in Side : group[s] > 0 ~> (group[s] = TornDown \/ Crashed)

(* No goroutine of an end that goes down takes the process with it.        *)
NoCrash == ~Crashed
=============================================================================
