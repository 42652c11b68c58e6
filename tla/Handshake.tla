----------------------------- MODULE Handshake -----------------------------
(* Peer: the version handshake of the two ends of a connection, the message  *)
(* loop that follows it, and how either of them ends.  A TCP stream is a     *)
(* queue; the remote end may also put a malformed, unknown or oversized      *)
(* message on it ("bad"), or stop in the middle of one, which is read as a   *)
(* message that does not arrive in time.                                     *)
EXTENDS Naturals, Sequences

CONSTANTS MaxApp,    \* bound on messages an end sends once connected
          Garbage    \* the ends that may write something else to the stream

End == {"dialler", "listener"}
Other(e) == IF e = "dialler" THEN "listener" ELSE "dialler"

VARIABLES ends,       \* the network either end runs on, and which of them run a
                      \* protocol version below the minimum
          stage,      \* what an end is doing
          stream,     \* bytes on their way to an end, as messages
          reason,     \* disconnect_reason
          sent,       \* application messages an end has sent
          got,        \* messages an end's on_message has been given
          skipped     \* history: messages a handshake read and threw away

shakeVars == <<ends, stage, stream, reason, sent, got, skipped>>

Open(e) == stage[e] # "closed"
SendTo(e, msgs) == stream' = [stream EXCEPT ![e] = @ \o msgs]
Version(e) == [cmd |-> "version", net |-> ends.net[e], old |-> e \in ends.old]
Msg(c) == [cmd |-> c]

(* VersionHandshake.process_version *)
Acceptable(e, v) == v.net = ends.net[e] /\ ~v.old

Configs(networks) == [net : [End -> networks], old : SUBSET End]

(* both ends of a connection that has just been made ("new") or is over ("closed") *)
ShakeInit(configs, at) ==
    /\ ends \in configs
    /\ stage = [e \in End |-> at]
    /\ stream = [e \in End |-> <<>>]
    /\ reason = [e \in End |-> ""]
    /\ sent = [e \in End |-> 0]
    /\ got = [e \in End |-> {}]
    /\ skipped = [e \in End |-> {}]

(* _handshake begins: our version goes out *)
SendVersion(e) ==
    /\ stage[e] = "new"
    /\ SendTo(Other(e), <<Version(e)>>)
    /\ stage' = [stage EXCEPT ![e] = "version"]
    /\ UNCHANGED <<ends, reason, sent, got, skipped>>

(* disconnect(): the first reason stays *)
Close(e, why) ==
    /\ stage' = [stage EXCEPT ![e] = "closed"]
    /\ reason' = [reason EXCEPT ![e] = IF @ = "" THEN why ELSE @]

Next1(e) == Head(stream[e])
Consume(e) == [stream EXCEPT ![e] = Tail(@)]

(* _wait_for_message reads something else than what it waits for *)
SkipMessage(e) ==
    /\ stage[e] \in {"version", "verack"} /\ stream[e] # <<>>
    /\ Next1(e).cmd \notin {stage[e], "bad"}
    /\ stream' = Consume(e)
    /\ skipped' = [skipped EXCEPT ![e] = @ \cup {Next1(e).cmd}]
    /\ UNCHANGED <<ends, stage, reason, sent, got>>

(* Fault: whatever version the other end sends is confirmed *)
FaultConfirmVersion(e) ==
    /\ stage[e] = "version" /\ stream[e] # <<>> /\ Next1(e).cmd = "version"
    /\ stage' = [stage EXCEPT ![e] = "verack"]
    /\ stream' = [Consume(e) EXCEPT ![Other(e)] = Append(@, Msg("verack"))]
    /\ UNCHANGED <<ends, reason, sent, got, skipped>>

(* the other end's version: refused, or confirmed with a verack *)
ReadVersion(e) ==
    /\ stage[e] = "version" /\ stream[e] # <<>> /\ Next1(e).cmd = "version"
    /\ IF Acceptable(e, Next1(e))
       THEN /\ stage' = [stage EXCEPT ![e] = "verack"]
            /\ stream' = [Consume(e) EXCEPT ![Other(e)] = Append(@, Msg("verack"))]
            /\ UNCHANGED reason
       ELSE /\ Close(e, "invalid_version") /\ stream' = Consume(e)
    /\ UNCHANGED <<ends, sent, got, skipped>>

(* the verack: the handshake is complete, sendcmpct goes out and the message *)
(* loop starts                                                               *)
ReadVerack(e) ==
    /\ stage[e] = "verack" /\ stream[e] # <<>> /\ Next1(e).cmd = "verack"
    /\ stage' = [stage EXCEPT ![e] = "live"]
    /\ stream' = [Consume(e) EXCEPT ![Other(e)] = Append(@, Msg("sendcmpct"))]
    /\ UNCHANGED <<ends, reason, sent, got, skipped>>

(* a message that does not decode, names no command or is too large ends     *)
(* the handshake and the loop alike, as a protocol violation                 *)
ReadBad(e) ==
    /\ stage[e] \in {"version", "verack", "live"}
    /\ stream[e] # <<>> /\ Next1(e).cmd = "bad"
    /\ Close(e, "protocol_violation") /\ stream' = Consume(e)
    /\ UNCHANGED <<ends, sent, got, skipped>>

(* _handle_messages gives a message to on_message *)
HandleMessage(e) ==
    /\ stage[e] = "live" /\ stream[e] # <<>> /\ Next1(e).cmd # "bad"
    /\ got' = [got EXCEPT ![e] = @ \cup {Next1(e).cmd}]
    /\ stream' = Consume(e)
    /\ UNCHANGED <<ends, stage, reason, sent, skipped>>

(* Fault: once connected, waiting for a message has no time limit and no end *)
FaultNothingArrives(e) ==
    /\ stage[e] \in {"version", "verack"} /\ stream[e] = <<>>
    /\ Close(e, "handshake_timeout")
    /\ UNCHANGED <<ends, stream, sent, got, skipped>>

(* a read times out, or the stream ends because the other end closed it *)
NothingArrives(e) ==
    /\ stage[e] \in {"version", "verack", "live"} /\ stream[e] = <<>>
    /\ Close(e, CASE stage[e] = "version" -> "version_timeout"
                  [] stage[e] = "verack"  -> "verack_timeout"
                  [] OTHER -> IF Open(Other(e)) THEN "idle_timeout" ELSE "incomplete_read")
    /\ UNCHANGED <<ends, stream, sent, got, skipped>>

(* send_message of a connected peer, by any task of the node *)
SendApp(e) ==
    /\ stage[e] = "live" /\ sent[e] < MaxApp
    /\ SendTo(Other(e), <<Msg("app")>>)
    /\ sent' = [sent EXCEPT ![e] = @ + 1]
    /\ UNCHANGED <<ends, stage, reason, got, skipped>>

(* a send that fails, an eviction, or the node's stop *)
Disconnect(e) ==
    /\ stage[e] = "live" /\ Close(e, "send_error")
    /\ UNCHANGED <<ends, stream, sent, got, skipped>>

(* the other program writes something this one cannot read *)
WriteGarbage(e) ==
    /\ e \in Garbage /\ Open(e) /\ \A i \in DOMAIN stream[Other(e)] : stream[Other(e)][i].cmd # "bad"
    /\ Len(stream[Other(e)]) < 3
    /\ SendTo(Other(e), <<Msg("bad")>>)
    /\ UNCHANGED <<ends, stage, reason, sent, got, skipped>>

Read(e) == SkipMessage(e) \/ ReadVersion(e) \/ ReadVerack(e) \/ ReadBad(e) \/ HandleMessage(e)

ShakeNext == \E e \in End : \/ SendVersion(e) \/ Read(e) \/ NothingArrives(e)
                            \/ SendApp(e) \/ Disconnect(e) \/ WriteGarbage(e)

(* a connection that has just been made, between nodes of any of the networks *)
ShakeSpec(networks) == ShakeInit(Configs(networks), "new") /\ [][ShakeNext]_shakeVars

(* the event loop runs every task that can go on, and timers fire *)
ShakeFairness == \A e \in End : WF_shakeVars(SendVersion(e) \/ Read(e) \/ NothingArrives(e))
-----------------------------------------------------------------------------
(* An end that believes the connection up has the other end's consent: both  *)
(* have accepted the version of the other.                                   *)
LiveMeansAgreed ==
    \A e \in End : stage[e] = "live" =>
        Acceptable(e, Version(Other(e))) /\ Acceptable(Other(e), Version(e))

(* What a connected end sends is never thrown away by a handshake that still *)
(* waits for something else.                                                 *)
NothingSwallowed == \A e \in End : skipped[e] \cap {"app", "sendcmpct", "verack"} = {}

(* No half-open connection lasts: when one end is up and the other has gone, *)
(* the first finds out.                                                      *)
HalfOpenEnds ==
    \A e \in End : stage[e] = "live" /\ ~Open(Other(e)) ~> ~Open(e)

(* A finished handshake is an agreement, and it costs neither end a message. *)
HandshakeSound == LiveMeansAgreed /\ NothingSwallowed
=============================================================================
