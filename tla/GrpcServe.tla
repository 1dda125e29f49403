----------------------------- MODULE GrpcServe ------------------------------
(***************************************************************************)
(* One HTTP/2 connection of the gRPC transport: the task that drives it    *)
(* and accepts its requests (transport::grpc::serve), the bounded channel  *)
(* of accepted streams, and the fan-out of TransportService::call, which   *)
(* spawns a task per stream.  GrpcStream follows one of the streams.       *)
(*                                                                         *)
(* The HTTP/2 library is external: it moves the frames of every stream     *)
(* while the driver waits in accept, and only then.  The receiver of the   *)
(* channel outlives the driver, as nothing aborts a connection's task.     *)
(***************************************************************************)
EXTENDS Hunk, SequencesExt

CONSTANTS
    Unsafe,      \* the characters path_escape escapes
    ChannelCap   \* STREAM_CHANNEL_CAP

ASSUME ServeConstants == ChannelCap \in Nat \ {0} /\ {"/", "|"} \subseteq Unsafe

VARIABLES
    load,     \* the connection: its configured service, the client's calls
              \* [method, path, type, good] and which of them is followed
    opened,   \* how many calls the client has made
    taken,    \* how many of them accept has yielded
    driver,   \* the connection's task: "accept", "send" or "closed"
    chan,     \* accepted streams on the channel
    tasks,    \* streams with a task of their own
    refused,  \* streams reset with REFUSED_STREAM
    fan       \* TransportService::call: "recv" or "returned"

carrier == <<opened, taken, driver, chan, tasks, refused, fan>>

ServeInit == /\ opened = 0 /\ taken = 0 /\ driver = "accept" /\ chan = <<>>
             /\ tasks = {} /\ refused = {} /\ fan = "recv"

-----------------------------------------------------------------------------
(* The path of a configured service name.                                  *)

PathEscape(s) == FlattenSeq([i \in DOMAIN s |-> IF s[i] \in Unsafe THEN <<"%", s[i]>> ELSE <<s[i]>>])

\* Split at "/", escaped part by part and joined again.
EscapeParts(s) == FlattenSeq([i \in DOMAIN s |-> IF s[i] = "/" THEN <<"/">> ELSE PathEscape(<<s[i]>>)])

\* A name is escaped whole and its method is Tun; a value that begins with "/"
\* is the service's parts and, behind the last "/" and before a "|", the method.
GrpcPathParts(s) ==
    IF s = <<>> \/ Head(s) # "/" THEN [svc |-> PathEscape(s), tun |-> <<"Tun">>]
    ELSE LET after == Tail(s)
             last == Max({0} \cup {i \in DOMAIN after : after[i] = "/"})
             ending == SubSeq(after, last + 1, Len(after))
             bar == Min({Len(ending) + 1} \cup {i \in DOMAIN ending : ending[i] = "|"})
         IN  [svc |-> EscapeParts(SubSeq(after, 1, last - 1)), tun |-> PathEscape(SubSeq(ending, 1, bar - 1))]

PathMatches(path, service) ==
    LET p == GrpcPathParts(service) IN path = <<"/">> \o p.svc \o <<"/">> \o p.tun

\* accept_request: a content type is needed to begin with application/grpc, if
\* there is one.
Acceptable(call) ==
    /\ call.method = "POST" /\ PathMatches(call.path, load.service)
    /\ call.type \in {None, "application/grpc"}

-----------------------------------------------------------------------------
Calls == load.calls

\* The client opens a stream (external).
Call == /\ driver # "closed" /\ opened < Len(Calls) /\ opened' = opened + 1
        /\ UNCHANGED <<taken, driver, chan, tasks, refused, fan>>

\* Mutant: a refused request ends the loop.
RefusalEnds ==
    /\ driver = "accept" /\ taken < opened /\ taken' = taken + 1
    /\ IF Acceptable(Calls[taken']) THEN driver' = "send" /\ UNCHANGED refused
       ELSE driver' = "closed" /\ refused' = refused \cup {taken'}
    /\ UNCHANGED <<opened, chan, tasks, fan>>

\* conn.accept yields a request: it is answered 200 or reset.
AcceptRequest ==
    /\ driver = "accept" /\ taken < opened /\ taken' = taken + 1
    /\ IF Acceptable(Calls[taken']) THEN driver' = "send" /\ UNCHANGED refused
       ELSE refused' = refused \cup {taken'} /\ UNCHANGED driver
    /\ UNCHANGED <<opened, chan, tasks, fan>>

\* tx.send waits for room; meanwhile nobody drives the connection.
SendStream ==
    /\ driver = "send" /\ Len(chan) < ChannelCap
    /\ chan' = Append(chan, taken) /\ driver' = "accept"
    /\ UNCHANGED <<opened, taken, tasks, refused, fan>>

\* The client closes the connection: accept yields None, and tx is dropped.
Hangup == /\ driver = "accept" /\ taken = opened /\ driver' = "closed"
          /\ UNCHANGED <<opened, taken, chan, tasks, refused, fan>>

\* rx.recv: a task for the stream; nothing more after the last one.
FanOut == /\ chan # <<>> /\ tasks' = tasks \cup {Head(chan)} /\ chan' = Tail(chan)
          /\ UNCHANGED <<opened, taken, driver, refused, fan>>
FanReturns == /\ chan = <<>> /\ driver = "closed" /\ fan = "recv" /\ fan' = "returned"
              /\ UNCHANGED <<opened, taken, driver, chan, tasks, refused>>

-----------------------------------------------------------------------------
\* Every call on a connection is settled, whatever its siblings do: one for the
\* configured service is served by a task of its own, any other is reset, and
\* a refused or slow stream never takes the connection with it.  Once the
\* client has hung up, TransportService::call returns.  A settled call stays
\* settled, so that again and again all the calls made so far are.
CallsAreSettled ==
    []<>(/\ \A i \in 1..opened : i \in IF Calls[i].good THEN tasks \ refused ELSE refused \ tasks
         /\ driver = "closed" => fan = "returned")
=============================================================================
