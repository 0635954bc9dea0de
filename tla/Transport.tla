------------------------------- MODULE Transport -------------------------------
(***************************************************************************)
(* The Client of cxl_nic/transport.py: one request at a time over a stream *)
(* to a server, and the stream given up at the first thing that goes wrong.*)
(* A reply carries no mark of the request it answers: the client takes the *)
(* next Parts pieces of the stream.  Contents of requests and replies are  *)
(* left out but for a truth value that the server finds.                   *)
(*                                                                         *)
(* The server and the stream are external.  The server may refuse, answer  *)
(* nonsense, be slow, or stop at any point; a request may arrive though    *)
(* sending it failed.  Nothing reconnects, and nothing here does.          *)
(***************************************************************************)
EXTENDS Integers, Sequences, FiniteSetsExt

CONSTANTS
    Ops,        \* operations of the protocol
    Counted,    \* those the client counts
    Checked,    \* those whose reply is checked beyond its status
    Parts,      \* pieces that a reply may come in
    MaxCalls    \* bound on the calls of a run

ASSUME TransportAssumption ==
    /\ Counted \subseteq Ops /\ Checked \subseteq Ops
    /\ Parts \in Nat \ {0}
    /\ MaxCalls \in Nat

VARIABLES
    closed, receiving, chunks, counts,  \* the client; counts[op] is self.<op>s
    calls,                              \* history: each call and its end
    requests, replies,                  \* the two directions of the stream
    serving, performed                  \* the server, and what it carried out

client == <<closed, receiving, chunks, counts, calls>>
server == <<serving, performed>>
transport == <<client, requests, replies, server>>

Call == [op : Ops, status : {"waiting", "returned", "raised", "refused"}, answer : Nat]

Piece == [answer : Nat, part : 1..Parts, good : BOOLEAN, sound : BOOLEAN]

TransportTypeOK ==
    /\ closed \in BOOLEAN /\ receiving \in BOOLEAN /\ serving \in BOOLEAN
    /\ counts \in [Counted -> Nat]
    /\ calls \in Seq(Call) /\ Len(calls) <= MaxCalls
    /\ chunks \in Seq(Piece) /\ Len(chunks) <= Parts
    /\ requests \in Seq([call : Nat, op : Ops]) /\ replies \in Seq(Piece)
    /\ performed \in Seq([call : Nat, op : Ops, value : BOOLEAN])

TransportInit ==
    /\ closed = FALSE /\ receiving = FALSE /\ serving = TRUE
    /\ counts = [op \in Counted |-> 0]
    /\ calls = <<>> /\ chunks = <<>> /\ performed = <<>>
    /\ requests = <<>> /\ replies = <<>>
--------------------------------------------------------------------------------
(* The client.                                                             *)

Ready == ~receiving /\ Len(calls) < MaxCalls

Enter(op, status) ==
    calls' = Append(calls, [op |-> op, status |-> status, answer |-> 0])

Request(op) == [call |-> Len(calls) + 1, op |-> op]

(* Arguments out of range, or a client that was closed.                    *)
TurnAway(op) ==
    /\ Ready
    /\ Enter(op, "refused")
    /\ UNCHANGED <<closed, receiving, chunks, counts, requests, replies, server>>

Send(op) ==
    /\ Ready /\ ~closed
    /\ requests' = Append(requests, Request(op))
    /\ Enter(op, "waiting")
    /\ receiving' = TRUE /\ chunks' = <<>>
    /\ UNCHANGED <<closed, counts, replies, server>>

(* Mutant: the stream is used again after an error.                        *)
StayConnected == UNCHANGED <<closed, replies>>

Disconnect == closed' = TRUE /\ replies' = <<>>

Close ==
    /\ ~receiving /\ ~closed
    /\ Disconnect
    /\ UNCHANGED <<receiving, chunks, counts, calls, requests, server>>

SendFails(op) ==
    /\ Ready /\ ~closed
    /\ requests' \in {requests, Append(requests, Request(op))}
    /\ Enter(op, "raised")
    /\ Disconnect
    /\ UNCHANGED <<receiving, chunks, counts, server>>

(* recv asks for what is missing and takes what there is of it.            *)
Receive ==
    /\ receiving /\ Len(chunks) < Parts
    /\ \E n \in 1..Min({Parts - Len(chunks), Len(replies)}) :
        /\ chunks' = chunks \o SubSeq(replies, 1, n)
        /\ replies' = SubSeq(replies, n + 1, Len(replies))
    /\ UNCHANGED <<closed, receiving, counts, calls, requests, server>>

Raise ==
    /\ receiving' = FALSE
    /\ calls' = [calls EXCEPT ![Len(calls)].status = "raised"]
    /\ Disconnect
    /\ UNCHANGED <<chunks, counts, requests, server>>

(* Mutant: an empty part is taken for a pause.                             *)
TryAgain == Len(chunks) < Parts /\ replies = <<>> /\ UNCHANGED transport

(* Nothing to receive: the server is gone, or the time is over.            *)
NothingComes == Len(chunks) < Parts /\ replies = <<>> /\ Raise

Acceptable(op, reply) ==
    \A i \in 1..Len(reply) : reply[i].good /\ (op \in Checked => reply[i].sound)

Finish ==
    /\ Len(chunks) = Parts
    /\ LET op == calls[Len(calls)].op
       IN  IF ~Acceptable(op, chunks)
           THEN Raise
           ELSE /\ receiving' = FALSE
                /\ calls' = [calls EXCEPT ![Len(calls)].status = "returned",
                                          ![Len(calls)].answer = chunks[Parts].answer]
                /\ counts' = IF op \in Counted THEN [counts EXCEPT ![op] = @ + 1] ELSE counts
                /\ UNCHANGED <<closed, chunks, requests, replies, server>>

Await == receiving /\ (Receive \/ NothingComes \/ Finish)
--------------------------------------------------------------------------------
(* The server and the network, external.                                   *)

Serve ==
    /\ serving /\ requests # <<>>
    /\ LET r == Head(requests)
       IN  \E done, good, sound, value \in BOOLEAN :
            /\ good => done
            /\ good \/ (sound /\ value)
            /\ r.op \in Checked \/ (sound /\ value)
            /\ performed' = IF done
                THEN Append(performed, [call |-> r.call, op |-> r.op, value |-> value])
                ELSE performed
            /\ replies' = IF closed THEN <<>>
                ELSE replies \o [i \in 1..Parts |->
                    [answer |-> Len(performed'), part |-> i, good |-> good, sound |-> sound]]
    /\ requests' = Tail(requests)
    /\ UNCHANGED <<client, serving>>

ServerStops ==
    /\ serving
    /\ serving' = FALSE
    /\ requests' = <<>>
    /\ \E n \in 0..Len(replies) : replies' = SubSeq(replies, 1, n)
    /\ UNCHANGED <<client, performed>>
--------------------------------------------------------------------------------
(* Any caller, one call after the other.                                   *)
TransportNext ==
    \/ \E op \in Ops : Send(op) \/ SendFails(op) \/ TurnAway(op)
    \/ Close \/ Await \/ Serve \/ ServerStops

(* The timeout of the socket ends a recv for which nothing comes.          *)
TransportSpec ==
    TransportInit /\ [][TransportNext]_transport /\ WF_transport(Await)
--------------------------------------------------------------------------------
(* A return is an answer to its own request, whole, and a call that raised *)
(* is the last that can have an effect: no late reply is taken for another *)
(* one's, nothing is done twice, and at most one call is in doubt          *)
(* (transport.py:75-80).                                                   *)
Abstract == INSTANCE Calls

ImplementsCalls == Abstract!Spec

Done(op) == Cardinality({n \in 1..Len(performed) : performed[n].op = op})

(* What the client counted is what the server did, until it is closed and  *)
(* then but for one call; run_case holds one against the other             *)
(* (integration.py:553-560, 571, 586).                                     *)
CountsMatchServer ==
    /\ \A op \in Counted : counts[op] <= Done(op)
    /\ ~closed /\ ~receiving => \A op \in Counted : counts[op] = Done(op)
    /\ \E n \in 0..Len(performed) :
        \A op \in Counted : counts[op] >= Done(op) - 1
                            /\ (counts[op] # Done(op) => n > 0 /\ performed[n].op = op)

(* Every call ends, whatever the server does (transport.py:31, 67-71).     *)
EveryCallEnds == receiving ~> ~receiving
--------------------------------------------------------------------------------
(* The inductive invariant.                                                *)

Heard(n) == \E i \in 1..Len(performed) : performed[i].call = n

(* Only the newest call waits, and none follows one that raised but those  *)
(* that are turned away.                                                   *)
CallsInOrder ==
    /\ receiving => ~closed /\ calls # <<>> /\ calls[Len(calls)].status = "waiting"
    /\ \A n \in 1..Len(calls) :
        /\ calls[n].status = "waiting" => receiving /\ n = Len(calls)
        /\ calls[n].status = "raised" =>
            closed /\ \A k \in (n + 1)..Len(calls) : calls[k].status = "refused"

(* What the server carried out are the calls that returned, in order, and  *)
(* at most one more, after them.                                           *)
ServedInOrder ==
    /\ \A i, j \in 1..Len(performed) : i < j => performed[i].call < performed[j].call
    /\ \A i \in 1..Len(performed) :
        /\ performed[i].call \in 1..Len(calls)
        /\ performed[i].op = calls[performed[i].call].op
        /\ \/ calls[performed[i].call].status = "returned"
           \/ calls[performed[i].call].status \in {"waiting", "raised"} /\ i = Len(performed)
    /\ \A n \in 1..Len(calls) : calls[n].status = "returned" => Heard(n)

(* A request on its way is of the one call in doubt, and not yet served;   *)
(* without a call in doubt the stream is empty.                            *)
StreamClean ==
    /\ Len(requests) <= 1
    /\ requests # <<>> =>
        LET n == requests[1].call
        IN  /\ n \in 1..Len(calls) /\ requests[1].op = calls[n].op
            /\ calls[n].status \in {"waiting", "raised"}
            /\ \A i \in 1..Len(performed) : performed[i].call < n
            /\ replies = <<>> /\ (receiving => chunks = <<>>)
    /\ ~receiving => replies = <<>>
    /\ ~receiving /\ ~closed => requests = <<>>

(* What came in and what is on its way is one reply, to the call waiting.  *)
OneReply ==
    receiving =>
        LET stream == chunks \o replies
        IN  /\ Len(stream) <= Parts
            /\ stream # <<>> /\ stream[1].good =>
                /\ performed # <<>> /\ stream[1].answer = Len(performed)
                /\ performed[Len(performed)].call = Len(calls)
            /\ \A i \in 1..Len(stream) :
                stream[i] = [stream[1] EXCEPT !.part = i]

TransportInv ==
    TransportTypeOK /\ CallsInOrder /\ ServedInOrder /\ StreamClean /\ OneReply
================================================================================
