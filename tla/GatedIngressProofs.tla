-------------------------- MODULE GatedIngressProofs --------------------------
(***************************************************************************)
(* The client by itself: its inductive invariant, and that it implements   *)
(* Calls, for all operations, however many pieces a reply comes in.  The   *)
(* gate by itself, for all intervals, delays and occupancies.  And the two *)
(* together: each line is carried out by the server in its order and where *)
(* the gate decided, by a sample taken when the lines before it were in.   *)
(***************************************************************************)
EXTENDS GatedIngress, SequenceTheorems, FiniteSetTheorems, WellFoundedInduction, TLAPS

(* recv takes no more than there is and no more than is missing.           *)
LEMMA MinOfTwo ==
    ASSUME NEW a \in Nat, NEW b \in Nat, NEW n \in 1..Min({a, b})
    PROVE  n \in 1..a /\ n \in 1..b
<1>1. \E m \in {a, b} : \A y \in {a, b} : m <= y
  OBVIOUS
<1>2. Min({a, b}) \in {a, b} /\ \A y \in {a, b} : Min({a, b}) <= y
  BY <1>1 DEF Min
<1> QED  BY <1>2

LEMMA InitHolds == TransportInit => TransportInv
<1> SUFFICES ASSUME TransportInit PROVE TransportInv
  OBVIOUS
<1> USE TransportAssumption 
<1>1. TransportTypeOK
  <2>1. calls \in Seq(Call) /\ Len(calls) <= MaxCalls
    BY DEF TransportInit
  <2>2. chunks \in Seq(Piece) /\ Len(chunks) <= Parts /\ replies \in Seq(Piece)
    BY DEF TransportInit
  <2>3. requests \in Seq([call : Nat, op : Ops])
    BY DEF TransportInit
  <2>4. performed \in Seq([call : Nat, op : Ops, value : BOOLEAN])
    BY DEF TransportInit
  <2>5. counts \in [Counted -> Nat] /\ closed \in BOOLEAN /\ receiving \in BOOLEAN
        /\ serving \in BOOLEAN
    BY DEF TransportInit
  <2> QED  BY <2>1, <2>2, <2>3, <2>4, <2>5 DEF TransportTypeOK
<1>2. CallsInOrder /\ ServedInOrder /\ StreamClean /\ OneReply
  BY DEF TransportInit, CallsInOrder, ServedInOrder, StreamClean, OneReply, Heard
<1> QED  BY <1>1, <1>2 DEF TransportInv
--------------------------------------------------------------------------------
(* A new call changes nothing that the invariant says of those before.     *)
LEMMA EnterKeeps ==
    ASSUME TransportInv, NEW op \in Ops, ~receiving, Len(calls) < MaxCalls,
           NEW status \in {"waiting", "raised", "refused"}, Enter(op, status)
    PROVE  /\ Len(calls') = Len(calls) + 1
           /\ \A n \in 1..Len(calls) : calls'[n] = calls[n]
           /\ calls'[Len(calls) + 1] = [op |-> op, status |-> status, answer |-> 0]
           /\ calls' \in Seq(Call) /\ Len(calls') <= MaxCalls
<1>1. calls \in Seq(Call) /\ MaxCalls \in Nat
  BY TransportAssumption DEF TransportInv, TransportTypeOK
<1>2. [op |-> op, status |-> status, answer |-> 0] \in Call
  BY DEF Call
<1> QED  BY <1>1, <1>2 DEF Enter

LEMMA EnterServed ==
    ASSUME TransportInv, NEW op \in Ops, ~receiving, Len(calls) < MaxCalls,
           NEW status \in {"waiting", "raised", "refused"}, Enter(op, status),
           UNCHANGED performed
    PROVE  ServedInOrder'
<1>1. /\ Len(calls') = Len(calls) + 1
      /\ \A n \in 1..Len(calls) : calls'[n] = calls[n]
      /\ calls'[Len(calls) + 1].status = status
  <2>1. /\ Len(calls') = Len(calls) + 1
        /\ \A n \in 1..Len(calls) : calls'[n] = calls[n]
        /\ calls'[Len(calls) + 1] = [op |-> op, status |-> status, answer |-> 0]
    BY EnterKeeps
  <2> QED  BY <2>1
<1>2. Len(calls) \in Nat
  BY DEF TransportInv, TransportTypeOK
<1>3. \A i \in 1..Len(performed) : performed[i].call \in 1..Len(calls)
  BY DEF TransportInv, ServedInOrder
<1>4. ServedInOrder
  BY DEF TransportInv
<1>5. \A n \in 1..Len(calls') : calls'[n].status = "returned" =>
        n \in 1..Len(calls) /\ calls[n].status = "returned"
  BY <1>1, <1>2
<1>6. \A i, j \in 1..Len(performed) : i < j => performed[i].call < performed[j].call
  BY <1>4 DEF ServedInOrder
<1>7. ASSUME NEW i \in 1..Len(performed)
      PROVE  LET n == performed[i].call
             IN  /\ n \in 1..Len(calls') /\ performed[i].op = calls'[n].op
                 /\ \/ calls'[n].status = "returned"
                    \/ calls'[n].status \in {"waiting", "raised"} /\ i = Len(performed)
  <2>1. calls'[performed[i].call] = calls[performed[i].call]
    BY <1>1, <1>3
  <2>2. performed[i].call \in 1..Len(calls')
    BY <1>1, <1>2, <1>3
  <2> QED  BY <1>4, <2>1, <2>2 DEF ServedInOrder
<1>8. \A n \in 1..Len(calls') : calls'[n].status = "returned" => Heard(n)
  BY <1>4, <1>5 DEF ServedInOrder
<1>9. performed' = performed
  OBVIOUS
<1> QED  BY <1>6, <1>7, <1>8, <1>9 DEF ServedInOrder, Heard

LEMMA TurnAwayKeeps ==
    ASSUME TransportInv, NEW op \in Ops, TurnAway(op)
    PROVE  TransportInv'
<1>1. /\ ~receiving /\ Len(calls) < MaxCalls
      /\ Enter(op, "refused")
      /\ UNCHANGED <<closed, receiving, chunks, counts, requests, replies, server>>
  BY DEF TurnAway, Ready
<1>2. /\ Len(calls') = Len(calls) + 1
      /\ \A n \in 1..Len(calls) : calls'[n] = calls[n]
      /\ calls'[Len(calls) + 1] = [op |-> op, status |-> "refused", answer |-> 0]
      /\ calls' \in Seq(Call) /\ Len(calls') <= MaxCalls
  BY <1>1, EnterKeeps
<1>3. Len(calls) \in Nat
  BY DEF TransportInv, TransportTypeOK
<1>4. TransportTypeOK'
  BY <1>1, <1>2 DEF TransportInv, TransportTypeOK, server
<1>5. CallsInOrder'
  BY <1>1, <1>2, <1>3 DEF TransportInv, CallsInOrder
<1>6. ServedInOrder'
  BY <1>1, EnterServed DEF server
<1>7. StreamClean'
  BY <1>1, <1>2, <1>3 DEF TransportInv, StreamClean, server
<1>8. OneReply'
  BY <1>1 DEF TransportInv, OneReply
<1> QED  BY <1>4, <1>5, <1>6, <1>7, <1>8 DEF TransportInv

(* While the client is open no call is in doubt and the stream is empty.   *)
LEMMA QuietBefore ==
    ASSUME TransportInv, ~receiving, ~closed
    PROVE  /\ requests = <<>> /\ replies = <<>>
           /\ \A n \in 1..Len(calls) : calls[n].status \notin {"waiting", "raised"}
           /\ \A i \in 1..Len(performed) : performed[i].call \in 1..Len(calls)
  BY DEF TransportInv, StreamClean, CallsInOrder, ServedInOrder

LEMMA SendKeeps ==
    ASSUME TransportInv, NEW op \in Ops, Send(op)
    PROVE  TransportInv'
<1>1. /\ ~receiving /\ ~closed /\ Len(calls) < MaxCalls
      /\ Enter(op, "waiting")
      /\ requests' = Append(requests, Request(op))
      /\ receiving' = TRUE /\ chunks' = <<>>
      /\ UNCHANGED <<closed, counts, replies, server>>
  BY DEF Send, Ready
<1>2. /\ Len(calls') = Len(calls) + 1
      /\ \A n \in 1..Len(calls) : calls'[n] = calls[n]
      /\ calls'[Len(calls) + 1] = [op |-> op, status |-> "waiting", answer |-> 0]
      /\ calls' \in Seq(Call) /\ Len(calls') <= MaxCalls
  BY <1>1, EnterKeeps
<1>3. Len(calls) \in Nat
  BY DEF TransportInv, TransportTypeOK
<1>4. /\ requests = <<>> /\ replies = <<>>
      /\ \A n \in 1..Len(calls) : calls[n].status \notin {"waiting", "raised"}
      /\ \A i \in 1..Len(performed) : performed[i].call \in 1..Len(calls)
  BY <1>1, QuietBefore
<1>5. requests' = <<Request(op)>> /\ Request(op) = [call |-> Len(calls) + 1, op |-> op]
  BY <1>1, <1>4 DEF Request
<1>6. TransportTypeOK'
  <2>1. requests' \in Seq([call : Nat, op : Ops])
    BY <1>3, <1>5
  <2>2. chunks' \in Seq(Piece) /\ Len(chunks') <= Parts
    BY <1>1, TransportAssumption
  <2> QED  BY <1>1, <1>2, <2>1, <2>2 DEF TransportInv, TransportTypeOK, server
<1>7. CallsInOrder'
  <2>1. calls' # <<>>
    BY <1>2, <1>3
  <2> QED  BY <1>1, <1>2, <1>3, <1>4, <2>1 DEF TransportInv, CallsInOrder
<1>8. ServedInOrder'
  BY <1>1, EnterServed DEF server
<1>9. StreamClean'
  BY <1>1, <1>2, <1>3, <1>4, <1>5 DEF StreamClean, server
<1>10. OneReply'
  BY <1>1, <1>4, TransportAssumption DEF OneReply
<1> QED  BY <1>6, <1>7, <1>8, <1>9, <1>10 DEF TransportInv

LEMMA SendFailsKeeps ==
    ASSUME TransportInv, NEW op \in Ops, SendFails(op)
    PROVE  TransportInv'
<1>1. /\ ~receiving /\ ~closed /\ Len(calls) < MaxCalls
      /\ Enter(op, "raised")
      /\ requests' \in {requests, Append(requests, Request(op))}
      /\ closed' = TRUE /\ replies' = <<>>
      /\ UNCHANGED <<receiving, chunks, counts, server>>
  BY DEF SendFails, Ready, Disconnect
<1>2. /\ Len(calls') = Len(calls) + 1
      /\ \A n \in 1..Len(calls) : calls'[n] = calls[n]
      /\ calls'[Len(calls) + 1] = [op |-> op, status |-> "raised", answer |-> 0]
      /\ calls' \in Seq(Call) /\ Len(calls') <= MaxCalls
  BY <1>1, EnterKeeps
<1>3. Len(calls) \in Nat
  BY DEF TransportInv, TransportTypeOK
<1>4. /\ requests = <<>> /\ replies = <<>>
      /\ \A n \in 1..Len(calls) : calls[n].status \notin {"waiting", "raised"}
      /\ \A i \in 1..Len(performed) : performed[i].call \in 1..Len(calls)
  BY <1>1, QuietBefore
<1>5. /\ Request(op) = [call |-> Len(calls) + 1, op |-> op]
      /\ requests' = <<>> \/ requests' = <<Request(op)>>
  BY <1>1, <1>4 DEF Request
<1>6. TransportTypeOK'
  <2>1. requests' \in Seq([call : Nat, op : Ops])
    <3>1. Request(op) \in [call : Nat, op : Ops]
      BY <1>3, <1>5
    <3>2. CASE requests' = <<>>
      BY <3>2
    <3>3. CASE requests' = <<Request(op)>>
      BY <3>1, <3>3
    <3> QED  BY <1>5, <3>2, <3>3
  <2> QED  BY <1>1, <1>2, <2>1 DEF TransportInv, TransportTypeOK, server
<1>7. CallsInOrder'
  <2>1. calls'[Len(calls')].status = "raised"
    BY <1>2, <1>3
  <2>2. \A n \in 1..Len(calls') : calls'[n].status \in {"waiting", "raised"} => n = Len(calls')
    BY <1>2, <1>3, <1>4
  <2> QED  BY <1>1, <1>2, <1>3, <2>1, <2>2 DEF CallsInOrder
<1>8. ServedInOrder'
  BY <1>1, EnterServed DEF server
<1>9. StreamClean'
  <2>1. CASE requests' = <<>>
    BY <1>1, <2>1 DEF StreamClean
  <2>2. CASE requests' = <<Request(op)>>
    <3>1. performed' = performed
      BY <1>1 DEF server
    <3>2. /\ requests'[1].call = Len(calls) + 1 /\ requests'[1].op = op
          /\ Len(requests') = 1
      BY <1>5, <2>2
    <3> QED  BY <1>1, <1>2, <1>3, <1>4, <3>1, <3>2 DEF StreamClean
  <2> QED  BY <1>5, <2>1, <2>2
<1>10. OneReply'
  BY <1>1 DEF OneReply
<1> QED  BY <1>6, <1>7, <1>8, <1>9, <1>10 DEF TransportInv
--------------------------------------------------------------------------------
LEMMA CloseKeeps ==
    ASSUME TransportInv, Close
    PROVE  TransportInv'
<1>1. /\ ~receiving /\ ~closed
      /\ closed' = TRUE /\ replies' = <<>>
      /\ UNCHANGED <<receiving, chunks, counts, calls, requests, server>>
  BY DEF Close, Disconnect
<1>2. requests = <<>>
  BY <1>1, QuietBefore
<1>3. TransportTypeOK'
  BY <1>1 DEF TransportInv, TransportTypeOK, server
<1>4. CallsInOrder' /\ ServedInOrder'
  BY <1>1 DEF TransportInv, CallsInOrder, ServedInOrder, Heard, server
<1>5. StreamClean' /\ OneReply'
  BY <1>1, <1>2 DEF StreamClean, OneReply
<1> QED  BY <1>3, <1>4, <1>5 DEF TransportInv

LEMMA ReceiveKeeps ==
    ASSUME TransportInv, Receive
    PROVE  TransportInv'
<1>1. chunks \in Seq(Piece) /\ replies \in Seq(Piece) /\ Parts \in Nat
  BY TransportAssumption DEF TransportInv, TransportTypeOK
<1>2. receiving /\ Len(chunks) < Parts
  BY DEF Receive
<1>3. Len(chunks) \in Nat /\ Len(replies) \in Nat /\ Parts - Len(chunks) \in Nat
  BY <1>1, <1>2
<1>4. PICK n \in 1..Min({Parts - Len(chunks), Len(replies)}) :
        /\ chunks' = chunks \o SubSeq(replies, 1, n)
        /\ replies' = SubSeq(replies, n + 1, Len(replies))
  BY DEF Receive
<1>5. n \in 1..(Parts - Len(chunks)) /\ n \in 1..Len(replies)
  BY <1>3, MinOfTwo
<1>6. UNCHANGED <<closed, receiving, counts, calls, requests, server>>
  BY DEF Receive
<1> DEFINE front == SubSeq(replies, 1, n)
            back == SubSeq(replies, n + 1, Len(replies))
<1>7. chunks' \in Seq(Piece) /\ Len(chunks') = Len(chunks) + n /\ replies' \in Seq(Piece)
  <2>1. \A i \in 1..Len(replies) : replies[i] \in Piece
    BY <1>1
  <2>2. front \in Seq(Piece) /\ Len(front) = n
    BY <1>3, <1>5, <2>1, SubSeqProperties
  <2>3. back \in Seq(Piece)
    BY <1>3, <1>5, <2>1, SubSeqProperties
  <2> HIDE DEF front, back
  <2> QED  BY <1>1, <1>4, <2>2, <2>3 DEF front, back
<1>8. chunks' \o replies' = chunks \o replies
  <2>1. front \in Seq(Piece) /\ back \in Seq(Piece)
    <3>1. \A i \in 1..Len(replies) : replies[i] \in Piece
      BY <1>1
    <3> QED  BY <1>3, <1>5, <3>1, SubSeqProperties
  <2>2. front \o back = replies
    <3>1. front \o back = SubSeq(replies, 1, Len(replies))
      BY <1>1, <1>3, <1>5, ConcatAdjacentSubSeq
    <3> QED  BY <1>1, <3>1, SubSeqFull
  <2>3. chunks' = chunks \o front /\ replies' = back
    BY <1>4
  <2> HIDE DEF front, back
  <2>4. (chunks \o front) \o back = chunks \o (front \o back)
    BY <1>1, <2>1, ConcatAssociative
  <2> QED  BY <2>2, <2>3, <2>4
<1> HIDE DEF front, back
<1>9. TransportTypeOK'
  <2>1. Len(chunks') <= Parts
    BY <1>1, <1>3, <1>5, <1>7
  <2> QED  BY <1>6, <1>7, <2>1 DEF TransportInv, TransportTypeOK, server
<1>10. CallsInOrder' /\ ServedInOrder'
  BY <1>6 DEF TransportInv, CallsInOrder, ServedInOrder, Heard, server
<1>11. requests = <<>>
  <2>1. replies # <<>>
    BY <1>1, <1>5
  <2> QED  BY <2>1 DEF TransportInv, StreamClean
<1>12. StreamClean'
  BY <1>2, <1>6, <1>11 DEF StreamClean, server
<1>13. OneReply'
  BY <1>6, <1>8 DEF TransportInv, OneReply, server
<1> QED  BY <1>9, <1>10, <1>12, <1>13 DEF TransportInv

(* The call that waits, when it ends one way or the other.                 *)
LEMMA EndKeeps ==
    ASSUME TransportInv, receiving, NEW end \in Call, end.op = calls[Len(calls)].op,
           calls' = [calls EXCEPT ![Len(calls)] = end]
    PROVE  /\ Len(calls) \in Nat \ {0} /\ Len(calls') = Len(calls)
           /\ \A n \in 1..Len(calls) : n # Len(calls) => calls'[n] = calls[n]
           /\ calls'[Len(calls)] = end
           /\ \A n \in 1..Len(calls) : calls'[n].op = calls[n].op
           /\ calls' \in Seq(Call) /\ Len(calls') <= MaxCalls
<1>1. calls \in Seq(Call) /\ calls # <<>> /\ Len(calls) <= MaxCalls
  BY DEF TransportInv, TransportTypeOK, CallsInOrder
<1>2. Len(calls) \in 1..Len(calls)
  BY <1>1
<1> QED  BY <1>1, <1>2

LEMMA RaiseKeeps ==
    ASSUME TransportInv, receiving, Raise
    PROVE  TransportInv'
<1> DEFINE end == [calls[Len(calls)] EXCEPT !.status = "raised"]
<1>1. /\ receiving' = FALSE /\ closed' = TRUE /\ replies' = <<>>
      /\ calls' = [calls EXCEPT ![Len(calls)] = end]
      /\ UNCHANGED <<chunks, counts, requests, server>>
  BY DEF Raise, Disconnect
<1>2. end \in Call /\ end.op = calls[Len(calls)].op /\ end.status = "raised"
  <2>1. calls[Len(calls)] \in Call
    BY DEF TransportInv, TransportTypeOK, CallsInOrder
  <2> QED  BY <2>1 DEF Call
<1> HIDE DEF end
<1>3. /\ Len(calls) \in Nat \ {0} /\ Len(calls') = Len(calls)
      /\ \A n \in 1..Len(calls) : n # Len(calls) => calls'[n] = calls[n]
      /\ calls'[Len(calls)] = end
      /\ \A n \in 1..Len(calls) : calls'[n].op = calls[n].op
      /\ calls' \in Seq(Call) /\ Len(calls') <= MaxCalls
  BY <1>1, <1>2, EndKeeps
<1>4. /\ ~closed /\ calls[Len(calls)].status = "waiting"
      /\ \A n \in 1..Len(calls) : n # Len(calls) =>
            calls[n].status \notin {"waiting", "raised"}
  BY DEF TransportInv, CallsInOrder
<1>5. performed' = performed
  BY <1>1 DEF server
<1>6. TransportTypeOK'
  <2>1. replies' \in Seq(Piece)
    BY <1>1
  <2> QED  BY <1>1, <1>3, <2>1 DEF TransportInv, TransportTypeOK, server
<1>7. CallsInOrder'
  <2>1. \A n \in 1..Len(calls) : n # Len(calls) =>
            calls'[n].status \notin {"waiting", "raised"}
    BY <1>3, <1>4
  <2>2. \A n \in 1..Len(calls') : calls'[n].status \in {"waiting", "raised"} => n = Len(calls')
    BY <1>3, <2>1
  <2>3. calls'[Len(calls')].status = "raised"
    BY <1>2, <1>3
  <2>4. Len(calls') \in Nat
    BY <1>3
  <2> QED  BY <1>1, <2>2, <2>3, <2>4 DEF CallsInOrder
<1>8. ServedInOrder'
  <2>1. \A n \in 1..Len(calls) : /\ calls'[n].status = "returned" <=> calls[n].status = "returned"
                                 /\ calls[n].status = "waiting" => calls'[n].status = "raised"
                                 /\ calls[n].status = "raised" => calls'[n].status = "raised"
    BY <1>2, <1>3, <1>4
  <2> QED  BY <1>3, <1>5, <2>1 DEF TransportInv, ServedInOrder, Heard
<1>9. StreamClean'
  <2>1. \A n \in 1..Len(calls) : calls[n].status \in {"waiting", "raised"} =>
            calls'[n].status \in {"waiting", "raised"}
    BY <1>2, <1>3, <1>4
  <2> QED  BY <1>1, <1>3, <1>5, <2>1 DEF TransportInv, StreamClean
<1>10. OneReply'
  BY <1>1 DEF OneReply
<1> QED  BY <1>6, <1>7, <1>8, <1>9, <1>10 DEF TransportInv

(* A whole reply without a fault is the server's answer to this call.      *)
LEMMA WholeReply ==
    ASSUME TransportInv, receiving, Len(chunks) = Parts,
           NEW op \in Ops, Acceptable(op, chunks)
    PROVE  /\ replies = <<>> /\ requests = <<>>
           /\ performed # <<>> /\ performed[Len(performed)].call = Len(calls)
           /\ chunks[Parts].answer = Len(performed)
<1>1. chunks \in Seq(Piece) /\ replies \in Seq(Piece) /\ Parts \in Nat \ {0}
  BY TransportAssumption DEF TransportInv, TransportTypeOK
<1> DEFINE stream == chunks \o replies
<1>2. /\ stream \in Seq(Piece) /\ Len(stream) = Len(chunks) + Len(replies)
      /\ \A i \in 1..Len(chunks) : stream[i] = chunks[i]
  BY <1>1
<1>3. /\ Len(stream) <= Parts
      /\ stream # <<>> /\ stream[1].good =>
            /\ performed # <<>> /\ stream[1].answer = Len(performed)
            /\ performed[Len(performed)].call = Len(calls)
      /\ \A i \in 1..Len(stream) : stream[i] = [stream[1] EXCEPT !.part = i]
  BY DEF TransportInv, OneReply
<1> HIDE DEF stream
<1>4. replies = <<>> /\ Len(stream) = Parts
  BY <1>1, <1>2, <1>3
<1>5. stream # <<>> /\ stream[1].good
  BY <1>1, <1>2, <1>4 DEF Acceptable
<1>6. stream[Parts] = chunks[Parts] /\ stream[Parts] = [stream[1] EXCEPT !.part = Parts]
  BY <1>1, <1>2, <1>3, <1>4
<1>7. stream[1] \in Piece
  BY <1>1, <1>2, <1>4
<1>8. chunks[Parts].answer = Len(performed)
  BY <1>3, <1>5, <1>6, <1>7 DEF Piece
<1>9. requests = <<>>
  <2>1. chunks # <<>>
    BY <1>1
  <2> QED  BY <2>1 DEF TransportInv, StreamClean
<1> QED  BY <1>3, <1>4, <1>5, <1>8, <1>9

LEMMA ReturnKeeps ==
    ASSUME TransportInv, receiving, Finish, Acceptable(calls[Len(calls)].op, chunks)
    PROVE  TransportInv'
<1> DEFINE end == [calls[Len(calls)] EXCEPT !.status = "returned",
                                            !.answer = chunks[Parts].answer]
           op == calls[Len(calls)].op
<1>1. /\ Len(chunks) = Parts /\ receiving' = FALSE
      /\ calls' = [calls EXCEPT ![Len(calls)] = end]
      /\ counts' = IF op \in Counted THEN [counts EXCEPT ![op] = @ + 1] ELSE counts
      /\ UNCHANGED <<closed, chunks, requests, replies, server>>
  BY DEF Finish
<1>2. calls[Len(calls)] \in Call /\ op \in Ops
  <2>1. calls \in Seq(Call) /\ calls # <<>>
    BY DEF TransportInv, TransportTypeOK, CallsInOrder
  <2>2. calls[Len(calls)] \in Call
    BY <2>1
  <2> QED  BY <2>2 DEF Call
<1>3. /\ replies = <<>> /\ requests = <<>>
      /\ performed # <<>> /\ performed[Len(performed)].call = Len(calls)
      /\ chunks[Parts].answer = Len(performed)
  BY <1>1, <1>2, WholeReply
<1>4. /\ performed \in Seq([call : Nat, op : Ops, value : BOOLEAN])
      /\ Len(performed) \in 1..Len(performed)
  BY <1>3 DEF TransportInv, TransportTypeOK
<1>5. end \in Call /\ end.op = op /\ end.status = "returned"
  <2>1. chunks[Parts].answer \in Nat
    BY <1>3, <1>4
  <2> QED  BY <1>2, <2>1 DEF Call
<1> HIDE DEF end
<1>6. /\ Len(calls) \in Nat \ {0} /\ Len(calls') = Len(calls)
      /\ \A n \in 1..Len(calls) : n # Len(calls) => calls'[n] = calls[n]
      /\ calls'[Len(calls)] = end
      /\ \A n \in 1..Len(calls) : calls'[n].op = calls[n].op
      /\ calls' \in Seq(Call) /\ Len(calls') <= MaxCalls
  BY <1>1, <1>5, EndKeeps
<1>7. /\ ~closed
      /\ \A n \in 1..Len(calls) : n # Len(calls) =>
            calls[n].status \notin {"waiting", "raised"}
  BY DEF TransportInv, CallsInOrder
<1>8. performed' = performed
  BY <1>1 DEF server
<1>9. TransportTypeOK'
  <2>1. counts' \in [Counted -> Nat]
    BY <1>1 DEF TransportInv, TransportTypeOK
  <2> QED  BY <1>1, <1>6, <2>1 DEF TransportInv, TransportTypeOK, server
<1>10. \A n \in 1..Len(calls) : calls'[n].status \notin {"waiting", "raised"}
  BY <1>5, <1>6, <1>7
<1>11. CallsInOrder'
  BY <1>1, <1>6, <1>10 DEF CallsInOrder
<1>12. ServedInOrder'
  <2>1. \A n \in 1..Len(calls) :
            calls'[n].status = "returned" => n = Len(calls) \/ calls[n].status = "returned"
    BY <1>6
  <2>2. Heard(Len(calls))
    BY <1>3, <1>4 DEF Heard
  <2>3. \A n \in 1..Len(calls) : calls[n].status \in {"returned", "waiting"} =>
            calls'[n].status = "returned"
    BY <1>5, <1>6, <1>7
  <2>4. \A n \in 1..Len(calls) : calls[n].status # "raised"
    BY <1>7 DEF TransportInv, CallsInOrder
  <2>5. ServedInOrder
    BY DEF TransportInv
  <2>6. ASSUME NEW i \in 1..Len(performed)
        PROVE  LET n == performed[i].call
               IN  /\ n \in 1..Len(calls') /\ performed[i].op = calls'[n].op
                   /\ calls'[n].status = "returned"
    <3>1. /\ performed[i].call \in 1..Len(calls)
          /\ performed[i].op = calls[performed[i].call].op
          /\ calls[performed[i].call].status \in {"returned", "waiting", "raised"}
      BY <2>5 DEF ServedInOrder
    <3> QED  BY <1>6, <2>3, <2>4, <3>1
  <2>7. \A n \in 1..Len(calls') : calls'[n].status = "returned" => Heard(n)
    BY <1>6, <2>1, <2>2, <2>5 DEF ServedInOrder
  <2> QED  BY <1>8, <2>5, <2>6, <2>7 DEF ServedInOrder, Heard
<1>13. StreamClean' /\ OneReply'
  BY <1>1, <1>3 DEF StreamClean, OneReply
<1> QED  BY <1>9, <1>11, <1>12, <1>13 DEF TransportInv

LEMMA AwaitKeeps ==
    ASSUME TransportInv, Await
    PROVE  TransportInv'
<1>1. CASE Receive
  BY <1>1, ReceiveKeeps
<1>2. CASE NothingComes
  BY <1>2, RaiseKeeps DEF Await, NothingComes
<1>3. CASE Finish
  <2>1. CASE Acceptable(calls[Len(calls)].op, chunks)
    BY <1>3, <2>1, ReturnKeeps DEF Await
  <2>2. CASE ~Acceptable(calls[Len(calls)].op, chunks)
    BY <1>3, <2>2, RaiseKeeps DEF Await, Finish
  <2> QED  BY <2>1, <2>2
<1> QED  BY <1>1, <1>2, <1>3 DEF Await
--------------------------------------------------------------------------------
LEMMA OneElement ==
    ASSUME NEW S, NEW s \in Seq(S), s # <<>>, Len(s) <= 1
    PROVE  s[1] = Head(s) /\ s = <<Head(s)>> /\ Head(s) \in S
<1>1. Len(s) \in Nat /\ Len(s) # 0
  BY EmptySeq
<1>2. Len(s) = 1
  BY <1>1
<1>3. s[1] = Head(s) /\ Head(s) \in S
  BY <1>2, HeadTailProperties
<1>4. s = <<s[1]>>
  BY <1>2
<1> QED  BY <1>3, <1>4

(* What the server has before it is the call in doubt, which it has not    *)
(* carried out yet; all others have returned or were turned away.          *)
LEMMA RequestInDoubt ==
    ASSUME TransportInv, requests # <<>>
    PROVE  LET r == Head(requests)
           IN  /\ requests = <<r>> /\ r \in [call : Nat, op : Ops]
               /\ r.call \in 1..Len(calls) /\ r.op = calls[r.call].op
               /\ calls[r.call].status \in {"waiting", "raised"}
               /\ \A i \in 1..Len(performed) : performed[i].call < r.call
               /\ replies = <<>>
               /\ receiving => chunks = <<>> /\ r.call = Len(calls)
<1>1. requests \in Seq([call : Nat, op : Ops]) /\ Len(requests) <= 1
  BY DEF TransportInv, TransportTypeOK, StreamClean
<1>2. /\ requests[1] = Head(requests) /\ requests = <<Head(requests)>>
      /\ Head(requests) \in [call : Nat, op : Ops]
  BY <1>1, OneElement
<1>3. LET n == requests[1].call
      IN  /\ n \in 1..Len(calls) /\ requests[1].op = calls[n].op
          /\ calls[n].status \in {"waiting", "raised"}
          /\ \A i \in 1..Len(performed) : performed[i].call < n
          /\ replies = <<>> /\ (receiving => chunks = <<>>)
  BY DEF TransportInv, StreamClean
<1>4. receiving => requests[1].call = Len(calls)
  BY <1>3 DEF TransportInv, CallsInOrder
<1> QED  BY <1>2, <1>3, <1>4

LEMMA OnlyOneInDoubt ==
    ASSUME TransportInv, NEW m \in 1..Len(calls), NEW n \in 1..Len(calls),
           calls[m].status \in {"waiting", "raised"}, calls[n].status \in {"waiting", "raised"}
    PROVE  m = n
<1>1. Len(calls) \in Nat
  BY DEF TransportInv, TransportTypeOK
<1>2. \A a, b \in 1..Len(calls) :
        /\ calls[a].status \in {"waiting", "raised"}
        /\ calls[b].status \in {"waiting", "raised"}
        => ~(a < b)
  BY <1>1 DEF TransportInv, CallsInOrder
<1> QED  BY <1>1, <1>2

(* The parts of the answer to request r, which is or is not carried out.   *)
Reply(answer, good, sound) ==
    [i \in 1..Parts |-> [answer |-> answer, part |-> i, good |-> good, sound |-> sound]]

LEMMA ServeKeeps ==
    ASSUME TransportInv, Serve
    PROVE  TransportInv'
<1> DEFINE r == Head(requests)
<1>1. PICK done \in BOOLEAN, good \in BOOLEAN, sound \in BOOLEAN, value \in BOOLEAN :
        /\ good => done
        /\ performed' = IF done
            THEN Append(performed, [call |-> r.call, op |-> r.op, value |-> value])
            ELSE performed
        /\ replies' = IF closed THEN <<>>
            ELSE replies \o Reply(Len(performed'), good, sound)
  BY DEF Serve, Reply
<1>2. requests # <<>> /\ requests' = Tail(requests) /\ UNCHANGED <<client, serving>>
  BY DEF Serve
<1>3. /\ requests = <<r>> /\ r \in [call : Nat, op : Ops]
      /\ r.call \in 1..Len(calls) /\ r.op = calls[r.call].op
      /\ calls[r.call].status \in {"waiting", "raised"}
      /\ \A i \in 1..Len(performed) : performed[i].call < r.call
      /\ replies = <<>>
      /\ receiving => chunks = <<>> /\ r.call = Len(calls)
  BY <1>2, RequestInDoubt
<1> HIDE DEF r
<1>4. requests' = <<>>
  BY <1>2, <1>3
<1>5. UNCHANGED <<closed, receiving, chunks, counts, calls, serving>>
  BY <1>2 DEF client
<1> DEFINE last == [call |-> r.call, op |-> r.op, value |-> value]
<1>6. /\ performed \in Seq([call : Nat, op : Ops, value : BOOLEAN])
      /\ last \in [call : Nat, op : Ops, value : BOOLEAN]
      /\ last.call = r.call /\ last.op = r.op
      /\ Parts \in Nat \ {0} /\ Len(calls) \in Nat
  BY <1>3, TransportAssumption DEF TransportInv, TransportTypeOK
<1>7. performed' = IF done THEN Append(performed, last) ELSE performed
  BY <1>1
<1> HIDE DEF last
<1>8. /\ performed' \in Seq([call : Nat, op : Ops, value : BOOLEAN])
      /\ Len(performed') \in Nat
      /\ ~done => performed' = performed
      /\ done => /\ Len(performed') = Len(performed) + 1
                 /\ performed'[Len(performed) + 1] = last
                 /\ \A i \in 1..Len(performed) : performed'[i] = performed[i]
  <2>1. CASE done
    <3>1. performed' = Append(performed, last)
      BY <1>7, <2>1
    <3> QED  BY <1>6, <2>1, <3>1
  <2>2. CASE ~done
    BY <1>6, <1>7, <2>2
  <2> QED  BY <2>1, <2>2
<1> DEFINE reply == Reply(Len(performed'), good, sound)
<1>9. /\ reply \in Seq(Piece) /\ Len(reply) = Parts
      /\ \A i \in 1..Parts : reply[i] = [answer |-> Len(performed'), part |-> i,
                                         good |-> good, sound |-> sound]
  <2>1. DOMAIN reply = 1..Parts
    BY DEF Reply
  <2>2. \A i \in 1..Parts : reply[i] = [answer |-> Len(performed'), part |-> i,
                                        good |-> good, sound |-> sound]
    BY DEF Reply
  <2>3. \A i \in 1..Parts : reply[i] \in Piece
    <3>1. \A i \in 1..Parts : [answer |-> Len(performed'), part |-> i,
                              good |-> good, sound |-> sound] \in Piece
      BY <1>8 DEF Piece
    <3> HIDE DEF reply
    <3> QED  BY <2>2, <3>1
  <2>4. reply \in [1..Parts -> Piece]
    BY <2>3 DEF Reply
  <2> HIDE DEF reply
  <2> QED  BY <1>6, <2>1, <2>2, <2>4
<1>10. replies' = IF closed THEN <<>> ELSE reply
  <2> HIDE DEF reply
  <2>1. replies' = IF closed THEN <<>> ELSE <<>> \o reply
    BY <1>1, <1>3 DEF reply
  <2> QED  BY <1>9, <2>1
<1> HIDE DEF reply
<1>11. receiving \/ closed
  BY <1>2 DEF TransportInv, StreamClean
<1>12. TransportTypeOK'
  <2>1. replies' \in Seq(Piece)
    BY <1>9, <1>10
  <2>2. requests' \in Seq([call : Nat, op : Ops])
    BY <1>4
  <2> QED  BY <1>5, <1>8, <2>1, <2>2 DEF TransportInv, TransportTypeOK
<1>13. CallsInOrder'
  BY <1>5 DEF TransportInv, CallsInOrder
<1>14. ServedInOrder'
  <2>1. ServedInOrder
    BY DEF TransportInv
  <2>2. CASE ~done
    BY <1>5, <1>8, <2>1, <2>2 DEF ServedInOrder, Heard
  <2>3. CASE done
    <3>1. \A i, j \in 1..Len(performed') :
            i < j => performed'[i].call < performed'[j].call
      <4> SUFFICES ASSUME NEW i \in 1..Len(performed'), NEW j \in 1..Len(performed'), i < j
                   PROVE  performed'[i].call < performed'[j].call
        OBVIOUS
      <4>1. i \in 1..Len(performed) /\ performed'[i] = performed[i]
        BY <1>6, <1>8, <2>3
      <4>2. CASE j = Len(performed) + 1
        BY <1>3, <1>6, <1>8, <2>3, <4>1, <4>2
      <4>3. CASE j \in 1..Len(performed)
        BY <1>8, <2>1, <2>3, <4>1, <4>3 DEF ServedInOrder
      <4> QED  BY <1>6, <1>8, <2>3, <4>2, <4>3
    <3>2. ASSUME NEW i \in 1..Len(performed)
          PROVE  /\ performed[i].call \in 1..Len(calls)
                 /\ performed[i].op = calls[performed[i].call].op
                 /\ calls[performed[i].call].status = "returned"
      <4>1. /\ performed[i].call \in 1..Len(calls)
            /\ performed[i].op = calls[performed[i].call].op
            /\ calls[performed[i].call].status \in {"returned", "waiting", "raised"}
        BY <2>1 DEF ServedInOrder
      <4>2. performed[i].call # r.call
        BY <1>3, <1>6, <4>1
      <4> QED  BY <1>3, <4>1, <4>2, OnlyOneInDoubt
    <3>3. ASSUME NEW i \in 1..Len(performed')
          PROVE  LET n == performed'[i].call
                 IN  /\ n \in 1..Len(calls) /\ performed'[i].op = calls[n].op
                     /\ \/ calls[n].status = "returned"
                        \/ /\ calls[n].status \in {"waiting", "raised"}
                           /\ i = Len(performed')
      <4>1. CASE i = Len(performed) + 1
        BY <1>3, <1>6, <1>8, <2>3, <4>1
      <4>2. CASE i \in 1..Len(performed)
        BY <1>8, <2>3, <3>2, <4>2
      <4> QED  BY <1>6, <1>8, <2>3, <4>1, <4>2
    <3>4. \A n \in 1..Len(calls) : calls[n].status = "returned" => Heard(n)'
      BY <1>6, <1>8, <2>1, <2>3 DEF ServedInOrder, Heard
    <3> QED  BY <1>5, <3>1, <3>3, <3>4 DEF ServedInOrder
  <2> QED  BY <2>2, <2>3
<1>15. StreamClean'
  <2>1. ~receiving => replies' = <<>>
    BY <1>10, <1>11
  <2> QED  BY <1>4, <1>5, <2>1 DEF StreamClean
<1>16. OneReply'
  <2> SUFFICES ASSUME receiving PROVE OneReply'
    BY <1>5 DEF OneReply
  <2>1. ~closed /\ chunks = <<>> /\ r.call = Len(calls)
    BY <1>3 DEF TransportInv, CallsInOrder
  <2>2. chunks' \o replies' = reply
    BY <1>5, <1>9, <1>10, <2>1
  <2>3. good => /\ performed' # <<>>
                /\ performed'[Len(performed')].call = Len(calls)
    BY <1>1, <1>6, <1>8, <2>1
  <2>4. reply[1] = [answer |-> Len(performed'), part |-> 1, good |-> good, sound |-> sound]
    BY <1>6, <1>9
  <2>5. \A i \in 1..Len(reply) : reply[i] = [reply[1] EXCEPT !.part = i]
    BY <1>9, <2>4
  <2> QED  BY <1>5, <1>6, <1>9, <2>2, <2>3, <2>4, <2>5 DEF OneReply
<1> QED  BY <1>12, <1>13, <1>14, <1>15, <1>16 DEF TransportInv

LEMMA ServerStopsKeeps ==
    ASSUME TransportInv, ServerStops
    PROVE  TransportInv'
<1>1. requests' = <<>> /\ UNCHANGED <<client, performed>> /\ serving' = FALSE
  BY DEF ServerStops
<1>2. UNCHANGED <<closed, receiving, chunks, counts, calls>>
  BY <1>1 DEF client
<1>3. chunks \in Seq(Piece) /\ replies \in Seq(Piece)
  BY DEF TransportInv, TransportTypeOK
<1>4. PICK n \in 0..Len(replies) : replies' = SubSeq(replies, 1, n)
  BY DEF ServerStops
<1>5. /\ replies' \in Seq(Piece) /\ Len(replies') = n
      /\ \A i \in 1..n : replies'[i] = replies[i]
  BY <1>3, <1>4
<1>6. ~receiving => replies' = <<>>
  BY <1>3, <1>5 DEF TransportInv, StreamClean
<1>7. TransportTypeOK'
  <2>1. requests' \in Seq([call : Nat, op : Ops])
    BY <1>1
  <2> QED  BY <1>1, <1>2, <1>5, <2>1 DEF TransportInv, TransportTypeOK
<1>8. CallsInOrder' /\ ServedInOrder'
  BY <1>1, <1>2 DEF TransportInv, CallsInOrder, ServedInOrder, Heard
<1>9. StreamClean'
  BY <1>1, <1>2, <1>6 DEF StreamClean
<1>10. OneReply'
  <2> DEFINE old == chunks \o replies
             new == chunks \o replies'
  <2>1. /\ Len(old) = Len(chunks) + Len(replies) /\ Len(new) = Len(chunks) + n
        /\ n <= Len(replies) /\ Len(chunks) \in Nat /\ n \in Nat /\ Len(replies) \in Nat
        /\ old \in Seq(Piece) /\ new \in Seq(Piece)
    <3>1. old \in Seq(Piece) /\ Len(old) = Len(chunks) + Len(replies)
      BY <1>3
    <3>2. new \in Seq(Piece) /\ Len(new) = Len(chunks) + Len(replies')
      <4>1. \A t \in Seq(Piece) :
                chunks \o t \in Seq(Piece) /\ Len(chunks \o t) = Len(chunks) + Len(t)
        BY <1>3
      <4> QED  BY <1>5, <4>1
    <3>3. Len(chunks) \in Nat /\ Len(replies) \in Nat
      BY <1>3
    <3> HIDE DEF old, new
    <3> QED  BY <1>5, <3>1, <3>2, <3>3
  <2>2. \A i \in 1..Len(new) : new[i] = old[i]
    BY <1>3, <1>5, <2>1
  <2>3. receiving =>
            /\ Len(old) <= Parts
            /\ old # <<>> /\ old[1].good =>
                /\ performed # <<>> /\ old[1].answer = Len(performed)
                /\ performed[Len(performed)].call = Len(calls)
            /\ \A i \in 1..Len(old) : old[i] = [old[1] EXCEPT !.part = i]
    BY DEF TransportInv, OneReply
  <2>4. (chunks \o replies)' = new
    BY <1>2
  <2> HIDE DEF old, new
  <2>5. Parts \in Nat
    BY TransportAssumption
  <2>6. new # <<>> => old # <<>> /\ new[1] = old[1]
    BY <2>1, <2>2
  <2>7. receiving =>
            /\ Len(new) <= Parts
            /\ new # <<>> /\ new[1].good =>
                /\ performed # <<>> /\ new[1].answer = Len(performed)
                /\ performed[Len(performed)].call = Len(calls)
            /\ \A i \in 1..Len(new) : new[i] = [new[1] EXCEPT !.part = i]
    BY <2>1, <2>2, <2>3, <2>5, <2>6
  <2> QED  BY <1>1, <1>2, <2>4, <2>7 DEF OneReply
<1> QED  BY <1>7, <1>8, <1>9, <1>10 DEF TransportInv

LEMMA StepKeeps ==
    ASSUME TransportInv, [TransportNext]_transport
    PROVE  TransportInv'
<1>1. ASSUME NEW op \in Ops, Send(op) \/ SendFails(op) \/ TurnAway(op)
      PROVE  TransportInv'
  BY <1>1, SendKeeps, SendFailsKeeps, TurnAwayKeeps
<1>2. CASE Close \/ Await \/ Serve \/ ServerStops
  BY <1>2, CloseKeeps, AwaitKeeps, ServeKeeps, ServerStopsKeeps
<1>3. CASE UNCHANGED transport
  BY <1>3 DEF transport, client, server, TransportInv, TransportTypeOK, CallsInOrder,
              ServedInOrder, Heard, StreamClean, OneReply
<1> QED  BY <1>1, <1>2, <1>3 DEF TransportNext

(* The client's books, the server's and the stream between them fit: what  *)
(* was carried out are the calls that returned and at most one in doubt,   *)
(* and no reply is left over for a later call (transport.py:52-81).        *)
THEOREM TransportInvariance == TransportSpec => []TransportInv
<1>1. TransportInv /\ [TransportNext]_transport => TransportInv'
  BY StepKeeps
<1> QED  BY InitHolds, <1>1, PTL DEF TransportSpec
--------------------------------------------------------------------------------
LEMMA InitRefines == TransportInit => Abstract!Init
  BY DEF TransportInit, Abstract!Init

LEMMA BeginRefines ==
    ASSUME TransportInv, NEW op \in Ops, Send(op) \/ SendFails(op)
    PROVE  Abstract!Begin(op)
<1>1. ~receiving /\ ~closed /\ performed' = performed
  BY DEF Send, SendFails, Ready, server
<1>2. Enter(op, "waiting") \/ Enter(op, "raised")
  BY DEF Send, SendFails
<1>3. Abstract!Open
  BY <1>1, QuietBefore DEF Abstract!Open
<1> QED  BY <1>1, <1>2, <1>3 DEF Enter, Abstract!Begin, Abstract!Enter

LEMMA TurnAwayRefines ==
    ASSUME TransportInv, NEW op \in Ops, TurnAway(op)
    PROVE  Abstract!TurnAway(op)
<1>1. ~receiving /\ performed' = performed /\ Enter(op, "refused")
  BY DEF TurnAway, Ready, server
<1>2. \A n \in 1..Len(calls) : calls[n].status # "waiting"
  BY <1>1 DEF TransportInv, CallsInOrder
<1> QED  BY <1>1, <1>2 DEF Enter, Abstract!TurnAway, Abstract!Enter

LEMMA RaiseRefines ==
    ASSUME TransportInv, receiving, Raise
    PROVE  \E n \in 1..Len(calls) : Abstract!GiveUp(n)
<1>1. calls # <<>> /\ calls[Len(calls)].status = "waiting" /\ calls \in Seq(Call)
  BY DEF TransportInv, TransportTypeOK, CallsInOrder
<1>2. Len(calls) \in 1..Len(calls)
  BY <1>1
<1>3. /\ calls' = [calls EXCEPT ![Len(calls)].status = "raised"]
      /\ performed' = performed
  BY DEF Raise, server
<1> QED  BY <1>1, <1>2, <1>3 DEF Abstract!GiveUp

LEMMA ReturnRefines ==
    ASSUME TransportInv, receiving, Finish, Acceptable(calls[Len(calls)].op, chunks)
    PROVE  \E n \in 1..Len(calls) : Abstract!Return(n)
<1>1. calls # <<>> /\ calls[Len(calls)].status = "waiting" /\ calls \in Seq(Call)
  BY DEF TransportInv, TransportTypeOK, CallsInOrder
<1>2. Len(calls) \in 1..Len(calls) /\ calls[Len(calls)] \in Call
  BY <1>1
<1>3. calls[Len(calls)].op \in Ops
  BY <1>2 DEF Call
<1>4. /\ Len(chunks) = Parts /\ performed' = performed
      /\ calls' = [calls EXCEPT ![Len(calls)].status = "returned",
                                ![Len(calls)].answer = chunks[Parts].answer]
  BY DEF Finish, server
<1>5. /\ performed # <<>> /\ performed[Len(performed)].call = Len(calls)
      /\ chunks[Parts].answer = Len(performed)
  BY <1>3, <1>4, WholeReply
<1> QED  BY <1>1, <1>2, <1>4, <1>5 DEF Abstract!Return

LEMMA AwaitRefines ==
    ASSUME TransportInv, Await
    PROVE  \/ \E n \in 1..Len(calls) : Abstract!Return(n) \/ Abstract!GiveUp(n)
           \/ UNCHANGED <<calls, performed>>
<1>1. CASE Receive
  BY <1>1 DEF Receive, server
<1>2. CASE NothingComes
  BY <1>2, RaiseRefines DEF Await, NothingComes
<1>3. CASE Finish
  <2>1. CASE Acceptable(calls[Len(calls)].op, chunks)
    BY <1>3, <2>1, ReturnRefines DEF Await
  <2>2. CASE ~Acceptable(calls[Len(calls)].op, chunks)
    BY <1>3, <2>2, RaiseRefines DEF Await, Finish
  <2> QED  BY <2>1, <2>2
<1> QED  BY <1>1, <1>2, <1>3 DEF Await

LEMMA ServeRefines ==
    ASSUME TransportInv, Serve
    PROVE  \/ \E n \in 1..Len(calls) : Abstract!Perform(n)
           \/ UNCHANGED <<calls, performed>>
<1> DEFINE r == Head(requests)
<1>1. /\ requests # <<>> /\ calls' = calls
      /\ \E value \in BOOLEAN :
            performed' \in
                {Append(performed, [call |-> r.call, op |-> r.op, value |-> value]), performed}
  BY DEF Serve, client
<1>2. /\ r.call \in 1..Len(calls) /\ r.op = calls[r.call].op
      /\ calls[r.call].status \in {"waiting", "raised"}
      /\ \A i \in 1..Len(performed) : performed[i].call < r.call
  BY <1>1, RequestInDoubt
<1>3. performed \in Seq([call : Nat, op : Ops, value : BOOLEAN]) /\ Len(calls) \in Nat
  BY DEF TransportInv, TransportTypeOK
<1> HIDE DEF r
<1>4. \A i \in 1..Len(performed) : performed[i].call # r.call
  <2>1. \A i \in 1..Len(performed) : performed[i].call \in 1..Len(calls)
    BY DEF TransportInv, ServedInOrder
  <2> QED  BY <1>2, <1>3, <2>1
<1> QED  BY <1>1, <1>2, <1>4 DEF Abstract!Perform

LEMMA StepRefines ==
    ASSUME TransportInv, [TransportNext]_transport
    PROVE  [Abstract!Next]_<<calls, performed>>
<1>1. ASSUME NEW op \in Ops, Send(op) \/ SendFails(op) \/ TurnAway(op)
      PROVE  Abstract!Next
  BY <1>1, BeginRefines, TurnAwayRefines DEF Abstract!Next
<1>2. CASE Await \/ Serve
  BY <1>2, AwaitRefines, ServeRefines DEF Abstract!Next
<1>3. CASE Close \/ ServerStops \/ UNCHANGED transport
  BY <1>3 DEF Close, ServerStops, transport, client, server
<1> QED  BY <1>1, <1>2, <1>3 DEF TransportNext

(* A call that returns was carried out once, and its answer is about that; *)
(* nothing happens after a call that raised but, perhaps, what it asked    *)
(* for (transport.py:75-80).                                               *)
THEOREM TransportIsCalls == TransportSpec => ImplementsCalls
<1>1. TransportInv /\ [TransportNext]_transport => [Abstract!Next]_<<calls, performed>>
  BY StepRefines
<1> QED
  BY InitRefines, TransportInvariance, <1>1, PTL DEF TransportSpec, ImplementsCalls, Abstract!Spec
--------------------------------------------------------------------------------
(* What the client counts.                                                 *)

(* The request that was carried out last, if its call has not returned.    *)
InDoubt(op) ==
    /\ performed # <<>>
    /\ performed[Len(performed)].op = op
    /\ calls[performed[Len(performed)].call].status # "returned"

(* The invariant behind CountsMatchServer.                                 *)
CountsAgree ==
    \A op \in Counted : Done(op) = counts[op] + (IF InDoubt(op) THEN 1 ELSE 0)

Doing(op) == {n \in 1..Len(performed) : performed[n].op = op}

LEMMA DoneType ==
    ASSUME TransportInv, NEW op
    PROVE  IsFiniteSet(Doing(op)) /\ Done(op) = Cardinality(Doing(op)) /\ Done(op) \in Nat
<1>1. Len(performed) \in Nat
  BY DEF TransportInv, TransportTypeOK
<1>2. IsFiniteSet(1..Len(performed)) /\ Doing(op) \subseteq 1..Len(performed)
  BY <1>1, FS_Interval DEF Doing
<1>3. IsFiniteSet(Doing(op))
  BY <1>2, FS_Subset
<1>4. Done(op) = Cardinality(Doing(op))
  BY DEF Done, Doing
<1> QED  BY <1>3, <1>4, FS_CardinalityType

LEMMA InitCounts == TransportInit => CountsAgree
<1> SUFFICES ASSUME TransportInit, NEW op \in Counted
             PROVE  Done(op) = counts[op] + (IF InDoubt(op) THEN 1 ELSE 0)
  BY DEF CountsAgree
<1>1. {n \in 1..Len(performed) : performed[n].op = op} = {}
  BY DEF TransportInit
<1>2. Done(op) = 0
  BY <1>1, FS_EmptySet DEF Done
<1> QED  BY <1>2 DEF TransportInit, InDoubt

(* Steps that neither serve nor return: a call in doubt stays so.          *)
LEMMA QuietCounts ==
    ASSUME TransportInv, CountsAgree, UNCHANGED <<performed, counts>>,
           \A n \in 1..Len(calls) : calls'[n].status = "returned" <=> calls[n].status = "returned"
    PROVE  CountsAgree'
<1>1. performed \in Seq([call : Nat, op : Ops, value : BOOLEAN])
  BY DEF TransportInv, TransportTypeOK
<1>2. performed # <<>> => performed[Len(performed)].call \in 1..Len(calls)
  <2>1. performed # <<>> => Len(performed) \in 1..Len(performed)
    BY <1>1
  <2> QED  BY <2>1 DEF TransportInv, ServedInOrder
<1>3. \A op : InDoubt(op)' <=> InDoubt(op)
  BY <1>2 DEF InDoubt
<1>4. \A op : Done(op)' = Done(op)
  BY DEF Done
<1> QED  BY <1>3, <1>4 DEF CountsAgree

LEMMA ReturnCounts ==
    ASSUME TransportInv, CountsAgree, receiving, Finish,
           Acceptable(calls[Len(calls)].op, chunks)
    PROVE  CountsAgree'
<1> DEFINE last == performed[Len(performed)]
           op == calls[Len(calls)].op
<1>1. calls \in Seq(Call) /\ calls # <<>> /\ calls[Len(calls)].status = "waiting"
  BY DEF TransportInv, TransportTypeOK, CallsInOrder
<1>2. Len(calls) \in 1..Len(calls) /\ calls[Len(calls)] \in Call
  BY <1>1
<1>3. op \in Ops
  BY <1>2 DEF Call
<1>4. /\ Len(chunks) = Parts /\ performed' = performed
      /\ calls' = [calls EXCEPT ![Len(calls)].status = "returned",
                                ![Len(calls)].answer = chunks[Parts].answer]
      /\ counts' = IF op \in Counted THEN [counts EXCEPT ![op] = @ + 1] ELSE counts
  BY DEF Finish, server
<1>5. performed # <<>> /\ last.call = Len(calls)
  BY <1>3, <1>4, WholeReply
<1>6. performed \in Seq([call : Nat, op : Ops, value : BOOLEAN])
      /\ Len(performed) \in 1..Len(performed)
  BY <1>5 DEF TransportInv, TransportTypeOK
<1>7. last.op = op
  BY <1>5, <1>6 DEF TransportInv, ServedInOrder
<1>8. calls'[Len(calls)].status = "returned"
  BY <1>1, <1>2, <1>4
<1>9. \A k : ~InDoubt(k)' /\ (InDoubt(k) <=> k = op)
  BY <1>1, <1>4, <1>5, <1>7, <1>8 DEF InDoubt
<1>10. counts \in [Counted -> Nat]
  BY DEF TransportInv, TransportTypeOK
<1>11. \A k \in Counted : counts'[k] = counts[k] + (IF k = op THEN 1 ELSE 0)
  BY <1>4, <1>10
<1>12. \A k : Done(k)' = Done(k)
  BY <1>4 DEF Done
<1>13. \A k \in Counted : Done(k) \in Nat /\ counts[k] \in Nat
  BY <1>10, DoneType
<1> HIDE DEF op
<1> QED  BY <1>9, <1>11, <1>12, <1>13, <1>10 DEF CountsAgree

LEMMA ServeCounts ==
    ASSUME TransportInv, CountsAgree, Serve
    PROVE  CountsAgree'
<1> DEFINE r == Head(requests)
<1>1. /\ requests # <<>> /\ UNCHANGED <<calls, counts>>
      /\ \E value \in BOOLEAN :
            \/ performed' = Append(performed, [call |-> r.call, op |-> r.op, value |-> value])
            \/ performed' = performed
  BY DEF Serve, client
<1>2. /\ r \in [call : Nat, op : Ops]
      /\ r.call \in 1..Len(calls) /\ r.op = calls[r.call].op
      /\ calls[r.call].status \in {"waiting", "raised"}
      /\ \A i \in 1..Len(performed) : performed[i].call < r.call
  BY <1>1, RequestInDoubt
<1> HIDE DEF r
<1>3. performed \in Seq([call : Nat, op : Ops, value : BOOLEAN]) /\ Len(calls) \in Nat
  BY DEF TransportInv, TransportTypeOK
<1>4. CASE performed' = performed
  BY <1>1, <1>4, QuietCounts
<1>5. ASSUME NEW value \in BOOLEAN,
             performed' = Append(performed, [call |-> r.call, op |-> r.op, value |-> value])
      PROVE  CountsAgree'
  <2> DEFINE new == [call |-> r.call, op |-> r.op, value |-> value]
             N == Len(performed)
  <2>1. new \in [call : Nat, op : Ops, value : BOOLEAN] /\ new.call = r.call /\ new.op = r.op
    BY <1>2
  <2>2. performed' = Append(performed, new)
    BY <1>5
  <2> HIDE DEF new
  <2>3. /\ N \in Nat /\ Len(performed') = N + 1 /\ performed' # <<>>
        /\ performed'[N + 1] = new
        /\ \A i \in 1..N : performed'[i] = performed[i]
    BY <1>3, <2>1, <2>2
  <2>4. \A k : ~InDoubt(k)
    <3> SUFFICES ASSUME performed # <<>>
                 PROVE  calls[performed[N].call].status = "returned"
      BY DEF InDoubt
    <3>1. N \in 1..N
      BY <1>3
    <3>2. /\ performed[N].call \in 1..Len(calls) /\ performed[N].call < r.call
          /\ calls[performed[N].call].status \in {"returned", "waiting", "raised"}
      BY <1>2, <3>1 DEF TransportInv, ServedInOrder
    <3>3. performed[N].call # r.call
      BY <1>2, <1>3, <3>2
    <3> QED  BY <1>2, <3>2, <3>3, OnlyOneInDoubt
  <2>5. \A k : InDoubt(k)' <=> k = r.op
    BY <1>1, <1>2, <2>1, <2>3 DEF InDoubt
  <2>6. ASSUME NEW k PROVE Done(k)' = Done(k) + (IF k = r.op THEN 1 ELSE 0)
    <3> DEFINE after == {n \in 1..Len(performed') : performed'[n].op = k}
    <3>1. Done(k)' = Cardinality(after)
      BY DEF Done
    <3>2. after = Doing(k) \cup (IF k = r.op THEN {N + 1} ELSE {})
      BY <2>1, <2>3 DEF Doing
    <3>3. N + 1 \notin Doing(k)
      BY <2>3 DEF Doing
    <3>4. IsFiniteSet(Doing(k)) /\ Done(k) = Cardinality(Doing(k)) /\ Done(k) \in Nat
      BY DoneType
    <3> HIDE DEF after
    <3>5. CASE k = r.op
      <4>1. Cardinality(Doing(k) \cup {N + 1}) = Cardinality(Doing(k)) + 1
        BY <3>3, <3>4, FS_AddElement
      <4> QED  BY <3>1, <3>2, <3>4, <3>5, <4>1
    <3>6. CASE k # r.op
      BY <3>1, <3>2, <3>4, <3>6
    <3> QED  BY <3>5, <3>6
  <2>7. \A k \in Counted : Done(k) = counts[k]
    <3>1. \A k \in Counted : counts[k] \in Nat
      BY DEF TransportInv, TransportTypeOK
    <3> QED  BY <2>4, <3>1 DEF CountsAgree
  <2>8. counts' = counts
    BY <1>1
  <2> QED  BY <2>5, <2>6, <2>7, <2>8 DEF CountsAgree
<1> QED  BY <1>1, <1>4, <1>5

LEMMA StepCounts ==
    ASSUME TransportInv, CountsAgree, [TransportNext]_transport
    PROVE  CountsAgree'
<1>1. ASSUME NEW op \in Ops, Send(op) \/ SendFails(op) \/ TurnAway(op)
      PROVE  CountsAgree'
  <2>1. /\ ~receiving /\ Len(calls) < MaxCalls /\ UNCHANGED <<performed, counts>>
        /\ \E status \in {"waiting", "raised", "refused"} : Enter(op, status)
    BY <1>1 DEF Send, SendFails, TurnAway, Ready, server
  <2>2. \A n \in 1..Len(calls) : calls'[n] = calls[n]
    BY <2>1, EnterKeeps
  <2> QED  BY <2>1, <2>2, QuietCounts
<1>2. ASSUME receiving, Raise PROVE CountsAgree'
  <2>1. calls \in Seq(Call) /\ calls # <<>> /\ calls[Len(calls)].status = "waiting"
    BY <1>2 DEF TransportInv, TransportTypeOK, CallsInOrder
  <2>2. /\ calls' = [calls EXCEPT ![Len(calls)].status = "raised"]
        /\ UNCHANGED <<performed, counts>>
    BY <1>2 DEF Raise, server
  <2>3. \A n \in 1..Len(calls) : calls'[n].status = "returned" <=> calls[n].status = "returned"
    BY <2>1, <2>2
  <2> QED  BY <2>2, <2>3, QuietCounts
<1>3. CASE Await
  <2>1. CASE Receive
    BY <2>1, QuietCounts DEF Receive, server
  <2>2. CASE NothingComes
    BY <1>2, <1>3, <2>2 DEF Await, NothingComes
  <2>3. CASE Finish
    BY <1>2, <1>3, <2>3, ReturnCounts DEF Await, Finish
  <2> QED  BY <1>3, <2>1, <2>2, <2>3 DEF Await
<1>4. CASE Serve
  BY <1>4, ServeCounts
<1>5. CASE Close \/ ServerStops \/ UNCHANGED transport
  BY <1>5, QuietCounts DEF Close, ServerStops, transport, client, server
<1> QED  BY <1>1, <1>3, <1>4, <1>5 DEF TransportNext

LEMMA CountsAgreeShows ==
    ASSUME TransportInv, CountsAgree
    PROVE  CountsMatchServer
<1>1. \A op \in Counted : counts[op] \in Nat /\ Done(op) \in Nat
  BY DoneType DEF TransportInv, TransportTypeOK
<1>2. performed \in Seq([call : Nat, op : Ops, value : BOOLEAN]) /\ Len(performed) \in Nat
  BY DEF TransportInv, TransportTypeOK
<1>3. \A op \in Counted : counts[op] <= Done(op)
  BY <1>1 DEF CountsAgree
<1>4. ASSUME ~closed, ~receiving, NEW op \in Counted PROVE counts[op] = Done(op)
  <2>1. ~InDoubt(op)
    <3>1. performed # <<>> => Len(performed) \in 1..Len(performed)
      BY <1>2
    <3>2. \A n \in 1..Len(calls) : calls[n].status \notin {"waiting", "raised"}
      BY <1>4, QuietBefore
    <3> QED  BY <3>1, <3>2 DEF InDoubt, TransportInv, ServedInOrder
  <2> QED  BY <1>1, <2>1 DEF CountsAgree
<1>5. \E n \in 0..Len(performed) :
          \A op \in Counted : counts[op] >= Done(op) - 1
                              /\ (counts[op] # Done(op) => n > 0 /\ performed[n].op = op)
  <2>1. \A op \in Counted :
          /\ counts[op] >= Done(op) - 1
          /\ counts[op] # Done(op) => InDoubt(op)
    BY <1>1 DEF CountsAgree
  <2>2. \A op : InDoubt(op) => Len(performed) > 0 /\ performed[Len(performed)].op = op
    <3>1. performed # <<>> => Len(performed) > 0
      BY <1>2
    <3> QED  BY <3>1 DEF InDoubt
  <2>3. Len(performed) \in 0..Len(performed)
    BY <1>2
  <2> WITNESS Len(performed) \in 0..Len(performed)
  <2> QED  BY <2>1, <2>2
<1> QED  BY <1>3, <1>4, <1>5 DEF CountsMatchServer

(* The client's counts and the server's differ by one call at most, which  *)
(* is the last that was carried out, and only once the client is closed or *)
(* while it waits (integration.py:553-560).                                *)
THEOREM CountsAreServers == TransportSpec => []CountsMatchServer
<1>1. TransportInv /\ CountsAgree /\ [TransportNext]_transport => CountsAgree'
  BY StepCounts
<1>2. TransportInv /\ CountsAgree => CountsMatchServer
  BY CountsAgreeShows
<1> QED
  BY InitCounts, TransportInvariance, <1>1, <1>2, PTL DEF TransportSpec
--------------------------------------------------------------------------------
(* The gate by itself.                                                     *)

ControlWrite == [due : Nat, enabled : BOOLEAN]

Writes == Seq(ControlWrite)

LEMMA WritesType ==
    ASSUME NEW writes \in Writes
    PROVE  /\ Len(writes) \in Nat
           /\ \A i \in 1..Len(writes) : writes[i].due \in Nat
<1>1. \A i \in 1..Len(writes) : writes[i] \in ControlWrite
  BY DEF Writes
<1>2. \A w \in ControlWrite : w.due \in Nat
  BY DEF ControlWrite
<1> QED  BY <1>1, <1>2 DEF Writes

(* The loop of _apply_due stops, at the first write that is not due.       *)
LEMMA ArrivedStops ==
    ASSUME NEW writes \in Writes, lines \in Nat
    PROVE  LET a == Arrived(writes)
           IN  /\ a \in 0..Len(writes)
               /\ a = Len(writes) \/ writes[a + 1].due > lines
               /\ \A i \in 1..a : writes[i].due <= lines
<1> DEFINE S == {n \in 0..Len(writes) : n = Len(writes) \/ writes[n + 1].due > lines}
<1>1. Len(writes) \in S
  BY WritesType
<1>2. \E m \in S : \A y \in S : ~(y < m)
  <2>1. S \subseteq Nat /\ S # {}
    BY <1>1
  <2>2. PICK m \in S : \A y \in S : ~(<<y, m>> \in OpToRel(<, Nat))
    BY <2>1, NatLessThanWellFounded, WFMin
  <2>3. \A y \in S : ~(y < m)
    <3> SUFFICES ASSUME NEW y \in S PROVE ~(y < m)
      OBVIOUS
    <3>1. y \in Nat /\ m \in Nat
      BY <2>1
    <3> QED  BY <2>2, <3>1 DEF OpToRel
  <2> QED  BY <2>3
<1>3. PICK m \in S : \A y \in S : m <= y
  <2>1. \A x, y \in S : ~(y < x) => x <= y
    OBVIOUS
  <2> QED  BY <1>2, <2>1
<1> DEFINE a == Arrived(writes)
<1>4. a \in S /\ \A y \in S : a <= y
  BY <1>3 DEF Arrived, Min
<1> HIDE DEF a
<1>5. \A i \in 1..a : writes[i].due <= lines
  <2> SUFFICES ASSUME NEW i \in 1..a PROVE writes[i].due <= lines
    OBVIOUS
  <2>1. i - 1 \in 0..Len(writes) /\ i - 1 < a /\ i - 1 # Len(writes)
    BY <1>4, WritesType
  <2>2. i - 1 \notin S
    <3>1. \A y \in S : a <= y
      BY <1>4
    <3>2. a \in Int /\ i - 1 \in Int /\ ~(a <= i - 1)
      BY <1>4, <2>1, WritesType
    <3> HIDE DEF S
    <3> QED  BY <3>1, <3>2
  <2>3. i \in 1..Len(writes) /\ i - 1 + 1 = i
    BY <2>1
  <2>4. ~(writes[i].due > lines)
    BY <2>1, <2>2, <2>3
  <2>5. writes[i].due \in Nat
    BY <2>3, WritesType
  <2> QED  BY <2>4, <2>5
<1> QED  BY <1>4, <1>5 DEF a

(* Applying what is due changes no flag from the present line on.          *)
LEMMA ApplyingKeepsFlags ==
    ASSUME NEW writes \in Writes, lines \in Nat, NEW n \in Nat, n >= lines,
           NEW v, InForce(writes, enabled, n, v),
           \A i, j \in 1..Len(writes) : i < j => writes[i].due < writes[j].due
    PROVE  InForce(AfterDue(writes), FlagAfterDue(writes), n, v)
<1> DEFINE a == Arrived(writes)
           rest == AfterDue(writes)
<1>1. /\ a \in 0..Len(writes)
      /\ a = Len(writes) \/ writes[a + 1].due > lines
      /\ \A i \in 1..a : writes[i].due <= lines
  BY ArrivedStops
<1>2. /\ Len(rest) = Len(writes) - a
      /\ \A i \in 1..Len(rest) : rest[i] = writes[a + i]
  <2>1. Len(writes) \in Nat /\ a \in Nat /\ a <= Len(writes)
    BY <1>1, WritesType
  <2>2. writes \in Seq(ControlWrite)
    BY DEF Writes
  <2>3. rest = SubSeq(writes, a + 1, Len(writes))
    BY DEF AfterDue
  <2> HIDE DEF a, rest
  <2> QED  BY <2>1, <2>2, <2>3
<1>0. Len(writes) \in Nat /\ \A i \in 1..Len(writes) : writes[i].due \in Nat
  BY WritesType
<1> HIDE DEF a, rest
<1>3. ASSUME \A i \in 1..Len(rest) : n < rest[i].due
      PROVE  v = FlagAfterDue(writes)
  <2>1. \A j \in (a + 1)..Len(writes) : n < writes[j].due
    <3> SUFFICES ASSUME NEW j \in (a + 1)..Len(writes) PROVE n < writes[j].due
      OBVIOUS
    <3>1. j - a \in 1..Len(rest) /\ rest[j - a] = writes[j]
      BY <1>0, <1>1, <1>2
    <3> QED  BY <3>1, <1>3
  <2>2. CASE a = 0
    BY <2>1, <2>2, <1>0 DEF InForce, FlagAfterDue, a
  <2>3. CASE a # 0
    <3>1. a \in 1..Len(writes) /\ writes[a].due <= n
      <4>1. a \in 1..Len(writes) /\ a \in 1..a
        BY <1>0, <1>1, <2>3
      <4>2. writes[a].due <= lines /\ writes[a].due \in Nat
        BY <1>0, <1>1, <4>1
      <4> QED  BY <4>1, <4>2
    <3> QED  BY <2>1, <2>3, <3>1 DEF InForce, FlagAfterDue, a
  <2> QED  BY <2>2, <2>3
<1>4. ASSUME NEW i \in 1..Len(rest), rest[i].due <= n,
             \A j \in (i + 1)..Len(rest) : n < rest[j].due
      PROVE  v = rest[i].enabled
  <2>1. a + i \in 1..Len(writes) /\ rest[i] = writes[a + i]
    BY <1>0, <1>1, <1>2
  <2>2. \A j \in (a + i + 1)..Len(writes) : n < writes[j].due
    <3> SUFFICES ASSUME NEW j \in (a + i + 1)..Len(writes) PROVE n < writes[j].due
      OBVIOUS
    <3>1. j - a \in (i + 1)..Len(rest) /\ a + (j - a) = j /\ j - a \in 1..Len(rest)
      BY <1>0, <1>1, <1>2
    <3> QED  BY <3>1, <1>2, <1>4
  <2> QED  BY <2>1, <2>2, <1>4 DEF InForce
<1> QED  BY <1>3, <1>4 DEF InForce, rest
--------------------------------------------------------------------------------
LEMMA IntervalType == TypeOK => Interval \in Nat \ {0} /\ control_delay_lines \in Nat
BY GateAssumption DEF TypeOK, Interval

LEMMA Apart ==
    ASSUME NEW k \in Nat \ {0}, NEW a \in Int, NEW b \in Int, a < b
    PROVE  k * b >= k * a + k
<1>1. b - a >= 1 /\ b - a \in Int
  OBVIOUS
<1>2. k * (b - a) >= k * 1
  BY <1>1, Z3
<1>3. k * b = k * a + k * (b - a)
  BY Z3
<1>4. k * a \in Int /\ k * b \in Int /\ k * (b - a) \in Int
  BY <1>1
<1> QED  BY <1>2, <1>3, <1>4

LEMMA RemainderSteps ==
    ASSUME NEW k \in Nat \ {0}, NEW n \in Nat, n % k # 0
    PROVE  (n - 1) % k = (n % k) - 1
<1> DEFINE q == n \div k
           p == (n - 1) \div k
<1>1. n = k * q + (n % k) /\ q \in Int /\ n % k \in 0..(k - 1)
  BY Z3
<1>2. n - 1 = k * p + ((n - 1) % k) /\ p \in Int /\ (n - 1) % k \in 0..(k - 1)
  BY Z3
<1> HIDE DEF p, q
<1>3. k * q \in Int /\ k * p \in Int
  BY <1>1, <1>2
<1>4. ~(p < q)
  <2> SUFFICES ASSUME p < q PROVE FALSE
    OBVIOUS
  <2>1. k * q >= k * p + k
    BY <1>1, <1>2, Apart
  <2> QED  BY <2>1, <1>1, <1>2, <1>3
<1>5. ~(q < p)
  <2> SUFFICES ASSUME q < p PROVE FALSE
    OBVIOUS
  <2>1. k * p >= k * q + k
    BY <1>1, <1>2, Apart
  <2> QED  BY <2>1, <1>1, <1>2, <1>3
<1>6. p = q
  BY <1>1, <1>2, <1>4, <1>5
<1>7. n % k \in Int /\ (n - 1) % k \in Int /\ k * p = k * q
  BY <1>1, <1>2, <1>6
<1> QED  BY <1>1, <1>2, <1>3, <1>7

LEMMA SampleBeforeIs ==
    ASSUME TypeOK, NEW n \in Nat
    PROVE  /\ SampleBefore(n) \in 0..n
           /\ n % Interval = 0 => SampleBefore(n) = n
           /\ n % Interval # 0 => n # 0 /\ SampleBefore(n) = SampleBefore(n - 1)
<1>1. Interval \in Nat \ {0}
  BY IntervalType
<1>2. n % Interval \in 0..n
  BY <1>1, Z3
<1>3. n % Interval # 0 => (n - 1) % Interval = (n % Interval) - 1
  BY <1>1, RemainderSteps
<1> QED  BY <1>2, <1>3 DEF SampleBefore

(* A line changes nothing about what the lines before it wanted.           *)
LEMMA WantedStays ==
    ASSUME IndInv, NEW desired \in BOOLEAN, ChoosePush(desired),
           NEW n \in Int, n < lines + control_delay_lines
    PROVE  Wanted(n)' = Wanted(n)
<1>1. /\ control_delay_lines' = control_delay_lines
      /\ sample_every_lines' = sample_every_lines
      /\ lines \in Nat /\ control_delay_lines \in Nat
  BY IntervalType DEF IndInv, TypeOK, ChoosePush, settings
<1>2. CASE n < control_delay_lines
  BY <1>1, <1>2 DEF Wanted
<1>3. CASE ~(n < control_delay_lines)
  <2> DEFINE k == n - control_delay_lines
  <2>1. k \in 0..(lines - 1) /\ k \in Nat
    BY <1>1, <1>3
  <2>2. SampleBefore(k) \in 0..(lines - 1)
    BY <2>1, <1>1, SampleBeforeIs DEF IndInv
  <2>3. SampleBefore(k)' = SampleBefore(k)
    BY <1>1 DEF SampleBefore, Interval
  <2>4. below'[SampleBefore(k)] = below[SampleBefore(k)]
    BY <1>1, <2>2 DEF ChoosePush
  <2> QED  BY <1>1, <1>3, <2>3, <2>4 DEF Wanted
<1> QED  BY <1>2, <1>3

(* What the line itself wants, control_delay_lines from now: its own       *)
(* sample, or what is requested already.                                   *)
LEMMA NewestWanted ==
    ASSUME IndInv, NEW desired \in BOOLEAN, ChoosePush(desired),
           sample_every_lines # Instant,
           NEW n \in Int, n = lines + control_delay_lines
    PROVE  Wanted(n)' = IF Asks(desired) THEN desired ELSE requested
<1>1. /\ control_delay_lines' = control_delay_lines
      /\ sample_every_lines' = sample_every_lines
      /\ lines \in Nat /\ control_delay_lines \in Nat /\ lines' = lines + 1
  BY IntervalType DEF IndInv, TypeOK, ChoosePush, settings
<1>2. Wanted(n)' = below'[SampleBefore(lines)]
  <2>1. n - control_delay_lines = lines /\ ~(n < control_delay_lines)
    BY <1>1
  <2>2. \A m \in Nat : SampleBefore(m)' = SampleBefore(m)
    BY <1>1 DEF SampleBefore, Interval
  <2> QED  BY <1>1, <2>1, <2>2 DEF Wanted
<1>3. Sampling <=> lines % Interval = 0
  BY DEF Sampling, Interval
<1>4. /\ lines % Interval = 0 => SampleBefore(lines) = lines
      /\ lines % Interval # 0 =>
            /\ lines # 0
            /\ SampleBefore(lines) = SampleBefore(lines - 1)
            /\ SampleBefore(lines - 1) \in 0..(lines - 1)
  BY <1>1, SampleBeforeIs DEF IndInv
<1>5. CASE Sampling
  <2>1. Wanted(n)' = desired
    BY <1>1, <1>2, <1>3, <1>4, <1>5 DEF ChoosePush
  <2> QED  BY <2>1, <1>5 DEF Asks, DiffersFromRequest
<1>6. CASE ~Sampling
  <2>1. Wanted(n)' = below[SampleBefore(lines - 1)]
    BY <1>1, <1>2, <1>3, <1>4, <1>6 DEF ChoosePush
  <2>2. requested = below[SampleBefore(lines - 1)]
    BY <1>3, <1>4, <1>6 DEF IndInv, ByMode, RequestIsNewestSample
  <2> QED  BY <2>1, <2>2, <1>6 DEF Asks
<1> QED  BY <1>5, <1>6

--------------------------------------------------------------------------------
(* With the line's own request among them, the control writes determine    *)
(* the flag one line further.                                              *)
LEMMA WrittenIsWanted ==
    ASSUME IndInv, NEW desired \in BOOLEAN, ChoosePush(desired),
           sample_every_lines # Instant
    PROVE  LET writes == Written(desired)
           IN  /\ writes \in Writes
               /\ \A i, j \in 1..Len(writes) : i < j => writes[i].due < writes[j].due
               /\ \A i \in 1..Len(writes) : writes[i].due \in lines..(lines + control_delay_lines)
               /\ \A n \in lines..(lines + control_delay_lines) :
                    InForce(writes, enabled, n, Wanted(n)')
<1> DEFINE writes == Written(desired)
           last == lines + control_delay_lines
           new == [due |-> last, enabled |-> desired]
<1>1. /\ pending \in Writes /\ Len(pending) \in Nat
      /\ lines \in Nat /\ control_delay_lines \in Nat
  BY WritesType, IntervalType DEF IndInv, TypeOK, Writes, ControlWrite
<1>2. \A i \in 1..Len(pending) : pending[i].due \in lines..(last - 1)
  BY <1>1 DEF IndInv, DuesIncrease
<1>3. \A i, j \in 1..Len(pending) : i < j => pending[i].due < pending[j].due
  BY DEF IndInv, DuesIncrease
<1>4. Asks(desired) =>
        /\ Len(writes) = Len(pending) + 1
        /\ \A i \in 1..Len(pending) : writes[i] = pending[i]
        /\ writes[Len(pending) + 1] = new
        /\ writes \in Writes
  <2>1. new \in ControlWrite
    BY <1>1 DEF ControlWrite
  <2>2. Asks(desired) => writes = Append(pending, new)
    BY DEF Written, DueLine
  <2> HIDE DEF new, writes
  <2>3. pending \in Seq(ControlWrite)
    BY <1>1 DEF Writes
  <2> QED  BY <1>1, <2>1, <2>2, <2>3 DEF Writes
<1>5. ~Asks(desired) => writes = pending
  BY DEF Written
<1>6. new.due = last /\ new.enabled = desired
  OBVIOUS
<1> HIDE DEF writes, new
<1>7. \A i \in 1..Len(writes) : writes[i].due \in lines..last
  BY <1>1, <1>2, <1>4, <1>5, <1>6
<1>8. \A i, j \in 1..Len(writes) : i < j => writes[i].due < writes[j].due
  <2>1. CASE ~Asks(desired)
    BY <2>1, <1>3, <1>5
  <2>2. CASE Asks(desired)
    <3> SUFFICES ASSUME NEW i \in 1..Len(writes), NEW j \in 1..Len(writes), i < j
                 PROVE  writes[i].due < writes[j].due
      OBVIOUS
    <3>1. i \in 1..Len(pending)
      BY <1>1, <1>4, <2>2
    <3>2. CASE j = Len(pending) + 1
      BY <1>1, <1>2, <1>4, <1>6, <2>2, <3>1, <3>2
    <3>3. CASE j # Len(pending) + 1
      BY <1>1, <1>3, <1>4, <2>2, <3>1, <3>3
    <3> QED  BY <3>2, <3>3
  <2> QED  BY <2>1, <2>2
<1>9. ASSUME NEW n \in lines..(last - 1)
      PROVE  InForce(writes, enabled, n, Wanted(n)')
  <2>1. Wanted(n)' = Wanted(n) /\ InForce(pending, enabled, n, Wanted(n))
    BY <1>1, WantedStays DEF IndInv, FlagsAsWanted
  <2>2. CASE ~Asks(desired)
    BY <1>5, <2>1, <2>2
  <2>3. CASE Asks(desired)
    <3>1. ASSUME \A i \in 1..Len(writes) : n < writes[i].due
          PROVE  Wanted(n) = enabled
      <4>1. \A i \in 1..Len(pending) : n < pending[i].due
        BY <1>1, <1>4, <2>3, <3>1
      <4> QED  BY <2>1, <4>1 DEF InForce
    <3>2. ASSUME NEW i \in 1..Len(writes), writes[i].due <= n,
                 \A j \in (i + 1)..Len(writes) : n < writes[j].due
          PROVE  Wanted(n) = writes[i].enabled
      <4>1. i \in 1..Len(pending)
        <5>1. ~(new.due <= n)
          BY <1>1, <1>6
        <5> QED  BY <1>1, <1>4, <2>3, <3>2, <5>1
      <4>2. \A j \in (i + 1)..Len(pending) : n < pending[j].due
        BY <1>1, <1>4, <2>3, <3>2
      <4> QED  BY <1>4, <2>1, <2>3, <3>2, <4>1, <4>2 DEF InForce
    <3> QED  BY <2>1, <3>1, <3>2 DEF InForce
  <2> QED  BY <2>2, <2>3
<1>10. InForce(writes, enabled, last, IF Asks(desired) THEN desired ELSE requested)
  <2>1. CASE Asks(desired)
    <3>1. ~(\A i \in 1..Len(writes) : last < writes[i].due)
      BY <1>1, <1>4, <1>6, <2>1
    <3>2. ASSUME NEW i \in 1..Len(writes), \A j \in (i + 1)..Len(writes) : last < writes[j].due
          PROVE  writes[i].enabled = desired
      <4>1. i = Len(writes)
        BY <1>1, <1>4, <1>6, <2>1, <3>2
      <4> QED  BY <1>4, <1>6, <2>1, <4>1
    <3> QED  BY <2>1, <3>1, <3>2 DEF InForce
  <2>2. CASE ~Asks(desired)
    <3> DEFINE before == last - 1
    <3>1. InForce(pending, enabled, before, Wanted(before))
      BY <1>1 DEF IndInv, FlagsAsWanted
    <3>2. Wanted(before) = requested
      <4>1. requested = IF lines = 0 THEN TRUE ELSE below[SampleBefore(lines - 1)]
        BY DEF IndInv, ByMode, RequestIsNewestSample
      <4>2. lines # 0 => ~(before < control_delay_lines) /\ before - control_delay_lines = lines - 1
        BY <1>1
      <4>3. lines = 0 => before < control_delay_lines
        BY <1>1
      <4> HIDE DEF before
      <4> QED  BY <4>1, <4>2, <4>3 DEF Wanted
    <3>3. \A i \in 1..Len(pending) :
            pending[i].due <= before /\ ~(last < pending[i].due) /\ ~(before < pending[i].due)
      BY <1>1, <1>2
    <3> HIDE DEF before
    <3> QED  BY <1>5, <2>2, <3>1, <3>2, <3>3 DEF InForce
  <2> QED  BY <2>1, <2>2
<1>11. ASSUME NEW n \in lines..last
       PROVE  InForce(writes, enabled, n, Wanted(n)')
  <2>1. CASE n = last
    BY <1>1, <1>10, <2>1, NewestWanted
  <2>2. CASE n # last
    BY <1>1, <1>9, <2>2
  <2> QED  BY <2>1, <2>2
<1>12. writes \in Writes
  BY <1>1, <1>4, <1>5
<1> QED  BY <1>7, <1>8, <1>11, <1>12 DEF writes

(* An immediate gate has no control writes.                                *)
LEMMA NothingArrives ==
    ASSUME lines \in Nat
    PROVE  Arrived(<<>>) = 0 /\ AfterDue(<<>>) = <<>>
<1>1. <<>> \in Writes /\ Len(<<>>) = 0
  BY DEF Writes
<1>2. Arrived(<<>>) = 0
  BY <1>1, ArrivedStops
<1> QED  BY <1>1, <1>2 DEF AfterDue

LEMMA AppliedType ==
    ASSUME TypeOK, NEW writes \in Writes
    PROVE  /\ AfterDue(writes) \in Writes
           /\ FlagAfterDue(writes) \in BOOLEAN
<1>1. /\ Arrived(writes) \in 0..Len(writes)
      /\ Len(writes) \in Nat /\ writes \in Seq(ControlWrite)
  BY ArrivedStops, WritesType DEF TypeOK, Writes
<1>2. \A i \in 1..Len(writes) : writes[i].enabled \in BOOLEAN
  <2>1. \A i \in 1..Len(writes) : writes[i] \in ControlWrite
    BY <1>1
  <2>2. \A w \in ControlWrite : w.enabled \in BOOLEAN
    BY DEF ControlWrite
  <2> QED  BY <2>1, <2>2
<1>3. AfterDue(writes) \in Writes
  BY <1>1 DEF AfterDue, Writes
<1>4. FlagAfterDue(writes) \in BOOLEAN
  BY <1>1, <1>2 DEF FlagAfterDue, TypeOK
<1> QED  BY <1>3, <1>4

(* What is left after applying is not due.                                 *)
LEMMA AppliedDues ==
    ASSUME NEW writes \in Writes, lines \in Nat, NEW top \in Int,
           \A i, j \in 1..Len(writes) : i < j => writes[i].due < writes[j].due,
           \A i \in 1..Len(writes) : writes[i].due \in lines..top
    PROVE  LET rest == AfterDue(writes)
           IN  /\ \A i, j \in 1..Len(rest) : i < j => rest[i].due < rest[j].due
               /\ \A i \in 1..Len(rest) : rest[i].due \in (lines + 1)..top
<1> DEFINE a == Arrived(writes)
           rest == AfterDue(writes)
<1>1. a \in 0..Len(writes) /\ (a = Len(writes) \/ writes[a + 1].due > lines)
  BY ArrivedStops
<1>2. Len(writes) \in Nat /\ \A i \in 1..Len(writes) : writes[i].due \in Nat
  BY WritesType
<1>3. /\ Len(rest) = Len(writes) - a
      /\ \A i \in 1..Len(rest) : rest[i] = writes[a + i] /\ a + i \in 1..Len(writes)
  <2>1. writes \in Seq(ControlWrite) /\ rest = SubSeq(writes, a + 1, Len(writes))
    BY DEF Writes, AfterDue
  <2> HIDE DEF a, rest
  <2> QED  BY <1>1, <1>2, <2>1
<1> HIDE DEF a, rest
<1>4. ASSUME NEW i \in 1..Len(rest), NEW j \in 1..Len(rest), i < j
      PROVE  rest[i].due < rest[j].due
  <2>1. a + i \in 1..Len(writes) /\ a + j \in 1..Len(writes) /\ a + i < a + j
    BY <1>1, <1>2, <1>3, <1>4
  <2>2. writes[a + i].due < writes[a + j].due
    BY <2>1
  <2> QED  BY <1>3, <2>2
<1>5. ASSUME NEW i \in 1..Len(rest)
      PROVE  rest[i].due \in (lines + 1)..top
  <2>1. a + i \in 1..Len(writes) /\ a + 1 \in 1..Len(writes) /\ a # Len(writes)
    BY <1>1, <1>2, <1>3
  <2>2. writes[a + 1].due > lines
    BY <1>1, <2>1
  <2>3. writes[a + 1].due <= writes[a + i].due
    BY <1>1, <1>2, <2>1
  <2> QED  BY <1>2, <1>3, <2>1, <2>2, <2>3
<1> QED  BY <1>4, <1>5 DEF rest

--------------------------------------------------------------------------------
LEMMA Start == Init => IndInv
<1> SUFFICES ASSUME Init PROVE IndInv
  OBVIOUS
<1>1. TypeOK /\ lines = 0 /\ pending = <<>> /\ enabled = TRUE /\ requested = TRUE
  <2>1. 0..(0 - 1) = 0..(-1)
    OBVIOUS
  <2>2. below \in [0..(lines - 1) -> BOOLEAN] /\ pushes \in [0..(lines - 1) -> BOOLEAN]
    BY <2>1 DEF Init, Empty
  <2>3. pending \in Seq([due : Nat, enabled : BOOLEAN])
    BY DEF Init
  <2> QED  BY <2>2, <2>3, GateAssumption DEF Init, TypeOK
<1>2. control_delay_lines \in Nat
  BY <1>1, IntervalType
<1>3. ByMode
  BY <1>1 DEF Init, ByMode, RequestIsNewestSample
<1>4. DuesIncrease
  BY <1>1 DEF DuesIncrease
<1>5. FlagsAsWanted
  <2>1. ASSUME NEW n \in (lines - 1)..(lines - 1 + control_delay_lines)
        PROVE  InForce(pending, enabled, n, Wanted(n))
    <3>1. Wanted(n) = TRUE
      BY <1>1, <1>2 DEF Wanted
    <3>2. Len(pending) = 0
      BY <1>1
    <3> QED  BY <1>1, <3>1, <3>2 DEF InForce
  <2> QED  BY <2>1 DEF FlagsAsWanted
<1>6. PushesFollowSamples
  BY <1>1 DEF PushesFollowSamples
<1> QED  BY <1>1, <1>3, <1>4, <1>5, <1>6 DEF IndInv

(* What a line leaves behind.                                              *)
LEMMA LineLeaves ==
    ASSUME IndInv, NEW desired \in BOOLEAN, ChoosePush(desired)
    PROVE  /\ TypeOK' /\ ByMode' /\ DuesIncrease' /\ FlagsAsWanted'
           /\ enabled' = Flag(desired)
<1> DEFINE top == lines + control_delay_lines
<1>1. /\ control_delay_lines' = control_delay_lines
      /\ sample_every_lines' = sample_every_lines
      /\ lines \in Nat /\ control_delay_lines \in Nat /\ lines' = lines + 1
      /\ lines' - 1 = lines /\ lines' - 1 + control_delay_lines' = top
  BY IntervalType DEF IndInv, TypeOK, ChoosePush, settings
<1>2. CASE sample_every_lines # Instant
  <2> DEFINE writes == Written(desired)
  <2>1. /\ writes \in Writes
        /\ \A i, j \in 1..Len(writes) : i < j => writes[i].due < writes[j].due
        /\ \A i \in 1..Len(writes) : writes[i].due \in lines..top
        /\ \A n \in lines..top : InForce(writes, enabled, n, Wanted(n)')
    BY <1>2, WrittenIsWanted
  <2>2. pending' = AfterDue(writes) /\ enabled' = FlagAfterDue(writes)
    BY <1>2 DEF ChoosePush, Flag
  <2> HIDE DEF writes
  <2>3. TypeOK'
    <3>1. pending' \in Writes /\ enabled' \in BOOLEAN
      BY <2>1, <2>2, AppliedType DEF IndInv
    <3>2. Seq([due : Nat, enabled : BOOLEAN]) = Writes
      BY DEF Writes, ControlWrite
    <3>3. /\ lines' \in 0..MaxLines
          /\ requested' \in BOOLEAN
          /\ sample_every_lines' \in SampleIntervals \cup {Instant}
          /\ control_delay_lines' \in ControlDelays
      BY <1>1, GateAssumption DEF IndInv, TypeOK, ChoosePush
    <3>4. Flag(desired) \in BOOLEAN
      BY <3>1 DEF ChoosePush
    <3>5. below' \in [0..(lines' - 1) -> BOOLEAN] /\ pushes' \in [0..(lines' - 1) -> BOOLEAN]
      BY <1>1, <3>4 DEF IndInv, TypeOK, ChoosePush
    <3> QED  BY <3>1, <3>2, <3>3, <3>5 DEF TypeOK
  <2>4. DuesIncrease'
    <3>1. top \in Int
      BY <1>1
    <3> HIDE DEF top
    <3>2. /\ \A i, j \in 1..Len(pending') : i < j => pending'[i].due < pending'[j].due
          /\ \A i \in 1..Len(pending') : pending'[i].due \in (lines + 1)..top
      BY <1>1, <2>1, <2>2, <3>1, AppliedDues
    <3> QED  BY <1>1, <3>2 DEF DuesIncrease
  <2>5. FlagsAsWanted'
    <3>1. ASSUME NEW n \in lines..top
          PROVE  InForce(pending', enabled', n, Wanted(n)')
      BY <1>1, <2>1, <2>2, ApplyingKeepsFlags
    <3> HIDE DEF top
    <3>2. \A n \in lines..top : InForce(pending, enabled, n, Wanted(n))'
      BY <3>1 DEF InForce
    <3> QED  BY <1>1, <3>2 DEF FlagsAsWanted
  <2>6. ByMode'
    <3>1. \A m \in Nat : SampleBefore(m)' = SampleBefore(m)
      BY <1>1 DEF SampleBefore, Interval
    <3>2. PICK n \in Int : n = top
      BY <1>1
    <3>3. Wanted(n)' = IF Asks(desired) THEN desired ELSE requested
      BY <1>2, <3>2, NewestWanted
    <3>4. Wanted(n)' = below'[SampleBefore(lines)]
      <4>1. n - control_delay_lines = lines /\ ~(n < control_delay_lines)
        BY <1>1, <3>2
      <4> QED  BY <1>1, <3>1, <4>1 DEF Wanted
    <3>5. below'[SampleBefore(lines)] = requested'
      BY <3>3, <3>4 DEF ChoosePush
    <3>6. PICK l \in Nat : l = lines
      BY <1>1
    <3>7. lines' - 1 = l /\ SampleBefore(l)' = SampleBefore(lines)
      BY <1>1, <3>1, <3>6
    <3>8. RequestIsNewestSample'
      <4>1. lines' # 0 /\ SampleBefore(lines - 1)' = SampleBefore(l)'
        BY <1>1, <3>7 DEF SampleBefore
      <4> QED  BY <3>5, <3>7, <4>1 DEF RequestIsNewestSample
    <3> QED  BY <1>1, <1>2, <3>8 DEF ByMode
  <2> QED  BY <2>2, <2>3, <2>4, <2>5, <2>6 DEF ChoosePush
<1>3. CASE sample_every_lines = Instant
  <2>1. control_delay_lines = 0 /\ pending = <<>>
    BY <1>3 DEF IndInv, ByMode
  <2>2. Written(desired) = <<>> /\ Flag(desired) = desired
    BY <1>3, <2>1 DEF Written, Asks, Flag
  <2>3. pending' = <<>> /\ enabled' = desired
    BY <1>1, <2>2, NothingArrives DEF ChoosePush
  <2>4. TypeOK'
    <3>1. pending' \in Seq([due : Nat, enabled : BOOLEAN])
      BY <2>3
    <3>2. requested' \in BOOLEAN
      BY <1>1 DEF ChoosePush, IndInv, TypeOK
    <3>3. below' \in [0..(lines' - 1) -> BOOLEAN] /\ pushes' \in [0..(lines' - 1) -> BOOLEAN]
      BY <1>1, <2>2 DEF IndInv, TypeOK, ChoosePush
    <3> QED  BY <1>1, <2>3, <3>1, <3>2, <3>3, GateAssumption DEF TypeOK, IndInv, ChoosePush
  <2>6. ASSUME NEW n \in Int, n = lines
        PROVE  Wanted(n)' = desired
    <3>1. n % 1 = 0 /\ Interval' = 1
      BY <1>1, <1>3 DEF Interval
    <3>2. SampleBefore(n)' = n /\ n - control_delay_lines' = n
      BY <1>1, <2>1, <2>6, <3>1 DEF SampleBefore
    <3>3. SampleBefore(n - control_delay_lines)' = n /\ ~(n < control_delay_lines')
      BY <1>1, <2>1, <2>6, <3>2
    <3>4. below'[n] = desired
      BY <1>1, <2>6 DEF ChoosePush
    <3> QED  BY <3>3, <3>4 DEF Wanted
  <2>7. FlagsAsWanted'
    BY <1>1, <2>1, <2>3, <2>6 DEF FlagsAsWanted, InForce
  <2>8. DuesIncrease'
    BY <2>3 DEF DuesIncrease
  <2>9. ByMode'
    BY <1>1, <1>3, <2>1, <2>3 DEF ByMode
  <2> QED  BY <2>4, <2>7, <2>8, <2>9 DEF ChoosePush
<1> QED  BY <1>2, <1>3

LEMMA LineKeepsHistory ==
    ASSUME IndInv, NEW desired \in BOOLEAN, ChoosePush(desired)
    PROVE  PushesFollowSamples'
<1>1. /\ control_delay_lines' = control_delay_lines
      /\ lines \in Nat /\ control_delay_lines \in Nat /\ lines' = lines + 1
  BY IntervalType DEF IndInv, TypeOK, ChoosePush, settings
<1>2. ASSUME NEW n \in 0..lines
      PROVE  pushes'[n] = Wanted(n)'
  <2>1. CASE n # lines
    <3>1. Wanted(n)' = Wanted(n)
      BY <1>1, <2>1, WantedStays
    <3>2. pushes[n] = Wanted(n)
      BY <1>1, <2>1 DEF IndInv, PushesFollowSamples
    <3> QED  BY <2>1, <3>1, <3>2 DEF ChoosePush
  <2>2. CASE n = lines
    <3>1. InForce(pending, enabled, n, Wanted(n))'
      BY <1>1, <2>2, LineLeaves DEF FlagsAsWanted
    <3>2. \A i \in 1..Len(pending') : n < pending'[i].due
      <4>1. \A i \in 1..Len(pending') :
                pending'[i].due \in lines'..(lines' - 1 + control_delay_lines')
        BY LineLeaves DEF DuesIncrease
      <4> QED  BY <1>1, <2>2, <4>1
    <3>3. Wanted(n)' = enabled'
      BY <3>1, <3>2 DEF InForce
    <3> QED  BY <2>2, <3>3, LineLeaves DEF ChoosePush
  <2> QED  BY <2>1, <2>2
<1>3. \A n \in 0..(lines' - 1) : (pushes[n] = Wanted(n))'
  BY <1>1, <1>2
<1> QED  BY <1>3 DEF PushesFollowSamples

LEMMA StepKeepsIndInv == IndInv /\ [Next]_vars => IndInv'
<1>1. ASSUME IndInv, NEW desired \in BOOLEAN, ChoosePush(desired)
      PROVE  IndInv'
  BY <1>1, LineLeaves, LineKeepsHistory DEF IndInv
<1>2. ASSUME IndInv, UNCHANGED vars
      PROVE  IndInv'
  BY <1>2 DEF vars, settings, IndInv, TypeOK, ByMode, RequestIsNewestSample, DuesIncrease,
              FlagsAsWanted, InForce, PushesFollowSamples, Wanted, SampleBefore, Interval
<1> QED  BY <1>1, <1>2 DEF Next

(* The gate's types and its inductive invariant hold for every interval,   *)
(* delay and occupancy (integration.py:145-175).                           *)
THEOREM GateInvariance == Spec => []IndInv
<1>1. Init => IndInv
  BY Start
<1>2. IndInv /\ [Next]_vars => IndInv'
  BY StepKeepsIndInv
<1> QED  BY <1>1, <1>2, PTL DEF Spec

(* Each line goes where the newest sample that is old enough said.         *)
THEOREM GateFollowsSamples == Spec => []PushesFollowSamples
<1>1. IndInv => PushesFollowSamples
  BY DEF IndInv
<1> QED  BY <1>1, GateInvariance, PTL

--------------------------------------------------------------------------------
(* The control writes on their way.                                        *)

(* Each changes the flag, and last is what they leave.                     *)
Alternates(writes, flag, last) ==
    /\ \A i \in 1..Len(writes) :
        writes[i].enabled # IF i = 1 THEN flag ELSE writes[i - 1].enabled
    /\ last = IF Len(writes) = 0 THEN flag ELSE writes[Len(writes)].enabled

(* They were asked for by lines that sample, each by one of its own.       *)
Spaced(writes) ==
    \A i, j \in 1..Len(writes) :
        i <= j => writes[i].due + (j - i) * Interval <= writes[j].due

FromSamples(writes) ==
    \A i \in 1..Len(writes) :
        /\ writes[i].due - control_delay_lines \in Nat
        /\ (writes[i].due - control_delay_lines) % Interval = 0

AlternateInv ==
    sample_every_lines # Instant =>
        Alternates(pending, enabled, requested) /\ Spaced(pending) /\ FromSamples(pending)

LEMMA AppliedIs ==
    ASSUME NEW writes \in Writes, lines \in Nat
    PROVE  LET a == Arrived(writes)
           IN  /\ a \in 0..Len(writes)
               /\ Len(AfterDue(writes)) = Len(writes) - a
               /\ \A i \in 1..Len(AfterDue(writes)) : AfterDue(writes)[i] = writes[a + i]
<1> DEFINE a == Arrived(writes)
           rest == AfterDue(writes)
<1>1. a \in 0..Len(writes)
  BY ArrivedStops
<1>2. Len(writes) \in Nat /\ a \in Nat /\ a <= Len(writes)
  BY <1>1, WritesType
<1>3. writes \in Seq(ControlWrite)
  BY DEF Writes
<1>4. rest = SubSeq(writes, a + 1, Len(writes))
  BY DEF AfterDue
<1> HIDE DEF a, rest
<1>5. Len(rest) = Len(writes) - a /\ \A i \in 1..Len(rest) : rest[i] = writes[a + i]
  BY <1>2, <1>3, <1>4
<1> QED  BY <1>1, <1>5 DEF a, rest

(* Taking the first of them away changes none of this.                     *)
LEMMA ApplyingAlternates ==
    ASSUME NEW writes \in Writes, lines \in Nat, NEW last,
           Alternates(writes, enabled, last), Spaced(writes), FromSamples(writes)
    PROVE  /\ Alternates(AfterDue(writes), FlagAfterDue(writes), last)
           /\ Spaced(AfterDue(writes)) /\ FromSamples(AfterDue(writes))
<1> DEFINE a == Arrived(writes)
           rest == AfterDue(writes)
           flag == FlagAfterDue(writes)
<1>1. /\ a \in 0..Len(writes) /\ Len(writes) \in Nat
      /\ Len(rest) = Len(writes) - a
      /\ \A i \in 1..Len(rest) : rest[i] = writes[a + i]
  BY AppliedIs, WritesType
<1>2. flag = IF a = 0 THEN enabled ELSE writes[a].enabled
  BY DEF FlagAfterDue
<1> HIDE DEF a, rest, flag
<1>3. \A i \in 1..Len(rest) : a + i \in 1..Len(writes) /\ rest[i] = writes[a + i]
  BY <1>1
<1>4. Alternates(rest, flag, last)
  <2>1. ASSUME NEW i \in 1..Len(rest)
        PROVE  rest[i].enabled # IF i = 1 THEN flag ELSE rest[i - 1].enabled
    <3>1. writes[a + i].enabled # IF a + i = 1 THEN enabled ELSE writes[a + i - 1].enabled
      <4>1. PICK k : k = a + i
        OBVIOUS
      <4>2. k \in 1..Len(writes)
        BY <1>3, <4>1
      <4>3. writes[k].enabled # IF k = 1 THEN enabled ELSE writes[k - 1].enabled
        BY <4>2 DEF Alternates
      <4>4. k - 1 = a + i - 1
        BY <1>1, <4>1
      <4> QED  BY <4>1, <4>3, <4>4
    <3>2. CASE i = 1
      BY <1>1, <1>2, <1>3, <3>1, <3>2
    <3>3. CASE i # 1
      <4>1. i - 1 \in 1..Len(rest) /\ a + (i - 1) = a + i - 1 /\ a + i # 1
        BY <1>1, <3>3
      <4>2. rest[i - 1] = writes[a + i - 1] /\ rest[i] = writes[a + i]
        BY <1>3, <4>1
      <4> QED  BY <3>1, <3>3, <4>1, <4>2
    <3> QED  BY <3>2, <3>3
  <2>2. last = IF Len(rest) = 0 THEN flag ELSE rest[Len(rest)].enabled
    <3>1. CASE Len(rest) = 0
      BY <1>1, <1>2, <3>1 DEF Alternates
    <3>2. CASE Len(rest) # 0
      <4>1. Len(rest) \in 1..Len(rest) /\ a + Len(rest) = Len(writes) /\ Len(writes) # 0
        BY <1>1, <3>2
      <4>2. rest[Len(rest)] = writes[Len(writes)]
        BY <1>3, <4>1
      <4> QED  BY <3>2, <4>1, <4>2 DEF Alternates
    <3> QED  BY <3>1, <3>2
  <2> QED  BY <2>1, <2>2 DEF Alternates
<1>5. Spaced(rest)
  <2> SUFFICES ASSUME NEW i \in 1..Len(rest), NEW j \in 1..Len(rest), i <= j
               PROVE  rest[i].due + (j - i) * Interval <= rest[j].due
    BY DEF Spaced
  <2>1. a + i <= a + j /\ (a + j) - (a + i) = j - i
    BY <1>1
  <2> QED  BY <1>3, <2>1 DEF Spaced
<1>6. FromSamples(rest)
  BY <1>3 DEF FromSamples
<1> QED  BY <1>4, <1>5, <1>6 DEF rest, flag

(* Two lines that sample are an interval apart.                            *)
LEMMA SamplesApart ==
    ASSUME NEW k \in Nat \ {0}, NEW m \in Nat, NEW n \in Nat, m < n, m % k = 0, n % k = 0
    PROVE  m + k <= n
<1> DEFINE p == m \div k
           q == n \div k
<1>1. m = k * p /\ p \in Int /\ n = k * q /\ q \in Int
  BY Z3
<1> HIDE DEF p, q
<1>2. ~(q <= p)
  <2> SUFFICES ASSUME q <= p PROVE FALSE
    OBVIOUS
  <2>1. CASE p = q
    BY <1>1, <2>1
  <2>2. CASE q < p
    <3>1. k * p >= k * q + k
      BY <1>1, <2>2, Apart
    <3> QED  BY <1>1, <3>1
  <2> QED  BY <1>1, <2>1, <2>2
<1>3. k * q >= k * p + k
  BY <1>1, <1>2, Apart
<1> QED  BY <1>1, <1>3

(* So does the request of a line, put behind them.                         *)
LEMMA WrittenAlternates ==
    ASSUME IndInv, AlternateInv, sample_every_lines # Instant,
           NEW desired \in BOOLEAN, ChoosePush(desired)
    PROVE  /\ Alternates(Written(desired), enabled, requested')
           /\ Spaced(Written(desired)) /\ FromSamples(Written(desired))
<1> DEFINE writes == Written(desired)
           new == [due |-> lines + control_delay_lines, enabled |-> desired]
           n == Len(pending)
<1>1. /\ pending \in Writes /\ n \in Nat
      /\ lines \in Nat /\ control_delay_lines \in Nat /\ Interval \in Nat \ {0}
  BY WritesType, IntervalType DEF IndInv, TypeOK, Writes, ControlWrite
<1>2. Alternates(pending, enabled, requested) /\ Spaced(pending) /\ FromSamples(pending)
  BY DEF AlternateInv
<1>3. CASE ~Asks(desired)
  BY <1>2, <1>3 DEF Written, ChoosePush
<1>4. CASE Asks(desired)
  <2>1. desired # requested /\ requested' = desired /\ lines % Interval = 0
    BY <1>4 DEF Asks, DiffersFromRequest, Sampling, Interval, ChoosePush
  <2>2. /\ Len(writes) = n + 1 /\ writes[n + 1] = new
        /\ \A i \in 1..n : writes[i] = pending[i]
    <3>1. new \in ControlWrite /\ pending \in Seq(ControlWrite)
      BY <1>1 DEF ControlWrite, Writes
    <3>2. writes = Append(pending, new)
      BY <1>4 DEF Written, DueLine
    <3> HIDE DEF new, writes
    <3> QED  BY <3>1, <3>2
  <2>3. new.due = lines + control_delay_lines /\ new.enabled = desired
    OBVIOUS
  <2> HIDE DEF new, writes
  <2>4. \A i \in 1..Len(writes) : i = n + 1 \/ i \in 1..n
    BY <1>1, <2>2
  <2>5. Alternates(writes, enabled, desired)
    <3>1. ASSUME NEW i \in 1..n
          PROVE  writes[i].enabled # IF i = 1 THEN enabled ELSE writes[i - 1].enabled
      <4>1. pending[i].enabled # IF i = 1 THEN enabled ELSE pending[i - 1].enabled
        BY <1>2 DEF Alternates
      <4>2. i # 1 => i - 1 \in 1..n
        OBVIOUS
      <4> QED  BY <2>2, <4>1, <4>2
    <3>2. desired # IF n + 1 = 1 THEN enabled ELSE writes[n].enabled
      <4>1. requested = IF n = 0 THEN enabled ELSE pending[n].enabled
        BY <1>2 DEF Alternates
      <4> QED  BY <1>1, <2>1, <2>2, <4>1
    <3> QED  BY <1>1, <2>2, <2>3, <2>4, <3>1, <3>2 DEF Alternates
  <2>6. FromSamples(writes)
    <3>1. new.due - control_delay_lines = lines
      BY <1>1, <2>3
    <3> QED  BY <1>1, <1>2, <2>1, <2>2, <2>4, <3>1 DEF FromSamples
  <2>7. Spaced(writes)
    <3>1. ASSUME NEW i \in 1..n
          PROVE  pending[i].due + (n + 1 - i) * Interval <= lines + control_delay_lines
      <4>1. n \in 1..n /\ pending[i].due \in Int /\ pending[n].due \in Int
        BY <1>1, <3>1, WritesType
      <4>2. pending[i].due + (n - i) * Interval <= pending[n].due
        <5>1. i \in 1..Len(pending) /\ n \in 1..Len(pending) /\ i <= n
          BY <1>1, <3>1
        <5> QED  BY <1>2, <5>1 DEF Spaced
      <4>3. PICK m \in Nat : m = pending[n].due - control_delay_lines
        BY <1>2, <4>1 DEF FromSamples
      <4>4. m % Interval = 0 /\ m < lines
        <5>1. pending[n].due \in lines..(lines - 1 + control_delay_lines)
          BY <4>1 DEF IndInv, DuesIncrease
        <5> QED  BY <1>1, <1>2, <4>1, <4>3, <5>1 DEF FromSamples
      <4>5. m + Interval <= lines
        BY <1>1, <2>1, <4>4, SamplesApart
      <4>6. (n + 1 - i) * Interval = (n - i) * Interval + Interval
        BY <1>1, Z3
      <4>7. PICK x \in Int : x = (n - i) * Interval
        BY <1>1
      <4>8. pending[i].due + x <= m + control_delay_lines
        BY <1>1, <4>1, <4>2, <4>3, <4>7
      <4>9. pending[i].due + (x + Interval) <= lines + control_delay_lines
        BY <1>1, <4>1, <4>5, <4>7, <4>8
      <4> QED  BY <4>6, <4>7, <4>9
    <3> SUFFICES ASSUME NEW i \in 1..Len(writes), NEW j \in 1..Len(writes), i <= j
                 PROVE  writes[i].due + (j - i) * Interval <= writes[j].due
      BY DEF Spaced
    <3>2. CASE j \in 1..n
      <4>1. i \in 1..n
        BY <1>1, <3>2
      <4> QED  BY <1>2, <2>2, <3>2, <4>1 DEF Spaced
    <3>3. CASE j = n + 1 /\ i \in 1..n
      BY <2>2, <2>3, <3>1, <3>3
    <3>4. CASE j = n + 1 /\ i = n + 1
      <4>1. (j - i) * Interval = 0
        BY <1>1, <3>4
      <4> QED  BY <1>1, <2>2, <2>3, <3>4, <4>1
    <3> QED  BY <2>4, <3>2, <3>3, <3>4
  <2> QED  BY <2>1, <2>5, <2>6, <2>7 DEF writes
<1> QED  BY <1>3, <1>4

LEMMA StepKeepsAlternateInv ==
    ASSUME IndInv, AlternateInv, [Next]_vars
    PROVE  AlternateInv'
<1>1. ASSUME NEW desired \in BOOLEAN, ChoosePush(desired), sample_every_lines # Instant
      PROVE  /\ Alternates(pending', enabled', requested')
             /\ Spaced(pending') /\ FromSamples(pending')
  <2> DEFINE writes == Written(desired)
  <2>1. writes \in Writes /\ lines \in Nat
    BY <1>1, WrittenIsWanted DEF IndInv, TypeOK
  <2>2. Alternates(writes, enabled, requested') /\ Spaced(writes) /\ FromSamples(writes)
    BY <1>1, WrittenAlternates
  <2>3. pending' = AfterDue(writes) /\ enabled' = FlagAfterDue(writes)
    BY <1>1 DEF ChoosePush, Flag
  <2> HIDE DEF writes
  <2> QED  BY <2>1, <2>2, <2>3, ApplyingAlternates
<1>2. ASSUME NEW desired \in BOOLEAN, ChoosePush(desired)
      PROVE  AlternateInv'
  <2>1. UNCHANGED <<sample_every_lines, control_delay_lines>>
    BY <1>2 DEF ChoosePush, settings
  <2> QED  BY <1>1, <1>2, <2>1 DEF AlternateInv, Alternates, Spaced, FromSamples, Interval
<1>3. CASE UNCHANGED vars
  BY <1>3 DEF vars, settings, AlternateInv, Alternates, Spaced, FromSamples, Interval
<1> QED  BY <1>2, <1>3 DEF Next

LEMMA AlternateInvShows ==
    ASSUME IndInv, AlternateInv
    PROVE  ControlWritesAlternate
<1> SUFFICES ASSUME sample_every_lines # Instant
             PROVE  ControlWritesAlternate
  BY DEF ControlWritesAlternate
<1> DEFINE n == Len(pending)
           later == [i \in 1..n |-> pending[i].enabled]
           flags == <<enabled>> \o later
<1>1. /\ pending \in Writes /\ n \in Nat
      /\ lines \in Nat /\ control_delay_lines \in Nat /\ Interval \in Nat \ {0}
  BY WritesType, IntervalType DEF IndInv, TypeOK, Writes, ControlWrite
<1>2. Alternates(pending, enabled, requested) /\ Spaced(pending)
  BY DEF AlternateInv
<1>3. /\ Len(flags) = n + 1 /\ flags[1] = enabled
      /\ \A i \in 1..n : flags[i + 1] = pending[i].enabled
  <2>1. \A i \in 1..n : later[i] = pending[i].enabled
    OBVIOUS
  <2>2. later \in Seq({pending[i].enabled : i \in 1..n}) /\ Len(later) = n
    BY <1>1
  <2>3. <<enabled>> \in Seq({enabled}) /\ Len(<<enabled>>) = 1 /\ <<enabled>>[1] = enabled
    OBVIOUS
  <2>4. PICK S : later \in Seq(S) /\ <<enabled>> \in Seq(S)
    <3>1. later \in Seq({pending[i].enabled : i \in 1..n} \cup {enabled})
      BY <2>2, <1>1
    <3>2. <<enabled>> \in Seq({pending[i].enabled : i \in 1..n} \cup {enabled})
      OBVIOUS
    <3> QED  BY <3>1, <3>2
  <2> HIDE DEF later
  <2> QED  BY <1>1, <2>1, <2>2, <2>3, <2>4
<1> HIDE DEF flags
<1>4. ASSUME NEW i \in 1..n
      PROVE  flags[i] # flags[i + 1] /\ pending[i].due >= lines
  <2>1. pending[i].enabled # IF i = 1 THEN enabled ELSE pending[i - 1].enabled
    BY <1>2 DEF Alternates
  <2>2. i # 1 => i - 1 \in 1..n /\ i - 1 + 1 = i
    BY <1>1
  <2>3. flags[i] = IF i = 1 THEN enabled ELSE pending[i - 1].enabled
    BY <1>3, <2>2
  <2>4. pending[i].due \in lines..(lines - 1 + control_delay_lines)
    BY DEF IndInv, DuesIncrease
  <2> QED  BY <1>1, <1>3, <2>1, <2>3, <2>4
<1>5. flags[Len(flags)] = requested
  BY <1>1, <1>2, <1>3 DEF Alternates
<1>6. n * Interval < control_delay_lines + Interval
  <2>1. CASE n = 0
    BY <1>1, <2>1
  <2>2. CASE n # 0
    <3>1. 1 \in 1..n /\ n \in 1..n
      BY <1>1, <2>2
    <3>2. pending[1].due + (n - 1) * Interval <= pending[n].due
      BY <1>1, <1>2, <3>1 DEF Spaced
    <3>3. /\ pending[1].due \in lines..(lines - 1 + control_delay_lines)
          /\ pending[n].due \in lines..(lines - 1 + control_delay_lines)
      BY <3>1 DEF IndInv, DuesIncrease
    <3>4. n * Interval = (n - 1) * Interval + Interval
      BY <1>1, Z3
    <3>5. (n - 1) * Interval \in Int
      BY <1>1
    <3> QED  BY <1>1, <3>2, <3>3, <3>4, <3>5
  <2> QED  BY <2>1, <2>2
<1> QED  BY <1>4, <1>5, <1>6 DEF ControlWritesAlternate, flags

(* The control writes on their way change the flag one after the other, to *)
(* what was requested last, none is overdue, and there is room for no more *)
(* of them than the delay has samples (integration.py:165-168).            *)
THEOREM ControlWritesInTurn == Spec => []ControlWritesAlternate
<1>1. Init => AlternateInv
  BY DEF Init, AlternateInv, Alternates, Spaced, FromSamples
<1>2. IndInv /\ AlternateInv /\ [Next]_vars => AlternateInv'
  BY StepKeepsAlternateInv
<1>3. IndInv /\ AlternateInv => ControlWritesAlternate
  BY AlternateInvShows
<1> QED  BY <1>1, <1>2, <1>3, GateInvariance, PTL DEF Spec

--------------------------------------------------------------------------------
(* The gate and the client together.                                       *)

(* What the server has not seen yet is the call of the stage: the sample   *)
(* of the line that is next, or the line that was decided last.            *)
RequestOfStage ==
    requests # <<>> =>
        /\ requests[1].op = Query => stage \in {"asked", "over"} /\ LinesIn = lines
        /\ requests[1].op \in LineOps =>
            /\ stage \in {"written", "over"} /\ lines > 0 /\ LinesIn = lines - 1
            /\ requests[1].op = Place

(* How far the lines are in each stage, and which call the last one is.    *)
LinesOfStage ==
    /\ stage \in {"next", "asked", "chosen", "written", "over"}
    /\ LinesIn <= lines
    /\ stage \in {"next", "asked"} => LinesIn = lines
    /\ stage = "asked" =>
        /\ Sampling /\ lines < MaxLines /\ calls # <<>>
        /\ LastCall.op = Query /\ LastCall.status # "refused"
    /\ stage = "chosen" => lines > 0 /\ LinesIn = lines - 1
    /\ stage = "written" =>
        /\ lines > 0 /\ calls # <<>>
        /\ LastCall.op \in LineOps /\ LastCall.status # "refused"
        /\ LinesIn = IF Heard(Len(calls)) THEN lines ELSE lines - 1

(* The lines that are in went where the gate decided.                      *)
LinesWent ==
    \A k \in 1..Len(performed) :
        performed[k].op \in LineOps =>
            /\ LinesBefore(k) < lines
            /\ performed[k].op = IF pushes[LinesBefore(k)] THEN Push ELSE PastCache

(* A sample that was not used yet is that of the line that is next.        *)
SamplesUsed ==
    \A k \in 1..Len(performed) :
        performed[k].op = Query =>
            /\ LinesBefore(k) < lines =>
                /\ sample_every_lines # Instant => LinesBefore(k) % sample_every_lines = 0
                /\ below[LinesBefore(k)] = performed[k].value
            /\ stage \in {"next", "chosen", "written"} => LinesBefore(k) < lines
            /\ stage = "asked" /\ LinesBefore(k) >= lines => performed[k].call = Len(calls)

(* The answer a call returned with is about that call.                     *)
AnswersOwn ==
    \A n \in 1..Len(calls) :
        calls[n].status = "returned" =>
            calls[n].answer \in 1..Len(performed) /\ performed[calls[n].answer].call = n

IngressInv == RequestOfStage /\ LinesOfStage /\ LinesWent /\ SamplesUsed /\ AnswersOwn

LEMMA OpsApart ==
    /\ Push \in Ops /\ PastCache \in Ops /\ Query \in Ops /\ OtherOps \subseteq Ops
    /\ LineOps \subseteq Ops /\ Query \notin LineOps /\ Place \in LineOps
    /\ \A op \in OtherOps : op # Query /\ op \notin LineOps
BY IngressAssumption DEF LineOps, Push, PastCache, Query, Place

LEMMA PerformedTyped ==
    ASSUME TransportInv
    PROVE  /\ Len(performed) \in Nat /\ Len(calls) \in Nat
           /\ calls \in Seq(Call)
           /\ performed \in Seq([call : Nat, op : Ops, value : BOOLEAN])
           /\ \A k \in 1..Len(performed) :
                performed[k] \in [call : Nat, op : Ops, value : BOOLEAN]
<1>1. /\ calls \in Seq(Call)
      /\ performed \in Seq([call : Nat, op : Ops, value : BOOLEAN])
  BY DEF TransportInv, TransportTypeOK
<1> HIDE DEF Call
<1>2. \A S : \A s \in Seq(S) : Len(s) \in Nat /\ \A k \in 1..Len(s) : s[k] \in S
  OBVIOUS
<1> QED  BY <1>1, <1>2

(* Positions of the lines among the first k - 1 operations.                *)
LinesUpTo(k) == {j \in 1..(k - 1) : performed[j].op \in LineOps}

LEMMA LinesBeforeType ==
    ASSUME NEW k \in Nat
    PROVE  /\ IsFiniteSet(LinesUpTo(k)) /\ LinesBefore(k) = Cardinality(LinesUpTo(k))
           /\ LinesBefore(k) \in Nat
<1>1. k - 1 \in Int
  OBVIOUS
<1>2. IsFiniteSet(1..(k - 1)) /\ LinesUpTo(k) \subseteq 1..(k - 1)
  BY <1>1, FS_Interval DEF LinesUpTo
<1>3. IsFiniteSet(LinesUpTo(k))
  BY <1>2, FS_Subset
<1>4. LinesBefore(k) = Cardinality(LinesUpTo(k))
  BY DEF LinesBefore, LinesUpTo
<1> QED  BY <1>3, <1>4, FS_CardinalityType

(* No more lines are before an operation than there are.                   *)
LEMMA LinesBeforeBound ==
    ASSUME TransportInv, NEW k \in 1..Len(performed)
    PROVE  LinesBefore(k) \in Nat /\ LinesIn \in Nat /\ LinesBefore(k) <= LinesIn
<1>1. PICK m \in Nat : m = Len(performed) + 1
  BY PerformedTyped
<1>2. k \in Nat
  BY PerformedTyped
<1>3. LinesUpTo(k) \subseteq LinesUpTo(m)
  BY <1>1, PerformedTyped DEF LinesUpTo
<1>4. /\ IsFiniteSet(LinesUpTo(m)) /\ LinesBefore(m) = Cardinality(LinesUpTo(m))
      /\ LinesBefore(m) \in Nat
      /\ LinesBefore(k) = Cardinality(LinesUpTo(k)) /\ LinesBefore(k) \in Nat
  BY <1>2, LinesBeforeType
<1>5. Cardinality(LinesUpTo(k)) <= Cardinality(LinesUpTo(m))
  BY <1>3, <1>4, FS_Subset
<1> QED  BY <1>1, <1>4, <1>5 DEF LinesIn

LEMMA LinesInType ==
    ASSUME TransportInv
    PROVE  LinesIn \in Nat
<1>1. PICK m \in Nat : m = Len(performed) + 1
  BY PerformedTyped
<1> QED  BY <1>1, LinesBeforeType DEF LinesIn

Lines == LinesUpTo(Len(performed) + 1)

LinesAreIn == LinesIn = Cardinality(Lines)

LEMMA LinesCounted == LinesAreIn
BY Zenon DEF LinesAreIn, LinesIn, LinesBefore, Lines, LinesUpTo

(* One more operation leaves what was before the earlier ones.             *)
LEMMA LinesAfterStep ==
    ASSUME TransportInv, NEW new \in [call : Nat, op : Ops, value : BOOLEAN],
           performed' = Append(performed, new)
    PROVE  /\ Len(performed') = Len(performed) + 1
           /\ performed'[Len(performed) + 1] = new
           /\ \A k \in 1..Len(performed) : performed'[k] = performed[k]
           /\ \A k \in 1..(Len(performed) + 1) : LinesBefore(k)' = LinesBefore(k)
           /\ LinesIn' = LinesIn + (IF new.op \in LineOps THEN 1 ELSE 0)
<1> DEFINE N == Len(performed)
<1>1. /\ N \in Nat /\ Len(performed') = N + 1 /\ performed'[N + 1] = new
      /\ \A k \in 1..N : performed'[k] = performed[k]
  BY PerformedTyped
<1>2. ASSUME NEW k \in 1..(N + 1) PROVE LinesBefore(k)' = LinesBefore(k)
  <2>1. {j \in 1..(k - 1) : performed'[j].op \in LineOps}
            = {j \in 1..(k - 1) : performed[j].op \in LineOps}
    BY <1>1
  <2> QED  BY <2>1 DEF LinesBefore
<1>3. LinesIn' = LinesIn + (IF new.op \in LineOps THEN 1 ELSE 0)
  <2>1. PICK m \in Nat : m = N + 1
    BY <1>1
  <2>2. IsFiniteSet(LinesUpTo(m)) /\ LinesIn = Cardinality(LinesUpTo(m))
    BY <2>1, LinesBeforeType DEF LinesIn
  <2>3. LinesIn' = Cardinality(Lines')
    <3>1. LinesAreIn'
      BY LinesCounted, PTL
    <3> QED  BY <3>1 DEF LinesAreIn
  <2>4. Lines' = LinesUpTo(m) \cup (IF new.op \in LineOps THEN {m} ELSE {})
    BY <1>1, <2>1 DEF LinesUpTo, Lines
  <2>5. m \notin LinesUpTo(m)
    BY DEF LinesUpTo
  <2>6. CASE new.op \in LineOps
    <3>1. Cardinality(LinesUpTo(m) \cup {m}) = Cardinality(LinesUpTo(m)) + 1
      BY <2>2, <2>5, FS_AddElement
    <3> QED  BY <2>2, <2>3, <2>4, <2>6, <3>1
  <2>7. CASE new.op \notin LineOps
    BY <2>2, <2>3, <2>4, <2>7, LinesInType
  <2> QED  BY <2>6, <2>7
<1> QED  BY <1>1, <1>2, <1>3

LEMMA LinesStay ==
    ASSUME UNCHANGED performed
    PROVE  LinesIn' = LinesIn /\ \A k : LinesBefore(k)' = LinesBefore(k)
BY DEF LinesIn, LinesBefore

(* When the last call returned, nothing is on its way.                     *)
LEMMA ReturnedIsQuiet ==
    ASSUME TransportInv, calls # <<>>, LastCall.status = "returned"
    PROVE  requests = <<>> /\ Heard(Len(calls))
<1>1. Len(calls) \in 1..Len(calls)
  BY PerformedTyped
<1>2. Heard(Len(calls))
  BY <1>1 DEF LastCall, TransportInv, ServedInOrder
<1>3. ASSUME requests # <<>> PROVE FALSE
  <2>1. PICK n \in 1..Len(calls) : n = Head(requests).call /\ calls[n].status \in {"waiting", "raised"}
    BY <1>3, RequestInDoubt
  <2>2. n # Len(calls)
    BY <2>1 DEF LastCall
  <2>3. calls[n].status = "raised"
    BY <2>1, <2>2 DEF TransportInv, CallsInOrder
  <2>4. Len(calls) \in (n + 1)..Len(calls)
    BY <2>2, PerformedTyped
  <2>5. calls[Len(calls)].status = "refused"
    BY <2>3, <2>4 DEF TransportInv, CallsInOrder
  <2> QED  BY <2>5 DEF LastCall
<1> QED  BY <1>2, <1>3

(* A request that is on its way is of the last call, if that was made.     *)
LEMMA RequestIsLast ==
    ASSUME TransportInv, requests # <<>>, calls # <<>>, LastCall.status # "refused"
    PROVE  Head(requests).call = Len(calls) /\ Head(requests).op = LastCall.op
<1>1. PICK n \in 1..Len(calls) :
        /\ n = Head(requests).call /\ Head(requests).op = calls[n].op
        /\ calls[n].status \in {"waiting", "raised"}
  BY RequestInDoubt
<1>2. n = Len(calls)
  <2> SUFFICES ASSUME n # Len(calls) PROVE FALSE
    OBVIOUS
  <2>1. calls[n].status = "raised"
    BY <1>1 DEF TransportInv, CallsInOrder
  <2>2. Len(calls) \in (n + 1)..Len(calls)
    BY PerformedTyped
  <2> QED  BY <2>1, <2>2 DEF LastCall, TransportInv, CallsInOrder
<1> QED  BY <1>1, <1>2 DEF LastCall

--------------------------------------------------------------------------------
(* A call begins: it is the last one, and only if nothing was on its way   *)
(* there is a request for it.                                              *)
LEMMA CallBegins ==
    ASSUME TransportInv, AnswersOwn, NEW op \in Ops,
           Send(op) \/ SendFails(op) \/ TurnAway(op)
    PROVE  /\ Len(calls) \in Nat /\ Len(calls') = Len(calls) + 1 /\ calls' # <<>>
           /\ LastCall'.op = op /\ (Send(op) => LastCall'.status = "waiting")
           /\ performed' = performed
           /\ requests' = requests \/ requests' = <<Request(op)>>
           /\ AnswersOwn'
<1>1. PICK status \in {"waiting", "raised", "refused"} :
        Enter(op, status) /\ (Send(op) => status = "waiting")
  <2>1. CASE Send(op)
    BY <2>1 DEF Send
  <2>2. CASE ~Send(op)
    BY <2>2 DEF SendFails, TurnAway
  <2> QED  BY <2>1, <2>2
<1>2. ~receiving /\ Len(calls) < MaxCalls /\ performed' = performed
  BY DEF Send, SendFails, TurnAway, Ready, server
<1>3. /\ Len(calls') = Len(calls) + 1
      /\ \A n \in 1..Len(calls) : calls'[n] = calls[n]
      /\ calls'[Len(calls) + 1] = [op |-> op, status |-> status, answer |-> 0]
  BY <1>1, <1>2, EnterKeeps
<1>4. Len(calls) \in Nat /\ calls' # <<>>
  BY <1>3, PerformedTyped
<1>5. LastCall' = [op |-> op, status |-> status, answer |-> 0]
  BY <1>3 DEF LastCall
<1>6. requests' = requests \/ requests' = <<Request(op)>>
  <2>1. CASE TurnAway(op)
    BY <2>1 DEF TurnAway
  <2>2. CASE Send(op) \/ SendFails(op)
    <3>1. requests = <<>>
      BY <2>2, QuietBefore DEF Send, SendFails, Ready
    <3>2. requests' = requests \/ requests' = Append(requests, Request(op))
      BY <2>2 DEF Send, SendFails
    <3> QED  BY <3>1, <3>2
  <2> QED  BY <2>1, <2>2
<1>7. AnswersOwn'
  <2> SUFFICES ASSUME NEW n \in 1..(Len(calls) + 1), calls'[n].status = "returned"
               PROVE  /\ calls'[n].answer \in 1..Len(performed)
                      /\ performed[calls'[n].answer].call = n
    BY <1>2, <1>3 DEF AnswersOwn
  <2>1. n # Len(calls) + 1
    BY <1>3
  <2>2. n \in 1..Len(calls)
    BY <1>4, <2>1
  <2> QED  BY <1>3, <2>2 DEF AnswersOwn
<1> QED  BY <1>1, <1>2, <1>3, <1>4, <1>5, <1>6, <1>7

(* A step that neither begins a call nor carries one out.                  *)
LEMMA QuietKeeps ==
    ASSUME IngressInv, UNCHANGED <<vars, stage, performed>>,
           requests' \in {requests, <<>>}, Len(calls') = Len(calls),
           calls # <<>> => /\ calls' # <<>> /\ LastCall'.op = LastCall.op
                           /\ LastCall.status # "refused" => LastCall'.status # "refused",
           AnswersOwn'
    PROVE  IngressInv'
<1>1. /\ LinesIn' = LinesIn /\ \A k : LinesBefore(k)' = LinesBefore(k)
      /\ UNCHANGED <<lines, pushes, below, sample_every_lines>>
  BY LinesStay DEF vars, settings
<1>2. RequestOfStage'
  BY <1>1 DEF IngressInv, RequestOfStage, Place
<1>3. Heard(Len(calls))' <=> Heard(Len(calls))
  BY DEF Heard
<1>4. LinesOfStage'
  BY <1>1, <1>3 DEF IngressInv, LinesOfStage, Sampling
<1>5. LinesWent'
  BY <1>1 DEF IngressInv, LinesWent
<1>6. SamplesUsed'
  BY <1>1 DEF IngressInv, SamplesUsed
<1> QED  BY <1>2, <1>4, <1>5, <1>6 DEF IngressInv

LEMMA AwaitIsQuiet ==
    ASSUME TransportInv, AnswersOwn, Await
    PROVE  /\ performed' = performed /\ requests' = requests
           /\ Len(calls') = Len(calls) /\ calls # <<>> /\ calls' # <<>>
           /\ LastCall'.op = LastCall.op /\ LastCall'.status # "refused"
           /\ AnswersOwn'
<1>1. /\ receiving /\ calls \in Seq(Call) /\ calls # <<>>
      /\ LastCall.status = "waiting"
  BY DEF Await, LastCall, TransportInv, TransportTypeOK, CallsInOrder
<1>2. Len(calls) \in Nat \ {0} /\ LastCall \in Call
  BY <1>1 DEF LastCall
<1>3. ASSUME NEW end \in Call, end.op = LastCall.op, end.status # "refused",
             calls' = [calls EXCEPT ![Len(calls)] = end],
             UNCHANGED <<performed, requests>>,
             end.status = "returned" =>
                /\ end.answer \in 1..Len(performed)
                /\ performed[end.answer].call = Len(calls)
      PROVE  /\ Len(calls') = Len(calls) /\ calls' # <<>>
             /\ LastCall'.op = LastCall.op /\ LastCall'.status # "refused"
             /\ AnswersOwn'
  <2>1. /\ Len(calls') = Len(calls) /\ calls'[Len(calls)] = end
        /\ \A n \in 1..Len(calls) : n # Len(calls) => calls'[n] = calls[n]
    BY <1>1, <1>3, EndKeeps DEF LastCall
  <2>2. calls' # <<>> /\ LastCall' = end
    BY <1>2, <2>1 DEF LastCall
  <2> SUFFICES ASSUME NEW n \in 1..Len(calls), calls'[n].status = "returned"
               PROVE  /\ calls'[n].answer \in 1..Len(performed)
                      /\ performed[calls'[n].answer].call = n
    BY <1>3, <2>1, <2>2 DEF AnswersOwn
  <2>3. CASE n = Len(calls)
    BY <1>3, <2>1, <2>3
  <2>4. CASE n # Len(calls)
    BY <2>1, <2>4 DEF AnswersOwn
  <2> QED  BY <2>3, <2>4
<1>4. ASSUME Raise
      PROVE  /\ performed' = performed /\ requests' = requests
             /\ Len(calls') = Len(calls) /\ calls' # <<>>
             /\ LastCall'.op = LastCall.op /\ LastCall'.status # "refused"
             /\ AnswersOwn'
  <2> DEFINE end == [LastCall EXCEPT !.status = "raised"]
  <2>1. /\ UNCHANGED <<performed, requests>>
        /\ calls' = [calls EXCEPT ![Len(calls)] = end]
    BY <1>4 DEF Raise, server, LastCall
  <2>2. end \in Call /\ end.op = LastCall.op /\ end.status = "raised"
    BY <1>2 DEF Call
  <2> HIDE DEF end
  <2> QED  BY <1>3, <2>1, <2>2
<1>5. CASE Receive
  <2>1. UNCHANGED <<calls, performed, requests>>
    BY <1>5 DEF Receive, server
  <2> QED  BY <1>1, <2>1 DEF LastCall, AnswersOwn
<1>6. CASE NothingComes
  BY <1>1, <1>4, <1>6 DEF NothingComes
<1>7. CASE Finish
  <2>1. CASE ~Acceptable(LastCall.op, chunks)
    BY <1>1, <1>4, <1>7, <2>1 DEF Finish, LastCall
  <2>2. CASE Acceptable(LastCall.op, chunks)
    <3> DEFINE end == [LastCall EXCEPT !.status = "returned", !.answer = chunks[Parts].answer]
    <3>1. /\ UNCHANGED <<performed, requests>> /\ Len(chunks) = Parts
          /\ calls' = [calls EXCEPT ![Len(calls)] = end]
      BY <1>7, <2>2 DEF Finish, server, LastCall
    <3>2. /\ performed # <<>> /\ performed[Len(performed)].call = Len(calls)
          /\ chunks[Parts].answer = Len(performed)
      BY <1>1, <1>2, <2>2, <3>1, WholeReply DEF Call
    <3>3. Len(performed) \in 1..Len(performed)
      BY <3>2, PerformedTyped
    <3>4. /\ end \in Call /\ end.op = LastCall.op /\ end.status = "returned"
          /\ end.answer = Len(performed)
      <4>1. PICK x \in Nat : x = Len(performed) /\ x = chunks[Parts].answer
        BY <3>2, <3>3
      <4>2. \A c \in Call : \A y \in Nat :
              LET e == [c EXCEPT !.status = "returned", !.answer = y]
              IN  e \in Call /\ e.op = c.op /\ e.status = "returned" /\ e.answer = y
        BY DEF Call
      <4>3. end = [LastCall EXCEPT !.status = "returned", !.answer = x]
        BY <4>1
      <4>4. PICK c \in Call : c = LastCall
        BY <1>2
      <4> HIDE DEF end, Call
      <4> QED  BY <4>1, <4>2, <4>3, <4>4
    <3> HIDE DEF end
    <3> QED  BY <1>1, <1>3, <3>1, <3>2, <3>3, <3>4
  <2> QED  BY <2>1, <2>2
<1> QED  BY <1>5, <1>6, <1>7 DEF Await

LEMMA AwaitKeepsIngress ==
    ASSUME TransportInv, IngressInv, Await, UNCHANGED <<vars, stage>>
    PROVE  IngressInv'
BY AwaitIsQuiet, QuietKeeps DEF IngressInv

LEMMA CloseKeepsIngress ==
    ASSUME IngressInv, Close \/ ServerStops \/ UNCHANGED transport, UNCHANGED <<vars, stage>>
    PROVE  IngressInv'
<1>1. UNCHANGED <<calls, performed>> /\ requests' \in {requests, <<>>}
  BY DEF Close, ServerStops, transport, client, server
<1>2. AnswersOwn'
  BY <1>1 DEF IngressInv, AnswersOwn
<1> QED  BY <1>1, <1>2, QuietKeeps DEF LastCall

LEMMA ServeKeepsIngress ==
    ASSUME TransportInv, IngressInv, lines \in Nat, Serve, UNCHANGED <<vars, stage>>
    PROVE  IngressInv'
<1> DEFINE r == Head(requests)
           N == Len(performed)
<1>1. /\ requests # <<>> /\ requests' = Tail(requests) /\ calls' = calls
      /\ UNCHANGED <<lines, pushes, below, sample_every_lines, stage>>
      /\ \/ performed' = performed
         \/ \E value \in BOOLEAN :
                performed' = Append(performed, [call |-> r.call, op |-> r.op, value |-> value])
  BY DEF Serve, client, vars, settings
<1>2. /\ requests = <<r>> /\ r.op \in Ops /\ r.call \in Nat /\ requests[1] = r
  BY <1>1, RequestInDoubt
<1>3. requests' = <<>>
  <2>1. \A q : Tail(<<q>>) = <<>>
    OBVIOUS
  <2> QED  BY <1>1, <1>2, <2>1
<1>4. CASE performed' = performed
  <2>1. AnswersOwn'
    BY <1>1, <1>4 DEF IngressInv, AnswersOwn
  <2> QED  BY <1>1, <1>3, <1>4, <2>1, QuietKeeps DEF LastCall
<1>5. CASE performed' # performed
  <2> DEFINE step(value) == [call |-> r.call, op |-> r.op, value |-> value]
  <2>1. PICK value \in BOOLEAN : performed' = Append(performed, step(value))
    BY <1>1, <1>5
  <2>2. PICK new \in [call : Nat, op : Ops, value : BOOLEAN] : new = step(value)
    BY <1>2
  <2>3. new.op = r.op /\ new.call = r.call /\ performed' = Append(performed, new)
    BY <2>1, <2>2
  <2> HIDE DEF r, step
  <2>4. /\ N \in Nat /\ Len(performed') = N + 1 /\ performed'[N + 1] = new
        /\ \A k \in 1..N : performed'[k] = performed[k]
        /\ \A k \in 1..(N + 1) : LinesBefore(k)' = LinesBefore(k)
        /\ LinesIn' = LinesIn + (IF new.op \in LineOps THEN 1 ELSE 0)
        /\ LinesBefore(N + 1) = LinesIn /\ LinesIn \in Nat
    BY <2>3, LinesAfterStep, LinesInType, PerformedTyped DEF LinesIn
  <2>5. \A k \in 1..(N + 1) : k = N + 1 \/ k \in 1..N
    BY <2>4
  <2>6. /\ r.op = Query => stage \in {"asked", "over"} /\ LinesIn = lines
        /\ r.op \in LineOps =>
            /\ stage \in {"written", "over"} /\ lines > 0 /\ LinesIn = lines - 1
            /\ r.op = Place
    BY <1>1, <1>2 DEF IngressInv, RequestOfStage
  <2>7. calls # <<>> /\ LastCall.status # "refused" =>
            r.call = Len(calls) /\ r.op = LastCall.op
    BY <1>1, RequestIsLast DEF r
  <2>8. Query \notin LineOps
    BY OpsApart
  <2>9. RequestOfStage'
    BY <1>3 DEF RequestOfStage
  <2>10. LinesOfStage'
    <3>1. LinesOfStage
      BY DEF IngressInv
    <3>2. LinesIn' = LinesIn \/ (r.op \in LineOps /\ LinesIn' = lines /\ stage \in {"written", "over"})
      BY <2>3, <2>4, <2>6
    <3>3. LastCall' = LastCall
      BY <1>1 DEF LastCall
    <3>4. stage = "written" => r.op \in LineOps /\ Heard(Len(calls))' /\ LinesIn' = lines
      <4> SUFFICES ASSUME stage = "written"
                   PROVE  r.op \in LineOps /\ Heard(Len(calls))' /\ LinesIn' = lines
        OBVIOUS
      <4>1. r.op \in LineOps /\ r.call = Len(calls)
        BY <2>7, <3>1 DEF LinesOfStage
      <4>2. LinesIn' = lines
        BY <2>3, <2>4, <2>6, <4>1
      <4>3. Heard(Len(calls))'
        BY <1>1, <2>3, <2>4, <4>1 DEF Heard
      <4> QED  BY <4>1, <4>2, <4>3
    <3> QED  BY <1>1, <3>1, <3>2, <3>3, <3>4 DEF LinesOfStage, Sampling
  <2>11. LinesWent'
    <3> SUFFICES ASSUME NEW k \in 1..(N + 1), performed'[k].op \in LineOps
                 PROVE  /\ LinesBefore(k) < lines
                        /\ performed'[k].op =
                            IF pushes[LinesBefore(k)] THEN Push ELSE PastCache
      BY <1>1, <2>4 DEF LinesWent
    <3>1. CASE k \in 1..N
      BY <2>4, <3>1 DEF IngressInv, LinesWent
    <3>2. CASE k = N + 1
      <4>1. new.op \in LineOps /\ new.op = Place /\ LinesBefore(k) = lines - 1
        BY <2>3, <2>4, <2>6, <3>2
      <4> QED  BY <2>4, <3>2, <4>1 DEF Place
    <3> QED  BY <2>5, <3>1, <3>2
  <2>12. SamplesUsed'
    <3> SUFFICES ASSUME NEW k \in 1..(N + 1), performed'[k].op = Query
                 PROVE  /\ LinesBefore(k) < lines =>
                            /\ sample_every_lines # Instant =>
                                LinesBefore(k) % sample_every_lines = 0
                            /\ below[LinesBefore(k)] = performed'[k].value
                        /\ stage \in {"next", "chosen", "written"} => LinesBefore(k) < lines
                        /\ stage = "asked" /\ LinesBefore(k) >= lines =>
                            performed'[k].call = Len(calls)
      BY <1>1, <2>4 DEF SamplesUsed
    <3>1. CASE k \in 1..N
      BY <2>4, <3>1 DEF IngressInv, SamplesUsed
    <3>2. CASE k = N + 1
      <4>1. LinesBefore(k) = lines /\ stage \in {"asked", "over"} /\ performed'[k] = new
        BY <2>3, <2>4, <2>6, <3>2
      <4>2. stage = "asked" => new.call = Len(calls)
        BY <2>3, <2>7 DEF IngressInv, LinesOfStage
      <4> QED  BY <4>1, <4>2
    <3> QED  BY <2>5, <3>1, <3>2
  <2>13. AnswersOwn'
    <3>1. ASSUME NEW n \in 1..Len(calls), calls[n].status = "returned"
          PROVE  /\ calls[n].answer \in 1..(N + 1)
                 /\ performed'[calls[n].answer].call = n
      <4>1. calls[n].answer \in 1..N /\ performed[calls[n].answer].call = n
        BY <3>1 DEF IngressInv, AnswersOwn
      <4> QED  BY <2>4, <4>1
    <3> QED  BY <1>1, <2>4, <3>1 DEF AnswersOwn
  <2> QED  BY <2>9, <2>10, <2>11, <2>12, <2>13 DEF IngressInv
<1> QED  BY <1>4, <1>5

(* A line that the gate let through leaves the record of those before it.  *)
LEMMA LineChosen ==
    ASSUME IndInv, NEW desired \in BOOLEAN, ChoosePush(desired)
    PROVE  /\ lines \in Nat /\ lines' = lines + 1 /\ lines < MaxLines
           /\ sample_every_lines' = sample_every_lines
           /\ \A n \in 0..(lines - 1) : below'[n] = below[n] /\ pushes'[n] = pushes[n]
           /\ below'[lines] = desired
<1>1. lines \in Nat
  BY DEF IndInv, TypeOK
<1>2. /\ below' = [n \in 0..lines |-> IF n = lines THEN desired ELSE below[n]]
      /\ pushes' = [n \in 0..lines |-> IF n = lines THEN Flag(desired) ELSE pushes[n]]
  BY DEF ChoosePush
<1>3. \A n \in 0..(lines - 1) : n \in 0..lines /\ n # lines
  BY <1>1
<1>4. \A n \in 0..(lines - 1) : below'[n] = below[n] /\ pushes'[n] = pushes[n]
  BY <1>2, <1>3
<1>5. below'[lines] = desired
  BY <1>1, <1>2
<1> QED  BY <1>1, <1>4, <1>5 DEF ChoosePush, settings

(* The gate chose for the next line, with nothing on its way for a line.   *)
LEMMA ChosenKeeps ==
    ASSUME IndInv, TransportInv, IngressInv, UNCHANGED transport,
           NEW desired \in BOOLEAN, ChoosePush(desired),
           stage \in {"next", "asked"}, stage' = "chosen",
           requests # <<>> => requests[1].op # Query /\ requests[1].op \notin LineOps,
           \A k \in 1..Len(performed) : performed[k].op = Query /\ LinesBefore(k) >= lines =>
                /\ sample_every_lines # Instant => LinesBefore(k) % sample_every_lines = 0
                /\ desired = performed[k].value
    PROVE  IngressInv'
<1>1. UNCHANGED <<calls, performed, requests>>
  BY DEF transport, client, server
<1>2. LinesIn' = LinesIn /\ \A k : LinesBefore(k)' = LinesBefore(k)
  BY <1>1, LinesStay
<1>3. /\ lines \in Nat /\ lines' = lines + 1 /\ sample_every_lines' = sample_every_lines
      /\ \A n \in 0..(lines - 1) : below'[n] = below[n] /\ pushes'[n] = pushes[n]
      /\ below'[lines] = desired
  BY LineChosen
<1>4. LinesIn = lines
  BY DEF IngressInv, LinesOfStage
<1>5. \A k \in 1..Len(performed) :
        /\ LinesBefore(k) \in 0..lines
        /\ LinesBefore(k) < lines => LinesBefore(k) \in 0..(lines - 1)
  BY <1>3, <1>4, LinesBeforeBound
<1>6. RequestOfStage'
  BY <1>1 DEF RequestOfStage
<1>7. LinesOfStage'
  BY <1>2, <1>3, <1>4 DEF LinesOfStage
<1>8. LinesWent'
  <2> SUFFICES ASSUME NEW k \in 1..Len(performed), performed[k].op \in LineOps
               PROVE  /\ LinesBefore(k) < lines + 1
                      /\ performed[k].op = IF pushes'[LinesBefore(k)] THEN Push ELSE PastCache
    BY <1>1, <1>2, <1>3 DEF LinesWent
  <2>1. /\ LinesBefore(k) < lines
        /\ performed[k].op = IF pushes[LinesBefore(k)] THEN Push ELSE PastCache
    BY DEF IngressInv, LinesWent
  <2> QED  BY <1>3, <1>5, <2>1
<1>9. SamplesUsed'
  <2> SUFFICES ASSUME NEW k \in 1..Len(performed), performed[k].op = Query
               PROVE  /\ sample_every_lines # Instant =>
                            LinesBefore(k) % sample_every_lines = 0
                      /\ below'[LinesBefore(k)] = performed[k].value
                      /\ LinesBefore(k) < lines + 1
    BY <1>1, <1>2, <1>3 DEF SamplesUsed
  <2>1. LinesBefore(k) < lines + 1
    BY <1>3, <1>5
  <2>2. CASE LinesBefore(k) < lines
    BY <1>3, <1>5, <2>1, <2>2 DEF IngressInv, SamplesUsed
  <2>3. CASE ~(LinesBefore(k) < lines)
    <3>1. LinesBefore(k) = lines /\ LinesBefore(k) >= lines
      BY <1>3, <1>5, <2>3
    <3> QED  BY <1>3, <2>1, <3>1
  <2> QED  BY <2>2, <2>3
<1>10. AnswersOwn'
  BY <1>1 DEF IngressInv, AnswersOwn
<1> QED  BY <1>6, <1>7, <1>8, <1>9, <1>10 DEF IngressInv

LEMMA TakeLineKeeps ==
    ASSUME IndInv, TransportInv, IngressInv, TakeLine
    PROVE  IngressInv'
<1>1. /\ stage = "next" /\ lines < MaxLines /\ LinesIn = lines
      /\ requests # <<>> => requests[1].op # Query /\ requests[1].op \notin LineOps
  BY DEF TakeLine, IngressInv, LinesOfStage, RequestOfStage
<1>2. ASSUME NEW k \in 1..Len(performed), performed[k].op = Query
      PROVE  LinesBefore(k) \in Nat /\ lines \in Nat /\ ~(LinesBefore(k) >= lines)
  <2>1. LinesBefore(k) \in Nat /\ LinesBefore(k) < lines
    BY <1>1, <1>2, LinesBeforeBound DEF IngressInv, SamplesUsed
  <2>2. lines \in Nat
    BY DEF IndInv, TypeOK
  <2> QED  BY <2>1, <2>2
<1>3. CASE ~Sampling
  BY <1>1, <1>2, <1>3, ChosenKeeps DEF TakeLine
<1>4. CASE Sampling
  <2>1. /\ CallForLine(Query, "asked") /\ UNCHANGED vars
        /\ Send(Query) \/ SendFails(Query) \/ TurnAway(Query)
        /\ stage' \in {"asked", "over"} /\ (stage' = "asked" => Send(Query))
    BY <1>4 DEF TakeLine, CallForLine
  <2>2. /\ Len(calls) \in Nat /\ Len(calls') = Len(calls) + 1 /\ calls' # <<>>
        /\ LastCall'.op = Query /\ (Send(Query) => LastCall'.status = "waiting")
        /\ performed' = performed
        /\ requests' = requests \/ requests' = <<Request(Query)>>
        /\ AnswersOwn'
    BY <2>1, OpsApart, CallBegins DEF IngressInv
  <2>3. /\ LinesIn' = LinesIn /\ \A k : LinesBefore(k)' = LinesBefore(k)
        /\ UNCHANGED <<lines, pushes, below, sample_every_lines>>
    BY <2>1, <2>2, LinesStay DEF vars, settings
  <2>4. RequestOfStage'
    <3>1. requests' # <<>> => requests'[1].op \notin LineOps
      BY <1>1, <2>2, OpsApart DEF Request
    <3> QED  BY <1>1, <2>1, <2>3, <3>1 DEF RequestOfStage
  <2>5. LinesOfStage'
    <3>1. Sampling'
      BY <1>4, <2>3 DEF Sampling
    <3>2. LinesOfStage
      BY DEF IngressInv
    <3> QED  BY <1>1, <2>1, <2>2, <2>3, <3>1, <3>2 DEF LinesOfStage
  <2>6. LinesWent'
    BY <2>2, <2>3 DEF IngressInv, LinesWent
  <2>7. SamplesUsed'
    BY <1>2, <2>1, <2>2, <2>3 DEF IngressInv, SamplesUsed
  <2> QED  BY <2>2, <2>4, <2>5, <2>6, <2>7 DEF IngressInv
<1> QED  BY <1>3, <1>4

LEMMA ChooseAskedKeeps ==
    ASSUME IndInv, TransportInv, IngressInv, ChooseAsked
    PROVE  IngressInv' /\ (UNCHANGED vars \/ Next)
<1>1. /\ stage = "asked" /\ ~receiving /\ UNCHANGED transport
      /\ Sampling /\ calls # <<>> /\ LinesIn = lines
  BY DEF ChooseAsked, IngressInv, LinesOfStage
<1>2. CASE LastCall.status = "returned"
  <2>1. ChoosePush(Answer) /\ stage' = "chosen"
    BY <1>2 DEF ChooseAsked
  <2>2. requests = <<>>
    BY <1>1, <1>2, ReturnedIsQuiet
  <2>3. PICK a \in 1..Len(performed) : a = LastCall.answer /\ performed[a].call = Len(calls)
    <3>1. Len(calls) \in 1..Len(calls)
      BY <1>1, PerformedTyped
    <3> QED  BY <1>2, <3>1 DEF IngressInv, AnswersOwn, LastCall
  <2>4. Answer \in BOOLEAN /\ Answer = performed[a].value
    <3>1. \A s \in [call : Nat, op : Ops, value : BOOLEAN] : s.value \in BOOLEAN
      OBVIOUS
    <3>2. Answer = performed[a].value
      BY <2>3 DEF Answer
    <3>3. performed[a] \in [call : Nat, op : Ops, value : BOOLEAN]
      BY PerformedTyped
    <3>4. performed[a].value \in BOOLEAN
      BY <3>1, <3>3
    <3> QED  BY <3>2, <3>4, Zenon
  <2>5. ASSUME NEW k \in 1..Len(performed), performed[k].op = Query, LinesBefore(k) >= lines
        PROVE  /\ sample_every_lines # Instant => LinesBefore(k) % sample_every_lines = 0
               /\ Answer = performed[k].value
    <3>1. performed[k].call = Len(calls)
      BY <1>1, <2>5 DEF IngressInv, SamplesUsed
    <3>2. k = a
      <4>1. \A i, j \in 1..Len(performed) : i < j => performed[i].call < performed[j].call
        BY DEF TransportInv, ServedInOrder
      <4>2. Len(calls) \in Nat /\ Len(performed) \in Nat
        BY PerformedTyped
      <4>3. ~(k < a)
        BY <2>3, <3>1, <4>1, <4>2
      <4>4. ~(a < k)
        BY <2>3, <3>1, <4>1, <4>2
      <4> QED  BY <2>3, <4>2, <4>3, <4>4
    <3>3. LinesBefore(k) = lines
      <4>1. lines \in Nat
        BY DEF IndInv, TypeOK
      <4> QED  BY <1>1, <2>5, <4>1, LinesBeforeBound
    <3> QED  BY <1>1, <2>4, <3>2, <3>3 DEF Sampling
  <2>6. PICK desired \in BOOLEAN : desired = Answer
    BY <2>4
  <2>7. ChoosePush(desired)
    BY <2>1, <2>6
  <2>8. IngressInv'
    BY <1>1, <2>1, <2>2, <2>5, <2>6, <2>7, ChosenKeeps
  <2> QED  BY <2>7, <2>8 DEF Next
<1>3. CASE LastCall.status # "returned"
  <2>1. stage' = "over" /\ UNCHANGED vars
    BY <1>3 DEF ChooseAsked
  <2>2. /\ UNCHANGED <<calls, performed, requests>>
        /\ UNCHANGED <<lines, pushes, below, sample_every_lines>>
    BY <1>1, <2>1 DEF transport, client, server, vars, settings
  <2>3. LinesIn' = LinesIn /\ \A k : LinesBefore(k)' = LinesBefore(k)
    BY <2>2, LinesStay
  <2>4. RequestOfStage'
    BY <2>1, <2>2, <2>3 DEF IngressInv, RequestOfStage, Place
  <2>5. LinesOfStage'
    BY <2>1, <2>2, <2>3 DEF IngressInv, LinesOfStage
  <2>6. LinesWent' /\ SamplesUsed' /\ AnswersOwn'
    BY <2>1, <2>2, <2>3 DEF IngressInv, LinesWent, SamplesUsed, AnswersOwn
  <2> QED  BY <2>1, <2>4, <2>5, <2>6 DEF IngressInv
<1> QED  BY <1>2, <1>3

LEMMA WriteLineKeeps ==
    ASSUME IndInv, TransportInv, IngressInv, WriteLine
    PROVE  IngressInv'
<1>1. /\ stage = "chosen" /\ UNCHANGED vars
      /\ Send(Place) \/ SendFails(Place) \/ TurnAway(Place)
      /\ stage' \in {"written", "over"} /\ (stage' = "written" => Send(Place))
  BY DEF WriteLine, CallForLine
<1>2. /\ lines > 0 /\ LinesIn = lines - 1 /\ lines \in Nat
      /\ requests # <<>> => requests[1].op # Query /\ requests[1].op \notin LineOps
  BY <1>1 DEF IngressInv, LinesOfStage, RequestOfStage, IndInv, TypeOK
<1>3. Place \in LineOps /\ Place \in Ops /\ Place # Query
  BY OpsApart
<1>4. /\ Len(calls) \in Nat /\ Len(calls') = Len(calls) + 1 /\ calls' # <<>>
      /\ LastCall'.op = Place /\ (Send(Place) => LastCall'.status = "waiting")
      /\ performed' = performed
      /\ requests' = requests \/ requests' = <<Request(Place)>>
      /\ AnswersOwn'
  BY <1>1, <1>3, CallBegins DEF IngressInv
<1>5. /\ LinesIn' = LinesIn /\ \A k : LinesBefore(k)' = LinesBefore(k)
      /\ UNCHANGED <<lines, pushes, below, sample_every_lines>>
  BY <1>1, <1>4, LinesStay DEF vars, settings
<1>6. RequestOfStage'
  <2>1. CASE requests' = requests
    BY <1>2, <2>1 DEF RequestOfStage
  <2>2. CASE requests' = <<Request(Place)>>
    <3>1. requests'[1].op = Place
      BY <2>2 DEF Request
    <3>2. Place' = Place
      BY <1>5 DEF Place
    <3> QED  BY <1>1, <1>2, <1>3, <1>5, <3>1, <3>2 DEF RequestOfStage
  <2> QED  BY <1>4, <2>1, <2>2
<1>7. LinesOfStage'
  <2>1. ~Heard(Len(calls))'
    <3>1. \A i \in 1..Len(performed) : performed[i].call # Len(calls) + 1
      <4>1. \A i \in 1..Len(performed) : performed[i].call \in 1..Len(calls)
        BY DEF TransportInv, ServedInOrder
      <4> QED  BY <1>4, <4>1
    <3> QED  BY <1>4, <3>1 DEF Heard
  <2> QED  BY <1>1, <1>2, <1>3, <1>4, <1>5, <2>1 DEF LinesOfStage
<1>8. LinesWent'
  BY <1>4, <1>5 DEF IngressInv, LinesWent
<1>9. SamplesUsed'
  BY <1>1, <1>4, <1>5 DEF IngressInv, SamplesUsed
<1> QED  BY <1>4, <1>6, <1>7, <1>8, <1>9 DEF IngressInv

LEMMA LineWrittenKeeps ==
    ASSUME TransportInv, IngressInv, LineWritten
    PROVE  IngressInv'
<1>1. /\ stage = "written" /\ ~receiving /\ calls # <<>>
      /\ UNCHANGED <<calls, performed, requests>>
      /\ UNCHANGED <<lines, pushes, below, sample_every_lines>>
      /\ stage' = IF LastCall.status = "returned" THEN "next" ELSE "over"
  BY DEF LineWritten, IngressInv, LinesOfStage, transport, client, server, vars, settings
<1>2. LinesIn' = LinesIn /\ \A k : LinesBefore(k)' = LinesBefore(k)
  BY <1>1, LinesStay
<1>3. stage' = "next" => requests = <<>> /\ Heard(Len(calls))
  BY <1>1, ReturnedIsQuiet
<1>4. RequestOfStage'
  BY <1>1, <1>2, <1>3 DEF IngressInv, RequestOfStage, Place
<1>5. LinesOfStage'
  BY <1>1, <1>2, <1>3 DEF IngressInv, LinesOfStage
<1>6. LinesWent' /\ SamplesUsed' /\ AnswersOwn'
  BY <1>1, <1>2 DEF IngressInv, LinesWent, SamplesUsed, AnswersOwn
<1> QED  BY <1>4, <1>5, <1>6 DEF IngressInv

LEMMA OtherCallKeeps ==
    ASSUME TransportInv, IngressInv, OtherCall
    PROVE  IngressInv'
<1>1. PICK op \in OtherOps : Send(op) \/ SendFails(op) \/ TurnAway(op)
  BY DEF OtherCall
<1>2. /\ op \in Ops /\ op # Query /\ op \notin LineOps
      /\ stage \in {"next", "over"} /\ stage' = stage
      /\ UNCHANGED <<lines, pushes, below, sample_every_lines>>
  BY OpsApart DEF OtherCall, vars, settings
<1>3. /\ performed' = performed
      /\ requests' = requests \/ requests' = <<Request(op)>>
      /\ AnswersOwn'
  BY <1>1, <1>2, CallBegins DEF IngressInv
<1>4. LinesIn' = LinesIn /\ \A k : LinesBefore(k)' = LinesBefore(k)
  BY <1>3, LinesStay
<1>5. RequestOfStage'
  <2>1. requests' = <<Request(op)>> => requests'[1].op = op
    BY DEF Request
  <2> QED  BY <1>2, <1>3, <1>4, <2>1 DEF IngressInv, RequestOfStage, Place
<1>6. LinesOfStage'
  BY <1>2, <1>4 DEF IngressInv, LinesOfStage
<1>7. LinesWent' /\ SamplesUsed'
  BY <1>2, <1>3, <1>4 DEF IngressInv, LinesWent, SamplesUsed
<1> QED  BY <1>3, <1>5, <1>6, <1>7 DEF IngressInv

(* What a step of the whole is to its two parts.                           *)
LEMMA StepOfParts ==
    ASSUME IndInv, TransportInv, IngressInv, [GNext]_gvars
    PROVE  [Next]_vars /\ [TransportNext]_transport
<1>1. ASSUME NEW op \in Ops, Send(op) \/ SendFails(op) \/ TurnAway(op)
      PROVE  TransportNext
  BY <1>1 DEF TransportNext
<1>2. CASE TakeLine
  <2>1. Query \in Ops
    BY OpsApart
  <2> QED  BY <1>1, <1>2, <2>1 DEF TakeLine, CallForLine, Next
<1>3. CASE ChooseAsked
  BY <1>3, ChooseAskedKeeps DEF ChooseAsked
<1>4. CASE WriteLine
  <2>1. Place \in Ops
    BY OpsApart
  <2> QED  BY <1>1, <1>4, <2>1 DEF WriteLine, CallForLine
<1>5. CASE LineWritten
  BY <1>5 DEF LineWritten
<1>6. CASE OtherCall
  <2>1. OtherOps \subseteq Ops
    BY OpsApart
  <2> QED  BY <1>1, <1>6, <2>1 DEF OtherCall
<1>7. CASE Rest
  BY <1>7 DEF Rest, TransportNext
<1>8. CASE UNCHANGED gvars
  BY <1>8 DEF gvars
<1> QED  BY <1>2, <1>3, <1>4, <1>5, <1>6, <1>7, <1>8 DEF GNext

LEMMA StepKeepsIngress ==
    ASSUME IndInv, TransportInv, IngressInv, [GNext]_gvars
    PROVE  IngressInv'
<1>1. CASE TakeLine
  BY <1>1, TakeLineKeeps
<1>2. CASE ChooseAsked
  BY <1>2, ChooseAskedKeeps
<1>3. CASE WriteLine
  BY <1>3, WriteLineKeeps
<1>4. CASE LineWritten
  BY <1>4, LineWrittenKeeps
<1>5. CASE OtherCall
  BY <1>5, OtherCallKeeps
<1>6. CASE Rest
  <2>1. lines \in Nat
    BY DEF IndInv, TypeOK
  <2> QED  BY <1>6, <2>1, AwaitKeepsIngress, CloseKeepsIngress, ServeKeepsIngress DEF Rest
<1>7. CASE UNCHANGED gvars
  BY <1>7, CloseKeepsIngress DEF gvars
<1> QED  BY <1>1, <1>2, <1>3, <1>4, <1>5, <1>6, <1>7 DEF GNext

LEMMA IngressStart == GInit => IngressInv
<1> SUFFICES ASSUME GInit PROVE IngressInv
  OBVIOUS
<1>1. /\ performed = <<>> /\ calls = <<>> /\ requests = <<>>
      /\ stage = "next" /\ lines = 0
  BY DEF GInit, Init, TransportInit
<1>2. LinesIn = 0
  <2>1. LinesUpTo(1) = {}
    BY DEF LinesUpTo
  <2>2. LinesIn = LinesBefore(1)
    BY <1>1 DEF LinesIn
  <2> QED  BY <2>1, <2>2, LinesBeforeType, FS_EmptySet
<1> QED
  BY <1>1, <1>2 DEF IngressInv, RequestOfStage, LinesOfStage, LinesWent, SamplesUsed, AnswersOwn

(* The gate and the client keep their invariants when they work together,  *)
(* and the lines and samples stand as the stage of the line says.          *)
LEMMA TogetherInvariant == GSpec => [](IndInv /\ AlternateInv /\ TransportInv
                                        /\ CountsAgree /\ IngressInv)
<1>1. GInit => IndInv /\ AlternateInv /\ TransportInv /\ CountsAgree /\ IngressInv
  <2>1. Init => AlternateInv
    BY DEF Init, AlternateInv, Alternates, Spaced, FromSamples
  <2> QED  BY <2>1, Start, InitHolds, InitCounts, IngressStart DEF GInit
<1>2. IndInv /\ AlternateInv /\ TransportInv /\ CountsAgree /\ IngressInv /\ [GNext]_gvars
        => (IndInv /\ AlternateInv /\ TransportInv /\ CountsAgree /\ IngressInv)'
  BY StepOfParts, StepKeepsIndInv, StepKeepsAlternateInv, StepKeeps, StepCounts,
     StepKeepsIngress
<1> QED  BY <1>1, <1>2, PTL DEF GSpec

(* Whatever the server and the stream do, and whatever is called between   *)
(* the lines, the server carries the lines out in order, each once and     *)
(* where the gate decided, and none is left out while the client is open   *)
(* (integration.py:467-471).                                               *)
THEOREM LinesGoAsDecided == GSpec => []LinesPlacedAsDecided
<1>1. TransportInv /\ IngressInv => LinesPlacedAsDecided
  BY DEF IngressInv, LinesWent, LinesOfStage, LinesPlacedAsDecided
<1> QED  BY <1>1, TogetherInvariant, PTL

(* The gate goes by occupancies that the server found when exactly the     *)
(* lines before were in, on the lines that sample (integration.py:467).    *)
THEOREM SamplesGoFirst == GSpec => []SamplesAreCurrent
<1>1. IngressInv => SamplesAreCurrent
  BY DEF IngressInv, SamplesUsed, SamplesAreCurrent
<1> QED  BY <1>1, TogetherInvariant, PTL

(* What was proved of the gate and of the client each by itself holds of   *)
(* them together.                                                          *)
THEOREM PartsStand ==
    GSpec => /\ []PushesFollowSamples /\ []ControlWritesAlternate
             /\ []CountsMatchServer /\ ImplementsCalls
<1>1. IndInv /\ AlternateInv => PushesFollowSamples /\ ControlWritesAlternate
  BY AlternateInvShows DEF IndInv
<1>2. TransportInv /\ CountsAgree => CountsMatchServer
  BY CountsAgreeShows
<1>3. TransportInit => Abstract!Init
  BY InitRefines
<1>4. IndInv /\ TransportInv /\ IngressInv /\ [GNext]_gvars
        => [Abstract!Next]_<<calls, performed>>
  BY StepOfParts, StepRefines
<1> QED
  BY <1>1, <1>2, <1>3, <1>4, TogetherInvariant, PTL
     DEF GSpec, GInit, ImplementsCalls, Abstract!Spec
================================================================================
