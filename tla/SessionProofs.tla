----------------------------- MODULE SessionProofs ----------------------------
(***************************************************************************)
(* The safety of Session for every set of connections, of names, passwords *)
(* and texts, and every size of the caches.                                *)
(***************************************************************************)
EXTENDS Session, SequenceTheorems, FiniteSetTheorems, TLAPS

Receiving == WithPayload \cup {"read"}
Items == Headers \cup UNION {PayloadsOf(op) : op \in Receiving}
Posted == [id : Nat, sender : Usernames, text : Texts]

\* What the proofs need of the types.
Types ==
  /\ at \in [Conns -> {"away", "header"} \cup Receiving]
  /\ is_logged \in [Conns -> BOOLEAN]
  /\ user \in [Conns -> Usernames \cup {NoName}]
  /\ in \in [Conns -> Seq(Items)]
  /\ due \in [Conns -> {"none"} \cup Receiving]
  /\ ended \in [Conns -> BOOLEAN]
  /\ accounts \subseteq AuthPayload
  /\ board \in Seq(Posted)
  /\ next_message_id \in Nat

\* FramesInStep, connection by connection.
InStep(c) ==
  at[c] # "away" =>
    /\ \A k \in 1 .. Len(in[c]) : in[c][k] \in Expected(Owed(c, k))
    /\ ~ended[c] => due[c] = Owed(c, Len(in[c]) + 1)

IInv == Types /\ FramesInStep /\ SenderHasAccount

-------------------------------------------------------------------------------
(* What travels on a connection. *)

\* An item where a payload is expected is one, whole or in part, and what recv_all makes
\* of it is a structure of the operation.
LEMMA PayloadFacts ==
  ASSUME NEW op \in Receiving, NEW item \in PayloadsOf(op)
  PROVE  /\ item \in Items
         /\ item.kind # "header"
         /\ Follows(item) = "none"
         /\ recv_all(item, op) \subseteq Payloads(op)
<1>1. item \in Items
  BY DEF Items
<1>2. item = Part \/ \E data \in Payloads(op) : item = Payload(data)
  BY DEF PayloadsOf
<1>3. item.kind # "header"
  BY <1>2 DEF Part, Payload
<1>4. Follows(item) = "none"
  BY <1>3 DEF Follows
<1>5. recv_all(item, op) \subseteq Payloads(op)
  BY <1>2 DEF recv_all, Payload
<1>6. QED
  BY <1>1, <1>3, <1>4, <1>5

\* Where no payload is owed a header comes, and the other way round.
LEMMA ExpectedFacts ==
  /\ Expected("none") = Headers /\ Headers \subseteq Items
  /\ \A op \in Receiving : Expected(op) = PayloadsOf(op)
  /\ \A op \in Operations, fits \in BOOLEAN :
       /\ Header(op, fits) \in Headers
       /\ Header(op, fits).op = op /\ Header(op, fits).fits = fits
       /\ Header(op, fits).kind = "header"
  /\ \A item : Follows(item) \in {"none"} \cup Receiving
<1>1. "none" \notin Receiving
  BY DEF Receiving, WithPayload
<1>2. \A op \in Receiving : Expected(op) = PayloadsOf(op)
  BY <1>1 DEF Expected
<1>3. Expected("none") = Headers /\ Headers \subseteq Items
  BY DEF Expected, Items
<1>4. ASSUME NEW op \in Operations, NEW fits \in BOOLEAN
      PROVE  /\ Header(op, fits) \in Headers
             /\ Header(op, fits).op = op /\ Header(op, fits).fits = fits
             /\ Header(op, fits).kind = "header"
  BY <1>4 DEF Header, Headers
<1>5. \A item : Follows(item) \in {"none"} \cup Receiving
  BY DEF Follows, Receiving
<1>6. QED
  BY <1>2, <1>3, <1>4, <1>5

\* FramesInStep is InStep of every connection, before a step and after it.
LEMMA FramesAreInStep ==
  /\ FramesInStep <=> \A c \in Conns : InStep(c)
  /\ FramesInStep' <=> \A c \in Conns : InStep(c)'
BY DEF FramesInStep, InStep

\* A connection that a step leaves alone stays in step.
LEMMA OthersStay ==
  ASSUME NEW c \in Conns, InStep(c),
         at'[c] = at[c], in'[c] = in[c], due'[c] = due[c], ended'[c] = ended[c]
  PROVE  InStep(c)'
BY DEF InStep, Owed

\* The worker that has taken an item and then expects what the item announces is in step.
LEMMA ConsumeKeepsStep ==
  ASSUME Types, NEW c \in Conns, InStep(c), at[c] # "away", in[c] # <<>>,
         Consume(c), due' = due, ended' = ended,
         at'[c] # "away",
         Follows(Head(in[c])) = IF at'[c] = "header" THEN "none" ELSE at'[c]
  PROVE  InStep(c)'
<1>1. /\ in[c] \in Seq(Items) /\ in'[c] = Tail(in[c]) /\ Head(in[c]) = in[c][1]
      /\ Len(in[c]) \in Nat /\ Len(in[c]) # 0
  BY DEF Types, Consume
<1>2. /\ Len(in'[c]) = Len(in[c]) - 1
      /\ \A k \in 1 .. Len(in'[c]) : in'[c][k] = in[c][k + 1]
  BY <1>1, HeadTailProperties
<1>3. ASSUME NEW k \in 1 .. Len(in'[c]) + 1
      PROVE  Owed(c, k)' = Owed(c, k + 1)
  <2>1. Owed(c, k + 1) = Follows(in[c][k])
    BY <1>1, <1>2, <1>3 DEF Owed
  <2>2. CASE k = 1
    BY <1>1, <2>1, <2>2 DEF Owed
  <2>3. CASE k # 1
    <3>1. k - 1 \in 1 .. Len(in'[c]) /\ (k - 1) + 1 = k
      BY <1>1, <1>2, <1>3, <2>3
    <3>2. in'[c][k - 1] = in[c][k]
      BY <1>2, <3>1
    <3>3. Owed(c, k)' = Follows(in'[c][k - 1])
      BY <2>3 DEF Owed
    <3>4. QED
      BY <2>1, <3>2, <3>3
  <2>4. QED
    BY <2>2, <2>3
<1>4. ASSUME NEW k \in 1 .. Len(in'[c]) PROVE in'[c][k] \in Expected(Owed(c, k))'
  <2>1. k + 1 \in 1 .. Len(in[c]) /\ k \in 1 .. Len(in'[c]) + 1
    BY <1>1, <1>2, <1>4
  <2>2. in[c][k + 1] \in Expected(Owed(c, k + 1))
    BY <2>1 DEF InStep
  <2>3. Expected(Owed(c, k))' = Expected(Owed(c, k + 1))
    BY <1>3, <2>1 DEF Expected
  <2>4. QED
    BY <1>2, <2>1, <2>2, <2>3
<1>5. ~ended[c] => due[c] = Owed(c, Len(in[c]) + 1)'
  <2>1. PICK n \in 1 .. Len(in'[c]) + 1 : n = Len(in'[c]) + 1 /\ n + 1 = Len(in[c]) + 1
    BY <1>1, <1>2
  <2>2. Owed(c, n)' = Owed(c, Len(in[c]) + 1)
    BY <1>3, <2>1
  <2>3. Owed(c, Len(in[c]) + 1)' = Owed(c, n)'
    BY <2>1 DEF Owed
  <2>4. QED
    BY <2>2, <2>3 DEF InStep
<1>6. QED
  BY <1>4, <1>5 DEF InStep

\* What a header announces.
LEMMA HeaderFollows ==
  \A op \in Operations, fits \in BOOLEAN :
    Follows(Header(op, fits)) =
      IF (op \in WithPayload /\ fits) \/ (op = "read" /\ ~fits) THEN op ELSE "none"
BY ExpectedFacts DEF Follows

\* The worker of one connection takes an item and goes on to x, what the item announces.
GoesOn(c, x) ==
  /\ at[c] # "away" /\ in[c] # <<>> /\ at' = [at EXCEPT ![c] = x]
  /\ Follows(Head(in[c])) = IF x = "header" THEN "none" ELSE x

Takes(c) ==
  /\ Consume(c) /\ UNCHANGED <<due, ended>>
  /\ \E x \in {"header"} \cup Receiving : GoesOn(c, x)

\* The other connections are as before.
LEMMA TakeStep ==
  ASSUME IInv, NEW c \in Conns, Takes(c)
  PROVE  /\ FramesInStep'
         /\ at' \in [Conns -> {"away", "header"} \cup Receiving]
         /\ in' \in [Conns -> Seq(Items)]
<1>1. PICK x \in {"header"} \cup Receiving : GoesOn(c, x)
  BY DEF Takes
<1>2. /\ Consume(c) /\ UNCHANGED <<due, ended>>
      /\ at[c] # "away" /\ in[c] # <<>> /\ at' = [at EXCEPT ![c] = x]
      /\ Follows(Head(in[c])) = IF x = "header" THEN "none" ELSE x
  BY <1>1 DEF Takes, GoesOn
<1>3. Types
  BY DEF IInv
<1>4. at'[c] = x /\ x # "away"
  BY <1>2, <1>3 DEF Types, Receiving, WithPayload
<1>5. in' \in [Conns -> Seq(Items)]
  <2>1. Tail(in[c]) \in Seq(Items)
    BY <1>2, <1>3 DEF Types
  <2>2. QED
    BY <1>2, <1>3, <2>1 DEF Types, Consume
<1>6. InStep(c)'
  BY <1>2, <1>3, <1>4, FramesAreInStep, ConsumeKeepsStep DEF IInv
<1>7. ASSUME NEW d \in Conns, d # c PROVE InStep(d)'
  BY <1>2, <1>3, <1>7, FramesAreInStep, OthersStay DEF IInv, Types, Consume
<1>8. QED
  BY <1>2, <1>3, <1>5, <1>6, <1>7, FramesAreInStep DEF Types

\* Sessions and stores that stay as they are.
LEMMA StoresStay ==
  ASSUME IInv, UNCHANGED <<session, stores>>
  PROVE  SenderHasAccount'
BY DEF IInv, SenderHasAccount, session, stores

\* The first item is a header.
LEMMA HeaderFacts ==
  ASSUME NEW c, NEW op \in Operations, NEW fits \in BOOLEAN, HeaderIs(c, op, fits)
  PROVE  /\ at[c] = "header" /\ in[c] # <<>>
         /\ Follows(Head(in[c])) =
              IF (op \in WithPayload /\ fits) \/ (op = "read" /\ ~fits) THEN op ELSE "none"
BY HeaderFollows DEF HeaderIs, FirstItem

\* Requests decided on the header: whatever the worker receives next is what it announced.
LEMMA HeaderStep ==
  ASSUME IInv, NEW c \in Conns,
         \/ RefuseSize(c) \/ RefuseAnonymous(c) \/ AcceptRequest(c)
         \/ process_logout(c) \/ process_read_msg(c) \/ UnknownRequest(c)
  PROVE  Takes(c)
<1>1. Consume(c) /\ UNCHANGED <<due, ended>>
  BY DEF RefuseSize, RefuseAnonymous, AcceptRequest, process_logout, process_read_msg,
         UnknownRequest
<1>2. at[c] = "header" => [at EXCEPT ![c] = "header"] = at
  BY DEF IInv, Types
<1>3. /\ WithPayload \subseteq Operations /\ WithPayload \subseteq Receiving
      /\ "header" \notin Receiving /\ "read" \notin WithPayload
      /\ {"logout", "read", "unknown"} \subseteq Operations /\ "read" \in Receiving
      /\ "logout" \notin WithPayload /\ "unknown" \notin WithPayload
  BY DEF WithPayload, Operations, Receiving
<1>4. CASE RefuseSize(c)
  <2>1. GoesOn(c, "header")
    BY <1>2, <1>3, <1>4, HeaderFacts DEF GoesOn, RefuseSize
  <2>2. QED
    BY <1>1, <2>1 DEF Takes
<1>5. CASE RefuseAnonymous(c)
  <2>1. PICK op \in {"post", "delete"} :
          \/ HeaderIs(c, op, TRUE) /\ ThrowAway(c, op)
          \/ HeaderIs(c, op, FALSE) /\ UNCHANGED at
    BY <1>5 DEF RefuseAnonymous
  <2>2. op \in WithPayload
    BY DEF WithPayload
  <2>3. GoesOn(c, op) \/ GoesOn(c, "header")
    BY <1>2, <1>3, <2>1, <2>2, HeaderFacts DEF GoesOn, ThrowAway
  <2>4. QED
    BY <1>1, <1>3, <2>2, <2>3 DEF Takes
<1>6. CASE AcceptRequest(c)
  <2>1. PICK op \in WithPayload : HeaderIs(c, op, TRUE) /\ at' = [at EXCEPT ![c] = op]
    BY <1>6 DEF AcceptRequest
  <2>2. GoesOn(c, op)
    BY <1>3, <2>1, HeaderFacts DEF GoesOn
  <2>3. QED
    BY <1>1, <1>3, <2>2 DEF Takes
<1>7. CASE process_logout(c) \/ UnknownRequest(c)
  <2>1. GoesOn(c, "header")
    BY <1>2, <1>3, <1>7, HeaderFacts DEF GoesOn, process_logout, UnknownRequest
  <2>2. QED
    BY <1>1, <2>1 DEF Takes
<1>8. CASE process_read_msg(c)
  <2>1. GoesOn(c, "read") \/ GoesOn(c, "header")
    BY <1>2, <1>3, <1>8, HeaderFacts DEF GoesOn, process_read_msg
  <2>2. QED
    BY <1>1, <1>3, <2>1 DEF Takes
<1>9. QED
  BY <1>4, <1>5, <1>6, <1>7, <1>8

\* What a worker receives next is a payload of the operation it is in.
LEMMA NextItem ==
  ASSUME IInv, NEW c \in Conns, NEW op \in Receiving, at[c] = op, in[c] # <<>>
  PROVE  Head(in[c]) \in PayloadsOf(op)
<1>1. in[c] \in Seq(Items) /\ 1 \in 1 .. Len(in[c]) /\ Head(in[c]) = in[c][1]
  BY DEF IInv, Types
<1>2. op # "header" /\ op # "away"
  BY DEF Receiving, WithPayload
<1>3. in[c][1] \in Expected(op)
  BY <1>1, <1>2 DEF IInv, FramesInStep, Owed
<1>4. QED
  BY <1>1, <1>3, ExpectedFacts

\* The requests carried out on the payload, and the payloads thrown away.
LEMMA PayloadStep ==
  ASSUME IInv, NEW c \in Conns, NEW op \in Receiving, at[c] = op, in[c] # <<>>,
         Consume(c), NextHeader(c), UNCHANGED <<due, ended>>
  PROVE  /\ Takes(c)
         /\ recv_all(FirstItem(c), op) \subseteq Payloads(op)
<1>1. Head(in[c]) \in PayloadsOf(op)
  BY NextItem
<1>2. Follows(Head(in[c])) = "none" /\ recv_all(FirstItem(c), op) \subseteq Payloads(op)
  BY <1>1, PayloadFacts DEF FirstItem
<1>3. at[c] # "away" /\ at' = [at EXCEPT ![c] = "header"]
  BY DEF Receiving, WithPayload, NextHeader
<1>4. QED
  BY <1>2, <1>3 DEF Takes, GoesOn

-------------------------------------------------------------------------------
(* The connections: what begins, grows and ends them. *)

\* Nothing comes any more, so nothing is out of step.
LEMMA EndStep ==
  ASSUME IInv, NEW c \in Conns, NoPayload(c) \/ Close(c)
  PROVE  /\ FramesInStep'
         /\ at' \in [Conns -> {"away", "header"} \cup Receiving]
<1>1. /\ in[c] = <<>> /\ ended[c] /\ UNCHANGED <<in, due, ended>>
      /\ at' = [at EXCEPT ![c] = "header"] \/ at' = [at EXCEPT ![c] = "away"]
  BY DEF NoPayload, Close, NothingComes, NextHeader, stream
<1>2. InStep(c)'
  BY <1>1 DEF InStep
<1>3. \A d \in Conns : d # c => InStep(d)'
  BY <1>1, FramesAreInStep, OthersStay DEF IInv, Types
<1>4. QED
  BY <1>1, <1>2, <1>3, FramesAreInStep DEF IInv, Types

\* A new connection carries nothing yet.
LEMMA OpenStep ==
  ASSUME IInv, NEW c \in Conns, Open(c)
  PROVE  IInv'
<1>1. /\ at' = [at EXCEPT ![c] = "header"] /\ in' = [in EXCEPT ![c] = <<>>]
      /\ due' = [due EXCEPT ![c] = "none"] /\ ended' = [ended EXCEPT ![c] = FALSE]
      /\ UNCHANGED <<session, stores>>
  BY DEF Open
<1>2. Types
  BY DEF IInv
<1>3. /\ in' \in [Conns -> Seq(Items)]
      /\ at' \in [Conns -> {"away", "header"} \cup Receiving]
      /\ due' \in [Conns -> {"none"} \cup Receiving] /\ ended' \in [Conns -> BOOLEAN]
  BY <1>1, <1>2 DEF Types
<1>4. Types'
  BY <1>1, <1>2, <1>3 DEF Types, session, stores
<1>5. InStep(c)'
  BY <1>1, <1>2 DEF InStep, Owed, Types
<1>6. \A d \in Conns : d # c => InStep(d)'
  BY <1>1, <1>2, FramesAreInStep, OthersStay DEF IInv, Types
<1>7. QED
  BY <1>1, <1>4, <1>5, <1>6, FramesAreInStep, StoresStay DEF IInv

\* The client sends what it owes, and owes what follows.
LEMMA AppendKeepsStep ==
  ASSUME Types, NEW c \in Conns, InStep(c), ~ended[c],
         NEW item \in Expected(due[c]), item \in Items,
         in' = [in EXCEPT ![c] = Append(@, item)],
         due' = [due EXCEPT ![c] = Follows(item)], UNCHANGED <<at, ended>>
  PROVE  InStep(c)'
<1>1. /\ in[c] \in Seq(Items) /\ Len(in[c]) \in Nat
      /\ in'[c] = Append(in[c], item) /\ due'[c] = Follows(item)
  BY DEF Types
<1>2. /\ Len(in'[c]) = Len(in[c]) + 1 /\ in'[c][Len(in[c]) + 1] = item
      /\ \A k \in 1 .. Len(in[c]) : in'[c][k] = in[c][k]
  BY <1>1, AppendProperties
<1> SUFFICES ASSUME at[c] # "away"
             PROVE  /\ \A k \in 1 .. Len(in'[c]) : in'[c][k] \in Expected(Owed(c, k))'
                    /\ due'[c] = Owed(c, Len(in[c]) + 1)'
  BY DEF InStep
<1>3. ASSUME NEW k \in 1 .. Len(in[c]) + 1 PROVE Owed(c, k)' = Owed(c, k)
  <2>1. CASE k = 1
    BY <2>1 DEF Owed
  <2>2. CASE k # 1
    <3>1. k - 1 \in 1 .. Len(in[c])
      BY <1>1, <1>3, <2>2
    <3>2. QED
      BY <1>2, <2>2, <3>1 DEF Owed
  <2>3. QED
    BY <2>1, <2>2
<1>4. due[c] = Owed(c, Len(in[c]) + 1)
  BY DEF InStep
<1>5. ASSUME NEW k \in 1 .. Len(in'[c]) PROVE in'[c][k] \in Expected(Owed(c, k))'
  <2>1. Expected(Owed(c, k))' = Expected(Owed(c, k))
    BY <1>1, <1>2, <1>3, <1>5 DEF Expected
  <2>2. CASE k \in 1 .. Len(in[c])
    BY <1>2, <2>1, <2>2 DEF InStep
  <2>3. CASE k = Len(in[c]) + 1
    BY <1>2, <1>4, <2>1, <2>3
  <2>4. QED
    BY <1>1, <1>2, <1>5, <2>2, <2>3
<1>6. due'[c] = Owed(c, Len(in[c]) + 1)'
  <2>1. Len(in'[c]) + 1 # 1 /\ in'[c][(Len(in'[c]) + 1) - 1] = item
    BY <1>1, <1>2
  <2>2. QED
    BY <1>1, <2>1 DEF Owed
<1>7. QED
  BY <1>5, <1>6

\* A header where none of a payload is due, or the payload that is.
LEMMA SendStep ==
  ASSUME IInv, NEW c \in Conns,
         \/ \E op \in Operations, fits \in BOOLEAN : SendHeader(c, op, fits)
         \/ \E data \in Composed(due[c]) : SendPayload(c, data)
  PROVE  IInv'
<1>1. Types /\ InStep(c)
  BY FramesAreInStep DEF IInv
<1>2. PICK item \in Items :
        /\ item \in Expected(due[c]) /\ ~ended[c]
        /\ in' = [in EXCEPT ![c] = Append(@, item)]
        /\ due' = [due EXCEPT ![c] = Follows(item)]
  <2>1. ASSUME NEW op \in Operations, NEW fits \in BOOLEAN, SendHeader(c, op, fits)
        PROVE  /\ Header(op, fits) \in Items /\ Header(op, fits) \in Expected(due[c])
               /\ ~ended[c] /\ in' = [in EXCEPT ![c] = Append(@, Header(op, fits))]
               /\ due' = [due EXCEPT ![c] = Follows(Header(op, fits))]
    BY <2>1, ExpectedFacts DEF SendHeader, CanAsk
  <2>2. ASSUME NEW data \in Composed(due[c]), SendPayload(c, data)
        PROVE  /\ Payload(data) \in Items /\ Payload(data) \in Expected(due[c])
               /\ ~ended[c] /\ in' = [in EXCEPT ![c] = Append(@, Payload(data))]
               /\ due' = [due EXCEPT ![c] = Follows(Payload(data))]
    <3>1. due[c] \in Receiving /\ due[c] # "none"
      BY <1>1, <2>2 DEF Types, Composed, Receiving, WithPayload
    <3>2. data \in Payloads(due[c])
      BY <2>2, <3>1, SessionAssumption DEF Composed, Payloads, MessagePayload
    <3>3. Payload(data) \in PayloadsOf(due[c])
      BY <3>2 DEF PayloadsOf
    <3>4. Payload(data) \in Items /\ Follows(Payload(data)) = "none"
      BY <3>1, <3>3, PayloadFacts
    <3>5. Payload(data) \in Expected(due[c])
      BY <3>1, <3>3, ExpectedFacts
    <3>6. QED
      BY <2>2, <3>4, <3>5 DEF SendPayload
  <2>3. QED
    BY <2>1, <2>2
<1>3. UNCHANGED <<at, session, ended, stores>>
  BY DEF SendHeader, SendPayload
<1>4. InStep(c)'
  BY <1>1, <1>2, <1>3, AppendKeepsStep
<1>5. \A d \in Conns : d # c => InStep(d)'
  BY <1>1, <1>2, <1>3, FramesAreInStep, OthersStay DEF IInv, Types
<1>6. Types'
  <2>1. Append(in[c], item) \in Seq(Items)
    BY <1>1, <1>2 DEF Types
  <2>2. in' \in [Conns -> Seq(Items)]
    BY <1>1, <1>2, <2>1 DEF Types
  <2>3. due' \in [Conns -> {"none"} \cup Receiving]
    BY <1>1, <1>2, ExpectedFacts DEF Types
  <2>4. QED
    BY <1>1, <1>3, <2>2, <2>3 DEF Types, session, stores
<1>7. QED
  BY <1>3, <1>4, <1>5, <1>6, FramesAreInStep, StoresStay DEF IInv

\* A reply that is read concerns nothing that is sent.
LEMMA TakeReplyStep ==
  ASSUME IInv, NEW c \in Conns, TakeReply(c)
  PROVE  IInv'
<1>1. UNCHANGED <<at, session, in, due, ended, stores>>
  BY DEF TakeReply
<1>2. Types'
  BY <1>1 DEF IInv, Types, session, stores
<1>3. FramesInStep'
  BY <1>1, FramesAreInStep, OthersStay DEF IInv
<1>4. QED
  BY <1>1, <1>2, <1>3, StoresStay DEF IInv

\* What is left of the stream is the beginning of what was sent; a payload that is cut
\* still is where a payload is expected.
LEMMA ConnectionEndsStep ==
  ASSUME IInv, NEW c \in Conns, ConnectionEnds(c)
  PROVE  IInv'
<1>1. Types /\ InStep(c) /\ at[c] # "away" /\ in[c] \in Seq(Items) /\ Len(in[c]) \in Nat
  BY FramesAreInStep DEF IInv, Types, ConnectionEnds
<1>2. /\ ended' = [ended EXCEPT ![c] = TRUE] /\ due' = [due EXCEPT ![c] = "none"]
      /\ UNCHANGED <<at, session, stores>>
  BY DEF ConnectionEnds
<1>3. PICK n \in 0 .. Len(in[c]) :
        \/ in' = [in EXCEPT ![c] = SubSeq(@, 1, n)]
        \/ /\ n < Len(in[c]) /\ in[c][n + 1].kind = "payload"
           /\ in' = [in EXCEPT ![c] = Append(SubSeq(@, 1, n), Part)]
  BY DEF ConnectionEnds
<1>4. /\ SubSeq(in[c], 1, n) \in Seq(Items) /\ Len(SubSeq(in[c], 1, n)) = n
      /\ \A k \in 1 .. n : SubSeq(in[c], 1, n)[k] = in[c][k]
  BY <1>1, <1>3, SubSeqProperties
<1>5. /\ in' \in [Conns -> Seq(Items)] /\ Len(in'[c]) \in {n, n + 1}
      /\ \A k \in 1 .. n : in'[c][k] = in[c][k]
      /\ Len(in'[c]) = n + 1 =>
           n < Len(in[c]) /\ in[c][n + 1].kind = "payload" /\ in'[c][n + 1] = Part
  <2>1. CASE in' = [in EXCEPT ![c] = SubSeq(@, 1, n)]
    <3>1. in'[c] = SubSeq(in[c], 1, n)
      BY <1>1, <2>1 DEF Types
    <3>2. in' \in [Conns -> Seq(Items)]
      BY <1>1, <1>4, <2>1 DEF Types
    <3>3. n # n + 1
      OBVIOUS
    <3>4. QED
      BY <1>4, <3>1, <3>2, <3>3
  <2>2. CASE /\ n < Len(in[c]) /\ in[c][n + 1].kind = "payload"
             /\ in' = [in EXCEPT ![c] = Append(SubSeq(@, 1, n), Part)]
    <3>1. Part \in Items
      BY DEF Items, PayloadsOf, Receiving
    <3>2. in'[c] = Append(SubSeq(in[c], 1, n), Part)
      BY <1>1, <2>2 DEF Types
    <3>3. /\ Append(SubSeq(in[c], 1, n), Part) \in Seq(Items)
          /\ Len(in'[c]) = n + 1 /\ in'[c][n + 1] = Part
          /\ \A k \in 1 .. n : in'[c][k] = in[c][k]
      BY <1>4, <3>1, <3>2, AppendProperties
    <3>4. in' \in [Conns -> Seq(Items)]
      BY <1>1, <2>2, <3>3 DEF Types
    <3>5. QED
      BY <2>2, <3>3, <3>4
  <2>3. QED
    BY <1>3, <2>1, <2>2
<1>6. ASSUME NEW k \in 1 .. n + 1 PROVE Expected(Owed(c, k))' = Expected(Owed(c, k))
  <2>1. CASE k = 1
    BY <1>2, <2>1 DEF Owed, Expected
  <2>2. CASE k # 1
    <3>1. k - 1 \in 1 .. n
      BY <1>6, <2>2
    <3>2. QED
      BY <1>5, <2>2, <3>1 DEF Owed, Expected
  <2>3. QED
    BY <2>1, <2>2
<1>7. ASSUME NEW k \in 1 .. Len(in'[c]) PROVE in'[c][k] \in Expected(Owed(c, k))'
  <2>1. CASE k \in 1 .. n
    <3>1. k \in 1 .. Len(in[c]) /\ k \in 1 .. n + 1
      BY <1>1, <2>1
    <3>2. QED
      BY <1>1, <1>5, <1>6, <2>1, <3>1 DEF InStep
  <2>2. CASE k \notin 1 .. n
    <3>1. k = n + 1 /\ n < Len(in[c]) /\ in[c][k].kind = "payload" /\ in'[c][k] = Part
      BY <1>5, <1>7, <2>2
    <3>2. k \in 1 .. Len(in[c]) /\ k \in 1 .. n + 1
      BY <1>1, <3>1
    <3>3. in[c][k] \in Expected(Owed(c, k))
      BY <1>1, <3>2 DEF InStep
    <3>4. Owed(c, k) # "none"
      <4>1. in[c][k] \notin Headers
        BY <3>1 DEF Headers
      <4>2. QED
        BY <3>3, <4>1 DEF Expected
    <3>5. Part \in Expected(Owed(c, k))
      BY <3>4 DEF Expected, PayloadsOf
    <3>6. QED
      BY <1>6, <3>1, <3>2, <3>5
  <2>3. QED
    BY <2>1, <2>2
<1>8. InStep(c)'
  BY <1>1, <1>2, <1>7 DEF InStep, Types
<1>9. \A d \in Conns : d # c => InStep(d)'
  BY <1>1, <1>2, <1>3, FramesAreInStep, OthersStay DEF IInv, Types
<1>10. Types'
  BY <1>1, <1>2, <1>5 DEF Types, session, stores
<1>11. QED
  BY <1>2, <1>8, <1>9, <1>10, FramesAreInStep, StoresStay DEF IInv

-------------------------------------------------------------------------------
(* The sessions and the caches. *)

\* Logging in as the owner of an account, or out, keeps the sessions right.
LEMMA SetSessionStep ==
  ASSUME IInv, NEW c \in Conns, NEW logged \in BOOLEAN, NEW name \in Usernames \cup {NoName},
         SetSession(c, logged, name),
         accounts \subseteq accounts', accounts' \subseteq AuthPayload,
         logged => \E a \in accounts' : a.username = name,
         UNCHANGED board
  PROVE  /\ SenderHasAccount'
         /\ is_logged' \in [Conns -> BOOLEAN] /\ user' \in [Conns -> Usernames \cup {NoName}]
<1>1. /\ is_logged' = [is_logged EXCEPT ![c] = logged]
      /\ user' = [user EXCEPT ![c] = name]
  BY DEF SetSession
<1>2. is_logged' \in [Conns -> BOOLEAN] /\ user' \in [Conns -> Usernames \cup {NoName}]
  BY <1>1 DEF IInv, Types
<1>3. ASSUME NEW d \in Conns, is_logged'[d] PROVE user'[d] \in {a.username : a \in accounts'}
  BY <1>1, <1>3 DEF IInv, Types, SenderHasAccount
<1>4. \A k \in 1 .. Len(board) : board[k].sender \in {a.username : a \in accounts'}
  BY DEF IInv, SenderHasAccount
<1>5. QED
  BY <1>2, <1>3, <1>4 DEF SenderHasAccount

\* Someone who is logged in adds a message of his own.
LEMMA SaveStep ==
  ASSUME IInv, NEW c \in Conns, is_logged[c], NEW text \in Texts,
         save_message(user[c], text), UNCHANGED <<session, accounts>>
  PROVE  /\ SenderHasAccount'
         /\ board' \in Seq(Posted) /\ next_message_id' \in Nat
         /\ \A k \in 1 .. Len(board) : k \in 1 .. Len(board') /\ board'[k] = board[k]
<1> DEFINE new == [id |-> next_message_id, sender |-> user[c], text |-> text]
<1>1. board' = Append(board, new) /\ next_message_id' = next_message_id + 1
  BY DEF save_message, NewId
<1>2. \E a \in accounts : user[c] = a.username
  BY DEF IInv, SenderHasAccount
<1>3. new \in Posted
  <2>1. user[c] \in Usernames
    BY <1>2 DEF IInv, Types, AuthPayload
  <2>2. QED
    BY <2>1 DEF IInv, Types, Posted
<1>4. board \in Seq(Posted) /\ Len(board) \in Nat
  BY DEF IInv, Types
<1>5. /\ board' \in Seq(Posted) /\ Len(board') = Len(board) + 1
      /\ board'[Len(board) + 1] = new /\ \A k \in 1 .. Len(board) : board'[k] = board[k]
  BY <1>1, <1>3, <1>4, AppendProperties
<1>6. ASSUME NEW k \in 1 .. Len(board') PROVE board'[k].sender \in {a.username : a \in accounts}
  <2>1. k \in 1 .. Len(board) \/ k = Len(board) + 1
    BY <1>4, <1>5, <1>6
  <2>2. new.sender = user[c]
    OBVIOUS
  <2>3. QED
    BY <1>2, <1>5, <2>1, <2>2 DEF IInv, SenderHasAccount
<1>7. SenderHasAccount'
  BY <1>6 DEF IInv, SenderHasAccount, session
<1>8. QED
  BY <1>1, <1>4, <1>5, <1>7 DEF IInv, Types

\* delete_message takes one message, which is his, and leaves all others.
LEMMA DeleteStep ==
  ASSUME IInv, NEW id, NEW name, delete_message(id, name), UNCHANGED <<session, accounts>>
  PROVE  /\ SenderHasAccount'
         /\ board' \in Seq(Posted)
         /\ \A k \in 1 .. Len(board) :
              \/ board[k].id = id /\ board[k].sender = name
              \/ \E j \in 1 .. Len(board') : board'[j] = board[k]
<1>1. PICK i \in 1 .. Len(board) : /\ board[i].id = id /\ board[i].sender = name
                                  /\ board' = Without(board, i)
  BY DEF delete_message, IsHis
<1>2. board \in Seq(Posted) /\ Len(board) \in Nat
  BY DEF IInv, Types
<1>3. /\ Len(board') = Len(board) - 1
      /\ \A k \in 1 .. Len(board) - 1 : board'[k] = IF k < i THEN board[k] ELSE board[k + 1]
  BY <1>1, <1>2 DEF Without
<1>4. ASSUME NEW k \in 1 .. Len(board')
      PROVE  \E j \in 1 .. Len(board) : board'[k] = board[j]
  <2>1. k \in 1 .. Len(board) /\ k + 1 \in 1 .. Len(board) /\ k \in 1 .. Len(board) - 1
    BY <1>2, <1>3, <1>4
  <2>2. QED
    BY <1>3, <2>1
<1>5. board' \in Seq(Posted)
  <2>1. \A k \in 1 .. Len(board') : board'[k] \in Posted
    BY <1>2, <1>4, ElementOfSeq
  <2>2. board' = [k \in 1 .. Len(board') |-> board'[k]] /\ Len(board') \in Nat
    BY <1>1, <1>2, <1>3 DEF Without
  <2>3. QED
    BY <2>1, <2>2, IsASeq
<1>6. ASSUME NEW k \in 1 .. Len(board), k # i
      PROVE  \E j \in 1 .. Len(board') : board'[j] = board[k]
  <2>1. CASE k < i
    BY <1>1, <1>2, <1>3, <1>6, <2>1
  <2>2. CASE k > i
    <3>1. k - 1 \in 1 .. Len(board') /\ ~(k - 1 < i) /\ (k - 1) + 1 = k
      BY <1>1, <1>2, <1>3, <1>6, <2>2
    <3>2. QED
      BY <1>3, <3>1
  <2>3. QED
    BY <1>2, <1>6, <2>1, <2>2
<1>7. SenderHasAccount'
  BY <1>4 DEF IInv, SenderHasAccount, session
<1>8. QED
  BY <1>1, <1>5, <1>6, <1>7

\* The session variables and the caches, whatever the request.
LEMMA RequestStores ==
  ASSUME IInv, NEW c \in Conns,
         \/ RefuseSize(c) \/ RefuseAnonymous(c) \/ AcceptRequest(c) \/ process_read_msg(c)
         \/ UnknownRequest(c) \/ SkipPayload(c) \/ NoPayload(c)
  PROVE  UNCHANGED <<session, stores>>
BY DEF RefuseSize, RefuseAnonymous, AcceptRequest, process_read_msg, UnknownRequest,
       SkipPayload, NoPayload

\* What the handlers prove of everything but the stream.
Kept ==
  /\ SenderHasAccount'
  /\ is_logged' \in [Conns -> BOOLEAN]
  /\ user' \in [Conns -> Usernames \cup {NoName}]
  /\ accounts' \subseteq AuthPayload
  /\ board' \in Seq(Posted)
  /\ next_message_id' \in Nat

\* process_logout, and the end of handle_client.
LEMMA LogoutStep ==
  ASSUME IInv, NEW c \in Conns, process_logout(c) \/ Close(c)
  PROVE  Kept
<1>1. UNCHANGED stores /\ (SetSession(c, FALSE, NoName) \/ UNCHANGED session)
  BY DEF process_logout, Close
<1>2. CASE SetSession(c, FALSE, NoName)
  <2>1. /\ SenderHasAccount'
        /\ is_logged' \in [Conns -> BOOLEAN] /\ user' \in [Conns -> Usernames \cup {NoName}]
    BY <1>1, <1>2, SetSessionStep DEF IInv, Types, stores
  <2>2. QED
    BY <1>1, <2>1 DEF Kept, IInv, Types, stores
<1>3. CASE UNCHANGED session
  BY <1>1, <1>3, StoresStay DEF Kept, IInv, Types, session, stores
<1>4. QED
  BY <1>1, <1>2, <1>3

\* process_login: only the owner of an account gets in.
LEMMA LoginStep ==
  ASSUME IInv, NEW c \in Conns, process_login(c), Received(c, "login") \subseteq AuthPayload
  PROVE  Kept
<1>1. UNCHANGED stores
  BY DEF process_login
<1>2. PICK a \in AuthPayload :
        \/ a \in accounts /\ SetSession(c, TRUE, a.username)
        \/ SetSession(c, FALSE, NoName)
  BY DEF process_login, authenticate_user
<1>3. a.username \in Usernames
  BY DEF AuthPayload
<1>4. /\ SenderHasAccount'
      /\ is_logged' \in [Conns -> BOOLEAN] /\ user' \in [Conns -> Usernames \cup {NoName}]
  BY <1>1, <1>2, <1>3, SetSessionStep DEF IInv, Types, stores
<1>5. QED
  BY <1>1, <1>4 DEF Kept, IInv, Types, stores

\* process_register: a new account, whose owner is in, or a refusal, after which nobody is.
LEMMA RegisterStep ==
  ASSUME IInv, NEW c \in Conns, process_register(c),
         Received(c, "register") \subseteq AuthPayload
  PROVE  Kept
<1>1. UNCHANGED <<board, next_message_id>>
  BY DEF process_register
<1>2. PICK a \in AuthPayload :
        \/ accounts' = accounts \cup {a} /\ SetSession(c, TRUE, a.username)
        \/ UNCHANGED accounts /\ SetSession(c, FALSE, user[c])
  BY DEF process_register
<1>3. a.username \in Usernames /\ user[c] \in Usernames \cup {NoName}
  BY DEF AuthPayload, IInv, Types
<1>4. accounts \subseteq accounts' /\ accounts' \subseteq AuthPayload
  BY <1>2 DEF IInv, Types
<1>5. /\ SenderHasAccount'
      /\ is_logged' \in [Conns -> BOOLEAN] /\ user' \in [Conns -> Usernames \cup {NoName}]
  <2>1. CASE accounts' = accounts \cup {a} /\ SetSession(c, TRUE, a.username)
    BY <1>1, <1>3, <1>4, <2>1, SetSessionStep
  <2>2. CASE UNCHANGED accounts /\ SetSession(c, FALSE, user[c])
    BY <1>1, <1>3, <1>4, <2>2, SetSessionStep
  <2>3. QED
    BY <1>2, <2>1, <2>2
<1>6. QED
  BY <1>1, <1>4, <1>5 DEF Kept, IInv, Types

\* process_post_msg and process_delete_msg.
LEMMA BoardStep ==
  ASSUME IInv, NEW c \in Conns,
         \/ process_post_msg(c) /\ Received(c, "post") \subseteq MessagePayload
         \/ process_delete_msg(c)
  PROVE  Kept
<1>1. UNCHANGED <<session, accounts>> /\ is_logged[c]
  BY DEF process_post_msg, process_delete_msg, session
<1>2. CASE process_post_msg(c) /\ Received(c, "post") \subseteq MessagePayload
  <2>1. PICK p \in MessagePayload :
          save_message(user[c], p.text) \/ UNCHANGED <<board, next_message_id>>
    BY <1>2 DEF process_post_msg
  <2>2. p.text \in Texts
    BY DEF MessagePayload
  <2>3. /\ SenderHasAccount' /\ board' \in Seq(Posted) /\ next_message_id' \in Nat
    BY <1>1, <2>1, <2>2, SaveStep, StoresStay DEF IInv, Types, stores
  <2>4. QED
    BY <1>1, <2>3 DEF Kept, IInv, Types, session
<1>3. CASE process_delete_msg(c)
  <2>1. UNCHANGED next_message_id
    BY <1>3 DEF process_delete_msg
  <2>2. (\E id : delete_message(id, user[c])) \/ UNCHANGED board
    BY <1>3 DEF process_delete_msg
  <2>3. SenderHasAccount' /\ board' \in Seq(Posted)
    BY <1>1, <2>1, <2>2, DeleteStep, StoresStay DEF IInv, Types, stores
  <2>4. QED
    BY <1>1, <2>1, <2>3 DEF Kept, IInv, Types, session
<1>4. QED
  BY <1>2, <1>3

-------------------------------------------------------------------------------
(* The invariant. *)

\* The first session finds empty caches and no connection.
LEMMA InitInv == Init => IInv
<1> SUFFICES ASSUME Init PROVE IInv
  OBVIOUS
<1> USE DEF Init
<1>1. Types
  BY EmptySeq DEF Types
<1>2. FramesInStep
  BY DEF FramesInStep
<1>3. SenderHasAccount
  BY DEF SenderHasAccount
<1>4. QED
  BY <1>1, <1>2, <1>3 DEF IInv

\* A step of a worker, from what it does to the stream and to the rest.
LEMMA HandlerStep ==
  ASSUME IInv, NEW c \in Conns, handle_client(c)
  PROVE  IInv'
<1>1. UNCHANGED <<due, ended>>
  BY DEF handle_client, RefuseSize, RefuseAnonymous, AcceptRequest, process_logout,
         process_read_msg, UnknownRequest, SkipPayload, NoPayload, process_login,
         process_register, process_post_msg, process_delete_msg, Close, stream, vars
<1> DEFINE Framed ==
      /\ FramesInStep'
      /\ at' \in [Conns -> {"away", "header"} \cup Receiving]
      /\ in' \in [Conns -> Seq(Items)]
<1>2. CASE \/ RefuseSize(c) \/ RefuseAnonymous(c) \/ AcceptRequest(c)
           \/ process_read_msg(c) \/ UnknownRequest(c)
  <2>1. Framed /\ Kept
    BY <1>2, HeaderStep, TakeStep, RequestStores, StoresStay
    DEF Kept, IInv, Types, session, stores
  <2>2. QED
    BY <1>1, <2>1 DEF IInv, Types, Kept
<1>3. CASE process_logout(c)
  BY <1>1, <1>3, HeaderStep, TakeStep, LogoutStep DEF IInv, Types, Kept
<1>4. CASE NoPayload(c)
  <2>1. Kept /\ UNCHANGED in
    BY <1>4, RequestStores, StoresStay DEF Kept, IInv, Types, session, stores, NoPayload, stream
  <2>2. QED
    BY <1>1, <1>4, <2>1, EndStep DEF IInv, Types, Kept
<1>5. CASE Close(c)
  <2>1. UNCHANGED in
    BY <1>5 DEF Close, stream
  <2>2. QED
    BY <1>1, <1>5, <2>1, EndStep, LogoutStep DEF IInv, Types, Kept
<1>6. ASSUME NEW op \in WithPayload, Received(c, op) # {}, Consume(c), NextHeader(c)
      PROVE  Framed /\ Received(c, op) \subseteq Payloads(op)
  <2>1. at[c] = op /\ in[c] # <<>> /\ op \in Receiving
    BY <1>6 DEF Received, Receiving
  <2>2. QED
    BY <1>1, <1>6, <2>1, PayloadStep, TakeStep DEF Received
<1>7. CASE SkipPayload(c)
  <2>1. at[c] \in Receiving /\ in[c] # <<>> /\ Consume(c) /\ NextHeader(c)
    BY <1>7 DEF SkipPayload, Receiving, WithPayload
  <2>2. Framed
    BY <1>1, <2>1, PayloadStep, TakeStep
  <2>3. Kept
    BY <1>7, RequestStores, StoresStay DEF Kept, IInv, Types, session, stores
  <2>4. QED
    BY <1>1, <2>2, <2>3 DEF IInv, Types, Kept
<1>8. CASE process_login(c)
  <2>1. Framed /\ Received(c, "login") \subseteq AuthPayload
    BY <1>6, <1>8 DEF process_login, WithPayload, Payloads
  <2>2. QED
    BY <1>1, <1>8, <2>1, LoginStep DEF IInv, Types, Kept
<1>9. CASE process_register(c)
  <2>1. Framed /\ Received(c, "register") \subseteq AuthPayload
    BY <1>6, <1>9 DEF process_register, WithPayload, Payloads
  <2>2. QED
    BY <1>1, <1>9, <2>1, RegisterStep DEF IInv, Types, Kept
<1>10. CASE process_post_msg(c)
  <2>1. Framed /\ Received(c, "post") \subseteq MessagePayload
    BY <1>6, <1>10 DEF process_post_msg, WithPayload, Payloads
  <2>2. QED
    BY <1>1, <1>10, <2>1, BoardStep DEF IInv, Types, Kept
<1>11. CASE process_delete_msg(c)
  <2>1. Framed
    BY <1>6, <1>11 DEF process_delete_msg, WithPayload
  <2>2. QED
    BY <1>1, <1>11, <2>1, BoardStep DEF IInv, Types, Kept
<1>12. QED
  BY <1>2, <1>3, <1>4, <1>5, <1>7, <1>8, <1>9, <1>10, <1>11 DEF handle_client

\* Every step keeps the inductive invariant, actor by actor.
LEMMA StepInv == IInv /\ [Next]_vars => IInv'
<1> SUFFICES ASSUME IInv, [Next]_vars PROVE IInv'
  OBVIOUS
<1>1. CASE UNCHANGED vars
  <2>1. UNCHANGED <<at, session, in, due, ended, stores>>
    BY <1>1 DEF vars, stream
  <2>2. FramesInStep' /\ SenderHasAccount'
    BY <2>1, FramesAreInStep, OthersStay, StoresStay DEF IInv
  <2>3. QED
    BY <2>1, <2>2 DEF IInv, Types, session, stores
<1>2. ASSUME NEW c \in Conns, handle_client(c) PROVE IInv'
  BY <1>2, HandlerStep
<1>3. ASSUME NEW c \in Conns, Open(c) \/ ConnectionEnds(c) PROVE IInv'
  BY <1>3, OpenStep, ConnectionEndsStep
<1>4. ASSUME NEW c \in Conns, Client(c) PROVE IInv'
  <2>1. WithPayload \cup {"read"} \subseteq Operations
    BY DEF Operations
  <2>2. QED
    BY <1>4, <2>1, SendStep, TakeReplyStep DEF Client
<1>5. QED
  BY <1>1, <1>2, <1>3, <1>4 DEF Next

\* The inductive invariant of the sessions.
THEOREM SessionInvariant == Spec => []IInv
<1>1. QED
  BY InitInv, StepInv, PTL DEF Spec

\* The handlers never take a payload for a header or a header for a payload, whatever
\* they refuse on the way.
THEOREM StreamsStayInStep == Spec => []FramesInStep
<1>1. IInv => FramesInStep
  BY DEF IInv
<1>2. QED
  BY <1>1, SessionInvariant, PTL

\* Nobody is logged in, and no message is on the board, without an account.
THEOREM SendersHaveAccounts == Spec => []SenderHasAccount
<1>1. IInv => SenderHasAccount
  BY DEF IInv
<1>2. QED
  BY <1>1, SessionInvariant, PTL

\* A step that takes a message off the board is a delete by a session of its sender.
LEMMA OnlySendersDelete ==
  ASSUME IInv, [Next]_vars, NEW k \in 1 .. Len(board)
  PROVE  \/ \E j \in 1 .. Len(board') : board'[j] = board[k]
         \/ \E c \in Conns : AsksToDelete(c, board[k])
<1>1. CASE UNCHANGED board
  BY <1>1
<1>2. ASSUME NEW c \in Conns, process_post_msg(c), ~UNCHANGED board
      PROVE  \E j \in 1 .. Len(board') : board'[j] = board[k]
  <2>1. PICK p : save_message(user[c], p.text)
    BY <1>2 DEF process_post_msg
  <2>2. board' = Append(board, [id |-> next_message_id, sender |-> user[c], text |-> p.text])
    BY <2>1 DEF save_message, NewId
  <2>3. board \in Seq(Posted)
    BY DEF IInv, Types
  <2>4. Len(board') = Len(board) + 1 /\ board'[k] = board[k] /\ Len(board) \in Nat
    BY <2>2, <2>3
  <2>5. QED
    BY <2>4
<1>3. ASSUME NEW c \in Conns, process_delete_msg(c), ~UNCHANGED board
      PROVE  \/ \E j \in 1 .. Len(board') : board'[j] = board[k]
             \/ AsksToDelete(c, board[k])
  <2>1. /\ at[c] = "delete" /\ is_logged[c] /\ in[c] # <<>>
        /\ Consume(c) /\ NextHeader(c) /\ UNCHANGED <<session, due, ended, accounts>>
    BY <1>3 DEF process_delete_msg, Received
  <2>2. PICK p \in recv_all(FirstItem(c), "delete") : delete_message(p.message_id, user[c])
    BY <1>3 DEF process_delete_msg, Received
  <2>3. p.message_id = board[k].id => FirstItem(c) \in {Payload([message_id |-> board[k].id]), Part}
    <3>1. p \in [message_id : 1 .. MaxId]
      BY <2>1, <2>2, PayloadStep DEF Payloads, DeletePayload, Receiving, WithPayload
    <3>2. FirstItem(c) \in PayloadsOf("delete")
      BY <2>1, NextItem DEF FirstItem, Receiving, WithPayload
    <3>3. FirstItem(c) # Part => FirstItem(c) = Payload(p)
      BY <2>2, <3>2 DEF PayloadsOf, recv_all, Payload
    <3>4. p = [message_id |-> p.message_id]
      BY <3>1
    <3>5. QED
      BY <3>3, <3>4
  <2>4. QED
    BY <2>1, <2>2, <2>3, DeleteStep DEF AsksToDelete
<1>4. ASSUME NEW c \in Conns, handle_client(c), ~process_post_msg(c), ~process_delete_msg(c)
      PROVE  UNCHANGED board
  BY <1>4 DEF handle_client, RefuseSize, RefuseAnonymous, AcceptRequest, process_logout,
         process_read_msg, UnknownRequest, SkipPayload, NoPayload, process_login,
         process_register, Close, stores
<1>5. ASSUME NEW c \in Conns, Open(c) \/ Client(c) \/ ConnectionEnds(c)
      PROVE  UNCHANGED board
  BY <1>5 DEF Open, Client, SendHeader, SendPayload, TakeReply, ConnectionEnds, stores
<1>6. CASE UNCHANGED vars
  BY <1>1, <1>6 DEF vars, stores
<1>7. QED
  BY <1>1, <1>2, <1>3, <1>4, <1>5, <1>6 DEF Next

\* In every execution a message leaves the board only at its sender's request, for its number.
THEOREM DeletionsAreTheSenders == Spec => DeletedByItsSender
<1>1. IInv /\ [Next]_vars =>
        [\A k \in 1 .. Len(board) :
           \/ \E j \in 1 .. Len(board') : board'[j] = board[k]
           \/ \E c \in Conns : AsksToDelete(c, board[k])]_vars
  BY OnlySendersDelete
<1>2. QED
  BY <1>1, SessionInvariant, PTL DEF Spec, DeletedByItsSender

-------------------------------------------------------------------------------
(* The types in full.  That a number below MaxId is left for every message rests on the   *)
(* posts that are under way: each takes one number, and a connection has one at a time.   *)

APost == Header("post", TRUE)

Posters == {d \in Conns : Posting(d)}

InTurn(c) ==
  /\ \A j, k \in 1 .. Len(in[c]) : in[c][j] = APost /\ in[c][k] = APost => j = k
  /\ at[c] = "post" => \A k \in 1 .. Len(in[c]) : in[c][k] # APost
  /\ ended[c] => due[c] = "none"

PostsInTurn == \A c \in Conns : InTurn(c)

NumbersSuffice == next_message_id + Cardinality(Posters) <= MaxId + 1

StoresFit ==
  /\ IsFiniteSet(accounts) /\ Cardinality(accounts) <= MaxUsers
  /\ board \in Seq(Message) /\ Len(board) <= MaxMessages
  /\ next_message_id >= 1

Replying == out \in [Conns -> Seq(Replies)]

TypeInv == IInv /\ PostsInTurn /\ NumbersSuffice /\ StoresFit /\ Replying

\* The item that announces the payload of a post is the header of one.
LEMMA AnnouncesPost ==
  ASSUME NEW item \in Items
  PROVE  Follows(item) = "post" <=> item = APost
<1>1. ASSUME item = APost PROVE Follows(item) = "post"
  BY <1>1, HeaderFollows DEF APost, Operations, WithPayload
<1>2. ASSUME Follows(item) = "post" PROVE item = APost
  <2>1. item.kind = "header" /\ item.op = "post" /\ item.fits
    BY <1>2 DEF Follows
  <2>2. item \in Headers
    BY <2>1, PayloadFacts DEF Items
  <2>3. /\ item = [kind |-> item.kind, op |-> item.op, fits |-> item.fits]
        /\ item.fits \in BOOLEAN
    BY <2>2 DEF Headers
  <2>4. item.fits = TRUE
    BY <2>1, <2>3
  <2>5. QED
    BY <2>1, <2>3, <2>4 DEF APost, Header
<1>3. QED
  BY <1>1, <1>2

\* A connection that a step leaves alone posts what it posted before.
LEMMA OthersPost ==
  ASSUME NEW d \in Conns, InTurn(d),
         at'[d] = at[d], in'[d] = in[d], due'[d] = due[d], ended'[d] = ended[d]
  PROVE  InTurn(d)' /\ (Posting(d)' <=> Posting(d))
BY DEF InTurn, Posting, APost, Header

\* A step that brings no header of a post brings no post.
LEMMA NoNewPost ==
  ASSUME NEW c \in Conns, InTurn(c),
         \A k \in 1 .. Len(in'[c]) : in'[c][k] = APost => k \in 1 .. Len(in[c]) /\ in[c][k] = APost,
         at'[c] = "post" => at[c] = "post",
         due'[c] = "post" => due[c] = "post",
         ended'[c] => due'[c] = "none"
  PROVE  InTurn(c)' /\ (Posting(c)' => Posting(c))
<1>1. APost' = APost
  BY DEF APost, Header
<1>2. InTurn(c)'
  BY <1>1 DEF InTurn
<1>3. Posting(c)' => Posting(c)
  BY <1>1 DEF Posting, APost
<1>4. QED
  BY <1>2, <1>3

\* A worker that takes the header of a post goes on to receive it, and one that takes what
\* it receives for a post is through with it.
LEMMA TakesInTurn ==
  ASSUME IInv, NEW c \in Conns, InTurn(c), Takes(c)
  PROVE  /\ InTurn(c)'
         /\ Posting(c)' => Posting(c)
         /\ at[c] = "post" => ~Posting(c)'
<1>1. PICK x \in {"header"} \cup Receiving : GoesOn(c, x)
  BY DEF Takes
<1>2. /\ at[c] # "away" /\ in[c] # <<>> /\ at'[c] = x
      /\ Follows(Head(in[c])) = IF x = "header" THEN "none" ELSE x
      /\ UNCHANGED <<due, ended>> /\ in'[c] = Tail(in[c])
  BY <1>1 DEF Takes, GoesOn, Consume, IInv, Types
<1>3. in[c] \in Seq(Items) /\ Len(in[c]) \in Nat /\ Len(in[c]) >= 1 /\ Head(in[c]) = in[c][1]
  BY <1>2 DEF IInv, Types
<1>4. /\ Len(in'[c]) = Len(in[c]) - 1
      /\ \A k \in 1 .. Len(in'[c]) : in'[c][k] = in[c][k + 1] /\ k + 1 \in 1 .. Len(in[c])
  BY <1>2, <1>3, HeadTailProperties
<1>5. 1 \in 1 .. Len(in[c]) /\ in[c][1] \in Items
  BY <1>3, ElementOfSeq
<1>6. x = "post" <=> in[c][1] = APost
  BY <1>2, <1>3, <1>5, AnnouncesPost
<1>7. APost' = APost
  BY DEF APost, Header
<1>8. ASSUME NEW k \in 1 .. Len(in'[c]), in'[c][k] = APost
      PROVE  x # "post" /\ at[c] # "post" /\ k + 1 \in 1 .. Len(in[c]) /\ in[c][k + 1] = APost
  <2>1. k + 1 \in 1 .. Len(in[c]) /\ in[c][k + 1] = APost /\ k + 1 # 1
    BY <1>3, <1>4, <1>8
  <2>2. QED
    BY <1>5, <1>6, <2>1 DEF InTurn
<1>9. InTurn(c)'
  <2>1. ASSUME NEW j \in 1 .. Len(in'[c]), NEW k \in 1 .. Len(in'[c]),
               in'[c][j] = APost, in'[c][k] = APost
        PROVE  j = k
    <3>1. j + 1 = k + 1
      BY <1>8, <2>1 DEF InTurn
    <3>2. QED
      BY <1>3, <1>4, <3>1
  <2>2. QED
    BY <1>2, <1>7, <1>8, <2>1 DEF InTurn
<1>10. Posting(c)' => Posting(c)
  <2>1. CASE at'[c] = "post"
    BY <1>2, <1>5, <1>6, <2>1 DEF Posting, APost
  <2>2. CASE due'[c] = "post"
    BY <1>2, <2>2 DEF Posting
  <2>3. CASE \E k \in 1 .. Len(in'[c]) : in'[c][k] = APost
    BY <1>8, <2>3 DEF Posting, APost
  <2>4. QED
    BY <1>7, <2>1, <2>2, <2>3 DEF Posting, APost
<1>11. ASSUME at[c] = "post" PROVE ~Posting(c)'
  <2>1. x # "post"
    BY <1>5, <1>6, <1>11 DEF InTurn
  <2>2. ~\E k \in 1 .. Len(in'[c]) : in'[c][k] = APost
    BY <1>8, <1>11
  <2>3. due[c] # "post"
    <3>1. CASE ended[c]
      BY <3>1 DEF InTurn
    <3>2. CASE ~ended[c]
      <4>1. due[c] = Follows(in[c][Len(in[c])])
        <5>1. due[c] = Owed(c, Len(in[c]) + 1)
          BY <1>2, <3>2 DEF IInv, FramesInStep
        <5>2. (Len(in[c]) + 1) - 1 = Len(in[c]) /\ Len(in[c]) + 1 # 1
          BY <1>3
        <5>3. QED
          BY <5>1, <5>2 DEF Owed
      <4>2. Len(in[c]) \in 1 .. Len(in[c])
        BY <1>3
      <4>3. in[c][Len(in[c])] \in Items
        BY <1>3, <4>2, ElementOfSeq
      <4>4. in[c][Len(in[c])] # APost
        BY <1>11, <4>2 DEF InTurn
      <4>5. QED
        BY <4>1, <4>3, <4>4, AnnouncesPost
    <3>3. QED
      BY <3>1, <3>2
  <2>4. QED
    BY <1>2, <1>7, <2>1, <2>2, <2>3 DEF Posting, APost
<1>12. QED
  BY <1>9, <1>10, <1>11

\* The worker takes an item of the stream or finds that nothing comes any more.
LEMMA HandlerStream ==
  ASSUME IInv, NEW c \in Conns, handle_client(c)
  PROVE  \/ Takes(c)
         \/ /\ in[c] = <<>> /\ UNCHANGED <<in, due, ended>> /\ ~process_post_msg(c)
            /\ at' = [at EXCEPT ![c] = "header"] \/ at' = [at EXCEPT ![c] = "away"]
<1>1. CASE \/ RefuseSize(c) \/ RefuseAnonymous(c) \/ AcceptRequest(c)
           \/ process_logout(c) \/ process_read_msg(c) \/ UnknownRequest(c)
  BY <1>1, HeaderStep
<1>2. CASE NoPayload(c) \/ Close(c)
  BY <1>2 DEF NoPayload, Close, NothingComes, NextHeader, stream, process_post_msg, Received
<1>3. ASSUME NEW op \in WithPayload, Received(c, op) # {}, Consume(c), NextHeader(c),
             UNCHANGED <<due, ended>>
      PROVE  Takes(c)
  <2>1. at[c] = op /\ in[c] # <<>> /\ op \in Receiving
    BY <1>3 DEF Received, Receiving
  <2>2. QED
    BY <1>3, <2>1, PayloadStep
<1>4. CASE SkipPayload(c)
  <2>1. /\ at[c] \in Receiving /\ in[c] # <<>> /\ Consume(c) /\ NextHeader(c)
        /\ UNCHANGED <<due, ended>>
    BY <1>4 DEF SkipPayload, Receiving, WithPayload
  <2>2. QED
    BY <2>1, PayloadStep
<1>5. CASE process_login(c)
  BY <1>3, <1>5 DEF process_login, WithPayload
<1>6. CASE process_register(c)
  BY <1>3, <1>6 DEF process_register, WithPayload
<1>7. CASE process_post_msg(c)
  BY <1>3, <1>7 DEF process_post_msg, WithPayload
<1>8. CASE process_delete_msg(c)
  BY <1>3, <1>8 DEF process_delete_msg, WithPayload
<1>9. QED
  BY <1>1, <1>2, <1>4, <1>5, <1>6, <1>7, <1>8 DEF handle_client

\* No step of a worker brings a post, and one that saves a message ends one.
LEMMA HandlerPosts ==
  ASSUME IInv, PostsInTurn, NEW c \in Conns, handle_client(c)
  PROVE  /\ PostsInTurn'
         /\ Posters' \subseteq Posters
         /\ process_post_msg(c) => c \in Posters /\ Posters' \subseteq Posters \ {c}
<1>1. InTurn(c)
  BY DEF PostsInTurn
<1>2. \A d \in Conns : d # c => InTurn(d)' /\ (Posting(d)' <=> Posting(d))
  <2>1. /\ UNCHANGED <<due, ended>>
        /\ \A d \in Conns : d # c => at'[d] = at[d] /\ in'[d] = in[d]
    BY HandlerStream DEF Takes, GoesOn, Consume, IInv, Types
  <2>2. QED
    BY <2>1, OthersPost DEF PostsInTurn
<1>3. /\ InTurn(c)' /\ (Posting(c)' => Posting(c))
      /\ process_post_msg(c) => Posting(c) /\ ~Posting(c)'
  <2>1. CASE Takes(c)
    <3>1. process_post_msg(c) => at[c] = "post"
      BY DEF process_post_msg, Received
    <3>2. QED
      BY <1>1, <2>1, <3>1, TakesInTurn DEF Posting
  <2>2. CASE ~Takes(c)
    <3>1. /\ in[c] = <<>> /\ UNCHANGED <<in, due, ended>> /\ ~process_post_msg(c)
          /\ at'[c] # "post"
      BY <2>2, HandlerStream DEF IInv, Types
    <3>2. QED
      BY <1>1, <3>1, NoNewPost DEF InTurn
  <2>3. QED
    BY <2>1, <2>2
<1>4. PostsInTurn'
  BY <1>2, <1>3 DEF PostsInTurn
<1>5. Posters' \subseteq Posters
  BY <1>2, <1>3 DEF Posters
<1>6. process_post_msg(c) => c \in Posters /\ Posters' \subseteq Posters \ {c}
  BY <1>2, <1>3 DEF Posters
<1>7. QED
  BY <1>4, <1>5, <1>6

\* The connections are finitely many, and so are the posts.
LEMMA PostersAreFinite ==
  /\ IsFiniteSet(Posters) /\ Cardinality(Posters) \in Nat
  /\ \A P \in SUBSET Posters :
       IsFiniteSet(P) /\ Cardinality(P) \in Nat /\ Cardinality(P) <= Cardinality(Posters)
<1>1. Posters \in SUBSET Conns
  BY DEF Posters
<1>2. IsFiniteSet(Posters)
  BY <1>1, FS_Subset, SessionAssumption
<1>3. \A P \in SUBSET Posters : IsFiniteSet(P) /\ Cardinality(P) <= Cardinality(Posters)
  BY <1>2, FS_Subset
<1>4. QED
  BY <1>2, <1>3, FS_CardinalityType

\* A step that gives no number and brings no post leaves enough of them.
LEMMA FewerPosters ==
  ASSUME IInv, NumbersSuffice, Posters' \subseteq Posters, UNCHANGED next_message_id
  PROVE  NumbersSuffice'
<1>1. /\ Cardinality(Posters') \in Nat /\ Cardinality(Posters) \in Nat
      /\ Cardinality(Posters') <= Cardinality(Posters)
  BY PostersAreFinite
<1>2. next_message_id \in Nat /\ MaxId \in Nat
  BY SessionAssumption DEF IInv, Types
<1>3. next_message_id + Cardinality(Posters') <= MaxId + 1
  BY <1>1, <1>2 DEF NumbersSuffice
<1>4. QED
  BY <1>3 DEF NumbersSuffice

\* The post that a worker ends had a number reserved.
LEMMA PostNumbers ==
  ASSUME IInv, PostsInTurn, NumbersSuffice, NEW c \in Conns,
         process_post_msg(c), handle_client(c)
  PROVE  NumbersSuffice' /\ next_message_id <= MaxId
<1>1. c \in Posters /\ Posters' \subseteq Posters \ {c}
  BY HandlerPosts
<1>2. /\ Cardinality(Posters \ {c}) = Cardinality(Posters) - 1
      /\ IsFiniteSet(Posters \ {c})
  BY <1>1, PostersAreFinite, FS_RemoveElement
<1>3. /\ Cardinality(Posters') \in Nat /\ Cardinality(Posters) \in Nat
      /\ Cardinality(Posters') <= Cardinality(Posters) - 1
  <2>1. Cardinality(Posters') <= Cardinality(Posters \ {c})
    BY <1>1, <1>2, FS_Subset
  <2>2. Posters' \in SUBSET Posters
    BY <1>1
  <2>3. QED
    BY <1>2, <2>1, <2>2, PostersAreFinite
<1>4. next_message_id \in Nat /\ MaxId \in Nat
  BY SessionAssumption DEF IInv, Types
<1>5. next_message_id' = next_message_id \/ next_message_id' = next_message_id + 1
  BY DEF process_post_msg, save_message
<1>6. next_message_id' + Cardinality(Posters') <= MaxId + 1 /\ next_message_id <= MaxId
  BY <1>3, <1>4, <1>5 DEF NumbersSuffice
<1>7. QED
  BY <1>6 DEF NumbersSuffice

\* Only a post gives a number.
LEMMA NumbersStay ==
  ASSUME NEW c \in Conns, handle_client(c), ~process_post_msg(c)
  PROVE  UNCHANGED next_message_id
BY DEF handle_client, RefuseSize, RefuseAnonymous, AcceptRequest, process_logout,
       process_read_msg, UnknownRequest, SkipPayload, NoPayload, process_login,
       process_register, process_delete_msg, Close, stores

\* A worker leaves enough numbers for the posts of the others.
LEMMA HandlerNumbers ==
  ASSUME IInv, PostsInTurn, NumbersSuffice, NEW c \in Conns, handle_client(c)
  PROVE  PostsInTurn' /\ NumbersSuffice'
BY HandlerPosts, PostNumbers, NumbersStay, FewerPosters

\* A step at the other end of a connection that sends no header of a post.
LEMMA NoPostSent ==
  ASSUME IInv, PostsInTurn, NumbersSuffice, NEW c \in Conns,
         \A d \in Conns : d # c =>
           at'[d] = at[d] /\ in'[d] = in[d] /\ due'[d] = due[d] /\ ended'[d] = ended[d],
         InTurn(c)' /\ (Posting(c)' => Posting(c)),
         UNCHANGED next_message_id
  PROVE  PostsInTurn' /\ NumbersSuffice'
<1>1. \A d \in Conns : InTurn(d)' /\ (Posting(d)' => Posting(d))
  BY OthersPost DEF PostsInTurn
<1>2. Posters' \subseteq Posters
  BY <1>1 DEF Posters
<1>3. QED
  BY <1>1, <1>2, FewerPosters DEF PostsInTurn

\* A connection begins with nothing under way.
LEMMA OpenNumbers ==
  ASSUME IInv, PostsInTurn, NumbersSuffice, NEW c \in Conns, Open(c)
  PROVE  PostsInTurn' /\ NumbersSuffice'
<1>1. /\ at'[c] = "header" /\ in'[c] = <<>> /\ due'[c] = "none" /\ UNCHANGED next_message_id
      /\ \A d \in Conns : d # c =>
           at'[d] = at[d] /\ in'[d] = in[d] /\ due'[d] = due[d] /\ ended'[d] = ended[d]
  BY DEF Open, IInv, Types, stores
<1>2. InTurn(c)' /\ ~Posting(c)'
  BY <1>1 DEF InTurn, Posting
<1>3. QED
  BY <1>1, <1>2, NoPostSent

\* One item more on its way to the server.
LEMMA OneMoreItem ==
  ASSUME IInv, NEW c \in Conns, NEW item \in Items, in' = [in EXCEPT ![c] = Append(@, item)]
  PROVE  /\ Len(in[c]) \in Nat /\ Len(in'[c]) = Len(in[c]) + 1
         /\ in'[c][Len(in[c]) + 1] = item
         /\ \A k \in 1 .. Len(in[c]) : in'[c][k] = in[c][k]
         /\ \A d \in Conns : d # c => in'[d] = in[d]
<1>1. in[c] \in Seq(Items) /\ in'[c] = Append(in[c], item)
  BY DEF IInv, Types
<1>2. \A d \in Conns : d # c => in'[d] = in[d]
  BY DEF IInv, Types
<1>3. QED
  BY <1>1, <1>2, AppendProperties

\* The header of a post is sent when a number is left for it and no other post is under way
\* on the connection.
LEMMA PostHeaderNumbers ==
  ASSUME IInv, PostsInTurn, NumbersSuffice, NEW c \in Conns, SendHeader(c, "post", TRUE)
  PROVE  PostsInTurn' /\ NumbersSuffice'
<1>1. /\ next_message_id + Cardinality(Posters) <= MaxId /\ ~Posting(c) /\ ~ended[c]
      /\ in' = [in EXCEPT ![c] = Append(@, APost)]
      /\ UNCHANGED <<at, ended, next_message_id>>
      /\ \A d \in Conns : d # c => due'[d] = due[d]
  BY DEF SendHeader, CanAsk, stores, APost, Posters, IInv, Types
<1>2. APost \in Items /\ APost' = APost
  BY ExpectedFacts DEF APost, Header, Operations, WithPayload
<1>3. /\ Len(in[c]) \in Nat /\ Len(in'[c]) = Len(in[c]) + 1
      /\ \A k \in 1 .. Len(in[c]) : in'[c][k] = in[c][k]
      /\ \A d \in Conns : d # c => in'[d] = in[d]
  BY <1>1, <1>2, OneMoreItem
<1>4. at[c] # "post" /\ \A k \in 1 .. Len(in[c]) : in[c][k] # APost
  BY <1>1 DEF Posting, APost
<1>5. \A k \in 1 .. Len(in'[c]) : in'[c][k] = APost => k = Len(in[c]) + 1
  <2>1. \A k \in 1 .. Len(in'[c]) : k \in 1 .. Len(in[c]) \/ k = Len(in[c]) + 1
    BY <1>3
  <2>2. QED
    BY <1>3, <1>4, <2>1
<1>6. InTurn(c)'
  BY <1>1, <1>2, <1>4, <1>5 DEF InTurn
<1>7. \A d \in Conns : d # c => InTurn(d)' /\ (Posting(d)' <=> Posting(d))
  BY <1>1, <1>3, OthersPost DEF PostsInTurn
<1>8. Posters' \subseteq Posters \cup {c}
  BY <1>7 DEF Posters
<1>9. Cardinality(Posters') \in Nat /\ Cardinality(Posters') <= Cardinality(Posters) + 1
  <2>1. /\ IsFiniteSet(Posters \cup {c})
        /\ Cardinality(Posters \cup {c}) <= Cardinality(Posters) + 1
    BY PostersAreFinite, FS_AddElement
  <2>2. IsFiniteSet(Posters') /\ Cardinality(Posters') <= Cardinality(Posters \cup {c})
    BY <1>8, <2>1, FS_Subset
  <2>3. Cardinality(Posters') \in Nat /\ Cardinality(Posters \cup {c}) \in Nat
    BY <2>1, <2>2, FS_CardinalityType
  <2>4. QED
    BY <2>1, <2>2, <2>3, PostersAreFinite
<1>10. next_message_id \in Nat /\ MaxId \in Nat /\ Cardinality(Posters) \in Nat
  BY SessionAssumption, PostersAreFinite DEF IInv, Types
<1>11. next_message_id + Cardinality(Posters') <= MaxId + 1
  BY <1>1, <1>9, <1>10
<1>12. NumbersSuffice'
  BY <1>1, <1>11 DEF NumbersSuffice
<1>13. QED
  BY <1>6, <1>7, <1>12 DEF PostsInTurn

\* Any other header, and any payload.
LEMMA OtherItemNumbers ==
  ASSUME IInv, PostsInTurn, NumbersSuffice, NEW c \in Conns,
         \/ \E op \in Operations, fits \in BOOLEAN :
              SendHeader(c, op, fits) /\ Header(op, fits) # APost
         \/ \E data \in Composed(due[c]) : SendPayload(c, data)
  PROVE  PostsInTurn' /\ NumbersSuffice'
<1>1. PICK item \in Items :
        /\ item # APost /\ in' = [in EXCEPT ![c] = Append(@, item)]
        /\ due' = [due EXCEPT ![c] = "none"] \/ due' = [due EXCEPT ![c] = Follows(item)]
  <2>1. ASSUME NEW op \in Operations, NEW fits \in BOOLEAN, SendHeader(c, op, fits)
        PROVE  Header(op, fits) \in Items
    BY <2>1, ExpectedFacts
  <2>2. ASSUME NEW data \in Composed(due[c]), SendPayload(c, data)
        PROVE  Payload(data) \in Items /\ Payload(data) # APost
    <3>1. due[c] \in Receiving /\ due[c] # "none"
      BY <2>2 DEF IInv, Types, Composed, Receiving, WithPayload
    <3>2. data \in Payloads(due[c])
      BY <2>2, <3>1, SessionAssumption DEF Composed, Payloads, MessagePayload
    <3>3. Payload(data) \in PayloadsOf(due[c])
      BY <3>2 DEF PayloadsOf
    <3>4. APost.kind = "header"
      BY DEF APost, Header
    <3>5. QED
      BY <3>1, <3>3, <3>4, PayloadFacts
  <2>3. CASE \E op \in Operations, fits \in BOOLEAN :
               SendHeader(c, op, fits) /\ Header(op, fits) # APost
    BY <2>1, <2>3 DEF SendHeader
  <2>4. CASE \E data \in Composed(due[c]) : SendPayload(c, data)
    BY <2>2, <2>4 DEF SendPayload
  <2>5. QED
    BY <2>3, <2>4
<1>2. ~ended[c] /\ UNCHANGED <<at, ended, next_message_id>>
  BY DEF SendHeader, SendPayload, CanAsk, stores
<1>3. /\ Len(in[c]) \in Nat /\ Len(in'[c]) = Len(in[c]) + 1
      /\ in'[c][Len(in[c]) + 1] = item
      /\ \A k \in 1 .. Len(in[c]) : in'[c][k] = in[c][k]
      /\ \A d \in Conns : d # c => in'[d] = in[d]
  BY <1>1, OneMoreItem
<1>4. ASSUME NEW k \in 1 .. Len(in'[c]), in'[c][k] = APost
      PROVE  k \in 1 .. Len(in[c]) /\ in[c][k] = APost
  <2>1. k \in 1 .. Len(in[c]) \/ k = Len(in[c]) + 1
    BY <1>3
  <2>2. QED
    BY <1>1, <1>3, <1>4, <2>1
<1>5. due'[c] # "post" /\ \A d \in Conns : d # c => due'[d] = due[d]
  BY <1>1, AnnouncesPost DEF IInv, Types
<1>6. InTurn(c)' /\ (Posting(c)' => Posting(c))
  BY <1>2, <1>4, <1>5, NoNewPost DEF PostsInTurn
<1>7. QED
  BY <1>2, <1>3, <1>5, <1>6, NoPostSent

\* The end of a connection: what is left is of what was sent.
LEMMA ConnectionEndsNumbers ==
  ASSUME IInv, PostsInTurn, NumbersSuffice, NEW c \in Conns, ConnectionEnds(c)
  PROVE  PostsInTurn' /\ NumbersSuffice'
<1>1. /\ due'[c] = "none" /\ UNCHANGED <<at, next_message_id>>
      /\ \A d \in Conns : d # c => due'[d] = due[d] /\ ended'[d] = ended[d] /\ in'[d] = in[d]
  BY DEF ConnectionEnds, IInv, Types, stores
<1>2. in[c] \in Seq(Items) /\ Len(in[c]) \in Nat
  BY DEF IInv, Types
<1>3. PICK n \in 0 .. Len(in[c]) :
        in'[c] = SubSeq(in[c], 1, n) \/ in'[c] = Append(SubSeq(in[c], 1, n), Part)
  BY DEF ConnectionEnds, IInv, Types
<1>4. /\ SubSeq(in[c], 1, n) \in Seq(Items) /\ Len(SubSeq(in[c], 1, n)) = n
      /\ \A k \in 1 .. n : SubSeq(in[c], 1, n)[k] = in[c][k]
  BY <1>2, <1>3, SubSeqProperties
<1>5. Part \in Items /\ Part # APost
  BY DEF Items, PayloadsOf, Receiving, Part, APost, Header
<1>6. ASSUME NEW k \in 1 .. Len(in'[c]), in'[c][k] = APost
      PROVE  k \in 1 .. Len(in[c]) /\ in[c][k] = APost
  <2>1. CASE in'[c] = SubSeq(in[c], 1, n)
    BY <1>2, <1>3, <1>4, <1>6, <2>1
  <2>2. CASE in'[c] = Append(SubSeq(in[c], 1, n), Part)
    <3>1. /\ Len(in'[c]) = n + 1 /\ in'[c][n + 1] = Part
          /\ \A j \in 1 .. n : in'[c][j] = SubSeq(in[c], 1, n)[j]
      BY <1>4, <1>5, <2>2, AppendProperties
    <3>2. k \in 1 .. n
      BY <1>3, <1>5, <1>6, <3>1
    <3>3. QED
      BY <1>2, <1>3, <1>4, <1>6, <3>1, <3>2
  <2>3. QED
    BY <1>3, <2>1, <2>2
<1>7. InTurn(c)' /\ (Posting(c)' => Posting(c))
  BY <1>1, <1>6, NoNewPost DEF PostsInTurn
<1>8. QED
  BY <1>1, <1>7, NoPostSent

\* Every step leaves a number for each post that is under way.
LEMMA StepNumbers ==
  ASSUME IInv, PostsInTurn, NumbersSuffice, [Next]_vars
  PROVE  PostsInTurn' /\ NumbersSuffice'
<1>1. ASSUME NEW c \in Conns, UNCHANGED <<at, in, due, ended, next_message_id>>
      PROVE  PostsInTurn' /\ NumbersSuffice'
  BY <1>1, OthersPost, NoPostSent DEF PostsInTurn
<1>2. CASE UNCHANGED vars
  <2>1. UNCHANGED <<at, in, due, ended, next_message_id>>
    BY <1>2 DEF vars, stream, stores
  <2>2. PostsInTurn' /\ Posters' = Posters
    BY <2>1, OthersPost DEF PostsInTurn, Posters
  <2>3. QED
    BY <2>1, <2>2, FewerPosters
<1>3. ASSUME NEW c \in Conns, handle_client(c) PROVE PostsInTurn' /\ NumbersSuffice'
  BY <1>3, HandlerNumbers
<1>4. ASSUME NEW c \in Conns, Client(c) PROVE PostsInTurn' /\ NumbersSuffice'
  <2>1. WithPayload \cup {"read"} \subseteq Operations
    BY DEF Operations
  <2>2. CASE TakeReply(c)
    BY <1>1, <2>2 DEF TakeReply, stores
  <2>3. CASE \E data \in Composed(due[c]) : SendPayload(c, data)
    BY <2>3, OtherItemNumbers
  <2>4. ASSUME NEW op \in Operations, NEW fits \in BOOLEAN, SendHeader(c, op, fits)
        PROVE  PostsInTurn' /\ NumbersSuffice'
    <3>1. CASE Header(op, fits) = APost
      <4>1. op = "post" /\ fits = TRUE
        BY <3>1 DEF APost, Header
      <4>2. QED
        BY <2>4, <4>1, PostHeaderNumbers
    <3>2. CASE Header(op, fits) # APost
      BY <2>4, <3>2, OtherItemNumbers
    <3>3. QED
      BY <3>1, <3>2
  <2>5. QED
    BY <1>4, <2>1, <2>2, <2>3, <2>4 DEF Client
<1>5. QED
  BY <1>2, <1>3, <1>4, OpenNumbers, ConnectionEndsNumbers DEF Next

-------------------------------------------------------------------------------
(* The sizes of the caches, and the replies. *)

\* The sequence without one of its elements.
LEMMA WithoutOne ==
  ASSUME NEW S, NEW seq \in Seq(S), NEW i \in 1 .. Len(seq)
  PROVE  Without(seq, i) \in Seq(S) /\ Len(Without(seq, i)) = Len(seq) - 1
<1> DEFINE rest == Without(seq, i)
<1>1. /\ Len(seq) - 1 \in Nat
      /\ rest = [k \in 1 .. Len(seq) - 1 |-> IF k < i THEN seq[k] ELSE seq[k + 1]]
  BY DEF Without
<1>2. ASSUME NEW k \in 1 .. Len(seq) - 1 PROVE rest[k] \in S
  <2>1. k \in 1 .. Len(seq) /\ k + 1 \in 1 .. Len(seq)
    BY <1>1, <1>2
  <2>2. seq[k] \in S /\ seq[k + 1] \in S
    BY <2>1, ElementOfSeq
  <2>3. QED
    BY <1>1, <2>2
<1>3. rest \in [1 .. Len(seq) - 1 -> S]
  BY <1>1, <1>2
<1>4. rest \in Seq(S)
  BY <1>1, <1>3
<1>5. Len(rest) = Len(seq) - 1
  BY <1>1, <1>3, <1>4, LenProperties
<1>6. QED
  BY <1>4, <1>5

\* What save_message adds is a message, and there is room for it.
LEMMA SavedFits ==
  ASSUME IInv, PostsInTurn, NumbersSuffice, StoresFit, NEW c \in Conns,
         handle_client(c), process_post_msg(c)
  PROVE  StoresFit'
<1>1. UNCHANGED <<session, accounts>> /\ is_logged[c]
  BY DEF process_post_msg
<1>2. CASE UNCHANGED <<board, next_message_id>>
  BY <1>1, <1>2 DEF StoresFit
<1>3. CASE ~UNCHANGED <<board, next_message_id>>
  <2>1. PICK p \in Received(c, "post") : save_message(user[c], p.text)
    BY <1>3 DEF process_post_msg
  <2>2. Received(c, "post") \subseteq MessagePayload
    <3>1. at[c] = "post" /\ in[c] # <<>> /\ "post" \in Receiving
      BY <2>1 DEF Received, Receiving, WithPayload
    <3>2. Consume(c) /\ NextHeader(c) /\ UNCHANGED <<due, ended>>
      BY DEF process_post_msg
    <3>3. recv_all(FirstItem(c), "post") \subseteq Payloads("post")
      BY <3>1, <3>2, PayloadStep
    <3>4. QED
      BY <3>1, <3>3 DEF Received, Payloads
  <2>3. p.text \in Texts
    BY <2>1, <2>2 DEF MessagePayload
  <2>4. user[c] \in Usernames
    BY <1>1 DEF IInv, Types, SenderHasAccount, AuthPayload
  <2>5. next_message_id \in 1 .. MaxId
    <3>1. next_message_id \in Nat /\ MaxId \in Nat
      BY SessionAssumption DEF IInv, Types
    <3>2. next_message_id <= MaxId /\ next_message_id >= 1
      BY PostNumbers DEF StoresFit
    <3>3. QED
      BY <3>1, <3>2
  <2> DEFINE new == [id |-> next_message_id, sender |-> user[c], text |-> p.text]
  <2>6. new \in Message
    BY <2>3, <2>4, <2>5 DEF Message
  <2>7. board' = Append(board, new) /\ next_message_id' = next_message_id + 1
        /\ Len(board) < MaxMessages
    BY <2>1 DEF save_message, HasRoom, NewId
  <2>8. board' \in Seq(Message) /\ Len(board') = Len(board) + 1 /\ Len(board) \in Nat
    <3>1. board \in Seq(Message)
      BY DEF StoresFit
    <3>2. QED
      BY <2>6, <2>7, <3>1, AppendProperties
  <2>9. Len(board') <= MaxMessages
    BY <2>7, <2>8, SessionAssumption
  <2>10. next_message_id' >= 1
    BY <2>5, <2>7
  <2>11. QED
    BY <1>1, <2>8, <2>9, <2>10 DEF StoresFit
<1>4. QED
  BY <1>2, <1>3

\* delete_message leaves messages, and one fewer.
LEMMA DeletedFits ==
  ASSUME StoresFit, NEW c \in Conns, process_delete_msg(c)
  PROVE  StoresFit'
<1>1. UNCHANGED <<accounts, next_message_id>>
  BY DEF process_delete_msg
<1>2. UNCHANGED board \/ \E i \in 1 .. Len(board) : board' = Without(board, i)
  BY DEF process_delete_msg, delete_message
<1>3. board' \in Seq(Message) /\ Len(board') <= MaxMessages
  <2>1. board \in Seq(Message) /\ Len(board) \in Nat /\ Len(board) <= MaxMessages
    BY DEF StoresFit
  <2>2. CASE \E i \in 1 .. Len(board) : board' = Without(board, i)
    <3>1. board' \in Seq(Message) /\ Len(board') = Len(board) - 1
      BY <2>1, <2>2, WithoutOne
    <3>2. QED
      BY <2>1, <3>1, SessionAssumption
  <2>3. QED
    BY <1>2, <2>1, <2>2
<1>4. QED
  BY <1>1, <1>3 DEF StoresFit

\* register_user adds an account while there is room.
LEMMA RegisteredFits ==
  ASSUME StoresFit, NEW c \in Conns, process_register(c)
  PROVE  StoresFit'
<1>1. UNCHANGED <<board, next_message_id>>
  BY DEF process_register
<1>2. CASE UNCHANGED accounts
  BY <1>1, <1>2 DEF StoresFit
<1>3. CASE ~UNCHANGED accounts
  <2>1. PICK a : accounts' = accounts \cup {a} /\ Cardinality(accounts) < MaxUsers
    BY <1>3 DEF process_register, CanRegister
  <2>2. IsFiniteSet(accounts) /\ Cardinality(accounts) \in Nat
    BY FS_CardinalityType DEF StoresFit
  <2>3. /\ IsFiniteSet(accounts')
        /\ Cardinality(accounts') \in {Cardinality(accounts), Cardinality(accounts) + 1}
    BY <2>1, <2>2, FS_AddElement
  <2>4. Cardinality(accounts') <= MaxUsers
    BY <2>1, <2>2, <2>3, SessionAssumption
  <2>5. QED
    BY <1>1, <2>3, <2>4 DEF StoresFit
<1>4. QED
  BY <1>2, <1>3

\* Nothing else changes the caches.
LEMMA StepFits ==
  ASSUME IInv, PostsInTurn, NumbersSuffice, StoresFit, [Next]_vars
  PROVE  StoresFit'
<1>1. CASE UNCHANGED stores
  BY <1>1 DEF StoresFit, stores
<1>2. ASSUME NEW c \in Conns, Open(c) \/ Client(c) \/ ConnectionEnds(c)
      PROVE  UNCHANGED stores
  BY <1>2 DEF Open, Client, SendHeader, SendPayload, TakeReply, ConnectionEnds
<1>3. ASSUME NEW c \in Conns, handle_client(c), ~process_post_msg(c), ~process_delete_msg(c),
             ~process_register(c)
      PROVE  UNCHANGED stores
  BY <1>3 DEF handle_client, RefuseSize, RefuseAnonymous, AcceptRequest, process_logout,
         process_read_msg, UnknownRequest, SkipPayload, NoPayload, process_login, Close
<1>4. ASSUME NEW c \in Conns, handle_client(c) PROVE StoresFit'
  BY <1>1, <1>3, <1>4, SavedFits, DeletedFits, RegisteredFits
<1>5. CASE UNCHANGED vars
  BY <1>1, <1>5 DEF vars
<1>6. QED
  BY <1>1, <1>2, <1>4, <1>5 DEF Next

\* What the handlers send is a reply, and so is what the end of the connection leaves of it.
LEMMA RepliesAreReplies ==
  /\ Success \in Replies /\ Error \in Replies
  /\ \A messages \in Seq(Message) : Contents(messages) \in Replies
  /\ \A reply \in Replies : CutShort(reply) \subseteq Replies
<1>1. <<>> \in Seq(Message)
  BY EmptySeq
<1>2. Success \in Replies
  BY <1>1 DEF Success, Replies
<1>3. Error \in Replies
  BY <1>1 DEF Error, Success, Replies
<1>4. ASSUME NEW messages \in Seq(Message) PROVE Contents(messages) \in Replies
  BY <1>4 DEF Contents, Success, Replies
<1>5. ASSUME NEW reply \in Replies PROVE CutShort(reply) \subseteq Replies
  <2> DEFINE rest == SubSeq(reply.messages, 1, Len(reply.messages) - 1)
  <2>1. reply.messages \in Seq(Message) /\ reply.type \in {"success", "error"}
    BY DEF Replies
  <2>2. ASSUME reply.messages # <<>> PROVE rest \in Seq(Message)
    <3>1. Len(reply.messages) \in Nat /\ Len(reply.messages) >= 1
      BY <2>1, <2>2
    <3>2. 1 \in Int /\ Len(reply.messages) - 1 \in Int
      BY <3>1
    <3>3. \A k \in 1 .. Len(reply.messages) - 1 : k \in 1 .. Len(reply.messages)
      BY <3>1
    <3>4. QED
      BY <2>1, <3>1, <3>2, <3>3, SubSeqProperties
  <2>3. ASSUME reply.messages # <<>>
        PROVE  [type |-> reply.type, messages |-> rest, torn |-> TRUE] \in Replies
    BY <2>1, <2>2, <2>3 DEF Replies
  <2>4. QED
    BY <1>2, <2>3 DEF CutShort
<1>6. QED
  BY <1>2, <1>3, <1>4, <1>5

\* A reply more.
LEMMA ReplyStep ==
  ASSUME Replying, NEW c \in Conns, NEW reply \in Replies, Reply(c, reply)
  PROVE  Replying'
<1>1. out[c] \in Seq(Replies)
  BY DEF Replying
<1>2. Append(out[c], reply) \in Seq(Replies)
  BY <1>1
<1>3. out' = out \/ out' = [out EXCEPT ![c] = Append(out[c], reply)]
  BY DEF Reply
<1>4. QED
  BY <1>2, <1>3 DEF Replying

\* The handlers.
LEMMA HandlerReplies ==
  ASSUME StoresFit, Replying, NEW c \in Conns, handle_client(c)
  PROVE  Replying'
<1>1. UNCHANGED out \/ \E reply \in {Success, Error, Contents(board)} : Reply(c, reply)
  <2>1. CASE RefuseSize(c) \/ RefuseAnonymous(c) \/ process_logout(c) \/ process_read_msg(c)
    BY <2>1 DEF RefuseSize, RefuseAnonymous, process_logout, process_read_msg
  <2>2. CASE SkipPayload(c) \/ process_login(c) \/ process_register(c)
    BY <2>2 DEF SkipPayload, process_login, process_register
  <2>3. CASE process_post_msg(c) \/ process_delete_msg(c)
    BY <2>3 DEF process_post_msg, process_delete_msg
  <2>4. CASE AcceptRequest(c) \/ UnknownRequest(c) \/ NoPayload(c) \/ Close(c)
    BY <2>4 DEF AcceptRequest, UnknownRequest, NoPayload, Close, stream
  <2>5. QED
    BY <2>1, <2>2, <2>3, <2>4 DEF handle_client
<1>2. {Success, Error, Contents(board)} \subseteq Replies
  BY RepliesAreReplies DEF StoresFit
<1>3. QED
  BY <1>1, <1>2, ReplyStep DEF Replying

\* The end of a connection leaves the replies that had arrived, and of one more a part.
LEMMA ConnectionEndsReplies ==
  ASSUME Replying, NEW c \in Conns, ConnectionEnds(c)
  PROVE  Replying'
<1>1. out[c] \in Seq(Replies) /\ Len(out[c]) \in Nat
  BY DEF Replying
<1>2. PICK n \in 0 .. Len(out[c]) :
        \/ out' = [out EXCEPT ![c] = SubSeq(@, 1, n)]
        \/ /\ n < Len(out[c])
           /\ \E part \in CutShort(out[c][n + 1]) :
                out' = [out EXCEPT ![c] = Append(SubSeq(@, 1, n), part)]
  BY DEF ConnectionEnds
<1>3. SubSeq(out[c], 1, n) \in Seq(Replies)
  BY <1>1, <1>2, SubSeqProperties
<1>4. ASSUME n < Len(out[c]), NEW part \in CutShort(out[c][n + 1])
      PROVE  Append(SubSeq(out[c], 1, n), part) \in Seq(Replies)
  <2>1. n + 1 \in 1 .. Len(out[c])
    BY <1>1, <1>2, <1>4
  <2>2. out[c][n + 1] \in Replies
    BY <1>1, <2>1, ElementOfSeq
  <2>3. part \in Replies
    BY <1>4, <2>2, RepliesAreReplies
  <2>4. QED
    BY <1>3, <2>3
<1>5. QED
  BY <1>2, <1>3, <1>4 DEF Replying

\* Everything that changes what is on its way to a client.
LEMMA StepReplies ==
  ASSUME StoresFit, Replying, [Next]_vars
  PROVE  Replying'
<1>1. ASSUME NEW c \in Conns, handle_client(c) \/ ConnectionEnds(c) PROVE Replying'
  BY <1>1, HandlerReplies, ConnectionEndsReplies
<1>2. ASSUME NEW c \in Conns, Open(c) PROVE Replying'
  <2>1. out' = [out EXCEPT ![c] = <<>>] /\ <<>> \in Seq(Replies)
    BY <1>2, EmptySeq DEF Open
  <2>2. QED
    BY <2>1 DEF Replying
<1>3. ASSUME NEW c \in Conns, Client(c) PROVE Replying'
  <2>1. CASE UNCHANGED out
    BY <2>1 DEF Replying
  <2>2. CASE TakeReply(c)
    <3>1. out[c] \in Seq(Replies) /\ out[c] # <<>> /\ out' = [out EXCEPT ![c] = Tail(out[c])]
      BY <2>2 DEF Replying, TakeReply
    <3>2. Tail(out[c]) \in Seq(Replies)
      BY <3>1
    <3>3. QED
      BY <3>1, <3>2 DEF Replying
  <2>3. QED
    BY <1>3, <2>1, <2>2 DEF Client, SendHeader, SendPayload
<1>4. CASE UNCHANGED vars
  BY <1>4 DEF Replying, vars, stream
<1>5. QED
  BY <1>1, <1>2, <1>3, <1>4 DEF Next

\* Nothing is under way at first.
LEMMA InitTypes == Init => TypeInv
<1> SUFFICES ASSUME Init PROVE TypeInv
  OBVIOUS
<1> USE DEF Init
<1>1. PostsInTurn
  BY DEF PostsInTurn, InTurn
<1>2. NumbersSuffice
  <2>1. ASSUME NEW d \in Conns PROVE ~Posting(d)
    <3>1. at[d] = "away" /\ due[d] = "none" /\ in[d] = <<>> /\ Len(in[d]) = 0
      OBVIOUS
    <3>2. QED
      BY <3>1 DEF Posting
  <2>2. Cardinality(Posters) = 0
    BY <2>1, FS_EmptySet DEF Posters
  <2>3. QED
    BY <2>2, SessionAssumption DEF NumbersSuffice
<1>3. StoresFit
  BY FS_EmptySet, EmptySeq, SessionAssumption DEF StoresFit
<1>4. Replying
  BY EmptySeq DEF Replying
<1>5. QED
  BY <1>1, <1>2, <1>3, <1>4, InitInv DEF TypeInv

\* Every step keeps the types with what they rest on.
LEMMA StepTypes == TypeInv /\ [Next]_vars => TypeInv'
BY StepInv, StepNumbers, StepFits, StepReplies DEF TypeInv

\* The values stay what they are declared to be: above all the caches within their sizes
\* and, while clients ask for no more than MaxId of them, the numbers within theirs.
THEOREM TypesAreKept == Spec => []TypeOK
<1>1. TypeInv => TypeOK
  <2> SUFFICES ASSUME TypeInv PROVE TypeOK
    OBVIOUS
  <2>1. Types /\ StoresFit /\ Replying
    BY DEF TypeInv, IInv
  <2>2. in \in [Conns -> Seq(Headers \cup UNION {PayloadsOf(op) : op \in WithPayload \cup {"read"}})]
    BY <2>1 DEF Types, Items, Receiving
  <2>3. /\ at \in [Conns -> {"away", "header", "read"} \cup WithPayload]
        /\ due \in [Conns -> {"none", "read"} \cup WithPayload]
    <3>1. /\ {"away", "header"} \cup Receiving = {"away", "header", "read"} \cup WithPayload
          /\ {"none"} \cup Receiving = {"none", "read"} \cup WithPayload
      BY DEF Receiving
    <3>2. QED
      BY <2>1, <3>1 DEF Types
  <2>4. next_message_id \in Nat \ {0}
    BY <2>1 DEF Types, StoresFit
  <2>5. QED
    BY <2>1, <2>2, <2>3, <2>4 DEF TypeOK, Types, StoresFit, Replying
<1>2. QED
  BY <1>1, InitTypes, StepTypes, PTL DEF Spec
===============================================================================
