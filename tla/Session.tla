-------------------------------- MODULE Session --------------------------------
(***************************************************************************)
(* server_handler.c: the worker threads in handle_client, each with one    *)
(* connection and the session variables is_logged and user, and the caches *)
(* of persistence.c that they share.  A cache operation is the hold of one *)
(* mutex; what happens to the change afterwards is in MessageStore and     *)
(* UserStore.                                                              *)
(*                                                                         *)
(* A connection carries headers and payloads in both directions, in order. *)
(* It may end at any moment, from either side and in the middle of a       *)
(* payload.  A worker receives a header in one step and the payload, if    *)
(* the operation has one, in another.  Clients are any that send, after a  *)
(* header, the payload it announces.                                       *)
(***************************************************************************)
EXTENDS MessageFile, Naturals, Sequences, FiniteSets

CONSTANTS
  Conns,        \* connections that a worker is there to serve
  Usernames, Passwords,
  Texts,        \* what a buffer for a subject and a body can hold
  Written,      \* those of them that a client writes
  NoName,       \* the empty user name
  MaxUsers,     \* MAX_USERS
  MaxMessages,  \* MAX_MESSAGGES
  MaxId,        \* a bound for model checking: this number is the last one asked for
  MaxInFlight   \* another: a client sends no request while so many items are in the streams

ASSUME SessionAssumption ==
  /\ IsFiniteSet(Conns)
  /\ Written \subseteq Texts
  /\ NoName \notin Usernames
  /\ MaxUsers \in Nat /\ MaxMessages \in Nat /\ MaxId \in Nat /\ MaxInFlight \in Nat

VARIABLES
  at,        \* at[c]: "away", "header", or the operation whose payload is received next
  is_logged, user,
  in,        \* what the client has sent and the server not received
  due,       \* the operation whose payload the client has yet to send, or "none"
  out,       \* replies on their way to the client
  ended,     \* nothing more will arrive, in either direction
  accounts, board, next_message_id

session == <<is_logged, user>>
stream == <<in, due, out, ended>>
stores == <<accounts, board, next_message_id>>
vars == <<at, session, stream, stores>>

AuthPayload == [username : Usernames, password : Passwords]
MessagePayload == [text : Texts]
DeletePayload == [message_id : 1 .. MaxId]
Junk == [junk : {TRUE}]

WithPayload == {"register", "login", "post", "delete"}
Operations == WithPayload \cup {"logout", "read", "unknown"}

Payloads(op) ==
  CASE op \in {"register", "login"} -> AuthPayload
    [] op = "post" -> MessagePayload
    [] op = "delete" -> DeletePayload
    [] op = "read" -> Junk

\* A header says whether payload_length is the one that goes with the operation: the
\* size of its structure, or 0 for one that has none.
Headers == [kind : {"header"}, op : Operations, fits : BOOLEAN]
Header(op, fits) == [kind |-> "header", op |-> op, fits |-> fits]

\* Of a payload that the end of the connection cuts short at least a byte arrives.
Payload(data) == [kind |-> "payload", data |-> data]
Part == [kind |-> "part"]
PayloadsOf(op) == {Payload(data) : data \in Payloads(op)} \cup {Part}

\* The operation whose payload comes after this item: a length that does not fit is 0
\* where a structure belongs, and more than 0 for a request to read.
Follows(item) ==
  IF /\ item.kind = "header"
     /\ (item.op \in WithPayload /\ item.fits) \/ (item.op = "read" /\ ~item.fits)
  THEN item.op ELSE "none"

Message == [id : 1 .. MaxId, sender : Usernames, text : Texts]
\* torn: the connection has cut the reply in the middle of a message after these.
Replies == [type : {"success", "error"}, messages : Seq(Message), torn : BOOLEAN]
Success == [type |-> "success", messages |-> <<>>, torn |-> FALSE]
Error == [Success EXCEPT !.type = "error"]
Contents(messages) == [Success EXCEPT !.messages = messages]

TypeOK ==
  /\ at \in [Conns -> {"away", "header", "read"} \cup WithPayload]
  /\ is_logged \in [Conns -> BOOLEAN]
  /\ user \in [Conns -> Usernames \cup {NoName}]
  /\ in \in [Conns -> Seq(Headers \cup UNION {PayloadsOf(op) : op \in WithPayload \cup {"read"}})]
  /\ due \in [Conns -> {"none", "read"} \cup WithPayload]
  /\ out \in [Conns -> Seq(Replies)]
  /\ ended \in [Conns -> BOOLEAN]
  /\ accounts \subseteq AuthPayload /\ Cardinality(accounts) <= MaxUsers
  /\ board \in Seq(Message) /\ Len(board) <= MaxMessages
  /\ next_message_id \in Nat \ {0}

Init ==
  /\ at = [c \in Conns |-> "away"]
  /\ is_logged = [c \in Conns |-> FALSE]
  /\ user = [c \in Conns |-> NoName]
  /\ in = [c \in Conns |-> <<>>]
  /\ due = [c \in Conns |-> "none"]
  /\ out = [c \in Conns |-> <<>>]
  /\ ended = [c \in Conns |-> TRUE]
  /\ accounts = {}
  /\ board = <<>>
  /\ next_message_id = 1

-------------------------------------------------------------------------------
(* The connection. *)

FirstItem(c) == Head(in[c])
Consume(c) == in' = [in EXCEPT ![c] = Tail(@)]

\* send_all to a peer that is gone, or on a socket that was shut down, is in vain.
Reply_OnlySuccess(c, reply) ==
  out' = IF ended[c] \/ reply.type = "error" THEN out ELSE [out EXCEPT ![c] = Append(@, reply)]

Reply(c, reply) ==
  out' = IF ended[c] THEN out ELSE [out EXCEPT ![c] = Append(@, reply)]

\* recv_all into the structure of an operation returns at the end of the connection
\* with what there is: the rest of the structure is whatever the stack holds.
recv_all(item, op) == IF item = Part THEN Payloads(op) ELSE {item.data}

Received(c, op) ==
  IF at[c] = op /\ in[c] # <<>> THEN recv_all(FirstItem(c), op) ELSE {}

HeaderIs(c, op, fits) ==
  at[c] = "header" /\ in[c] # <<>> /\ FirstItem(c) = Header(op, fits)

NextHeader(c) == at' = [at EXCEPT ![c] = "header"]

SetSession_KeepsLogin(c, logged, name) ==
  /\ is_logged' = [is_logged EXCEPT ![c] = @ \/ logged]
  /\ user' = [user EXCEPT ![c] = name]

SetSession(c, logged, name) ==
  /\ is_logged' = [is_logged EXCEPT ![c] = logged]
  /\ user' = [user EXCEPT ![c] = name]

-------------------------------------------------------------------------------
(* The caches. *)

authenticate_user(a) == a \in accounts

\* register_user refuses when the cache is full or the name taken.
CanRegister(a) ==
  /\ Cardinality(accounts) < MaxUsers
  /\ \A b \in accounts : b.username # a.username

HasRoom_ForOneMore == Len(board) <= MaxMessages

HasRoom == Len(board) < MaxMessages

NewId_ByCount == Len(board) + 1

NewId == next_message_id

save_message(sender, text) ==
  /\ HasRoom
  /\ board' = Append(board, [id |-> NewId, sender |-> sender, text |-> text])
  /\ next_message_id' = next_message_id + 1

IsHis_AnyMessage(k, id, name) == board[k].id = id

IsHis(k, id, name) == board[k].id = id /\ board[k].sender = name

Owns(id, name) == \E k \in 1 .. Len(board) : IsHis(k, id, name)

\* The first message with that number and that sender goes.
delete_message(id, name) ==
  \E k \in 1 .. Len(board) :
    /\ IsHis(k, id, name)
    /\ \A j \in 1 .. k - 1 : ~IsHis(j, id, name)
    /\ board' = Without(board, k)

-------------------------------------------------------------------------------
(* The requests: what is decided on the header ... *)

\* A length that is not the structure's: the error is sent and nothing received.  To
\* post and delete, the login comes first.
RefuseSize(c) ==
  /\ \E op \in WithPayload :
       /\ HeaderIs(c, op, FALSE)
       /\ op \in {"post", "delete"} => is_logged[c]
  /\ Consume(c) /\ Reply(c, Error)
  /\ UNCHANGED <<at, session, due, ended, stores>>

\* Not logged in: the error is sent, and the payload received and thrown away.
ThrowAway_Nothing(c, op) == UNCHANGED at

ThrowAway(c, op) == at' = [at EXCEPT ![c] = op]

RefuseAnonymous(c) ==
  /\ ~is_logged[c]
  /\ \E op \in {"post", "delete"} :
       \/ HeaderIs(c, op, TRUE) /\ ThrowAway(c, op)
       \/ HeaderIs(c, op, FALSE) /\ UNCHANGED at
  /\ Consume(c) /\ Reply(c, Error)
  /\ UNCHANGED <<session, due, ended, stores>>

AcceptRequest(c) ==
  /\ \E op \in WithPayload :
       /\ HeaderIs(c, op, TRUE)
       /\ op \in {"post", "delete"} => is_logged[c]
       /\ at' = [at EXCEPT ![c] = op]
  /\ Consume(c)
  /\ UNCHANGED <<session, due, out, ended, stores>>

process_logout(c) ==
  /\ HeaderIs(c, "logout", TRUE)
  /\ \/ is_logged[c] /\ Reply(c, Success) /\ SetSession(c, FALSE, NoName)
     \/ ~is_logged[c] /\ Reply(c, Error) /\ UNCHANGED session
  /\ Consume(c)
  /\ UNCHANGED <<at, due, ended, stores>>

\* A request to read has no payload.  If one is announced, it is received first and
\* the error sent then, see SkipPayload.
process_read_msg(c) ==
  /\ \/ /\ HeaderIs(c, "read", FALSE)
        /\ at' = [at EXCEPT ![c] = "read"]
        /\ UNCHANGED out
     \/ /\ HeaderIs(c, "read", TRUE)
        /\ Reply(c, IF is_logged[c] THEN Contents(board) ELSE Error)
        /\ UNCHANGED at
  /\ Consume(c)
  /\ UNCHANGED <<session, due, ended, stores>>

\* No reply.
UnknownRequest(c) ==
  /\ HeaderIs(c, "unknown", TRUE)
  /\ Consume(c)
  /\ UNCHANGED <<at, session, due, out, ended, stores>>

-------------------------------------------------------------------------------
(* ... and what is done with the payload. *)

SkipPayload(c) ==
  /\ in[c] # <<>>
  /\ \/ at[c] \in {"post", "delete"} /\ ~is_logged[c] /\ UNCHANGED out
     \/ at[c] = "read" /\ Reply(c, Error)
  /\ Consume(c) /\ NextHeader(c)
  /\ UNCHANGED <<session, due, ended, stores>>

NothingComes(c) == in[c] = <<>> /\ ended[c]

\* As if a count of 0 were to be tried again.
NoPayload_TriesAgain(c) ==
  /\ at[c] \notin {"away", "header"} /\ NothingComes(c)
  /\ UNCHANGED vars

\* The connection ended right after the header: back to the loop.
NoPayload(c) ==
  /\ at[c] \notin {"away", "header"} /\ NothingComes(c)
  /\ NextHeader(c)
  /\ UNCHANGED <<session, stream, stores>>

process_login(c) ==
  /\ \E a \in Received(c, "login") :
       \/ authenticate_user(a) /\ Reply(c, Success) /\ SetSession(c, TRUE, a.username)
       \/ ~authenticate_user(a) /\ Reply(c, Error) /\ SetSession(c, FALSE, NoName)
  /\ Consume(c) /\ NextHeader(c)
  /\ UNCHANGED <<due, ended, stores>>

\* A refusal ends the session but, unlike a refused login, keeps the name.
process_register(c) ==
  /\ \E a \in Received(c, "register") :
       \/ /\ CanRegister(a)
          /\ accounts' = accounts \cup {a}
          /\ Reply(c, Success) /\ SetSession(c, TRUE, a.username)
       \/ /\ ~CanRegister(a)
          /\ Reply(c, Error) /\ SetSession(c, FALSE, user[c])
          /\ UNCHANGED accounts
  /\ Consume(c) /\ NextHeader(c)
  /\ UNCHANGED <<due, ended, board, next_message_id>>

\* The sender is the session's user.
process_post_msg(c) ==
  /\ is_logged[c]
  /\ \E p \in Received(c, "post") :
       \/ save_message(user[c], p.text) /\ Reply(c, Success)
       \/ Len(board) = MaxMessages /\ Reply(c, Error) /\ UNCHANGED <<board, next_message_id>>
  /\ Consume(c) /\ NextHeader(c)
  /\ UNCHANGED <<session, due, ended, accounts>>

process_delete_msg(c) ==
  /\ is_logged[c]
  /\ \E p \in Received(c, "delete") :
       \/ delete_message(p.message_id, user[c]) /\ Reply(c, Success)
       \/ ~Owns(p.message_id, user[c]) /\ Reply(c, Error) /\ UNCHANGED board
  /\ Consume(c) /\ NextHeader(c)
  /\ UNCHANGED <<session, due, ended, accounts, next_message_id>>

\* The end of the loop: close, and the session's variables are gone.
Close(c) ==
  /\ at[c] = "header" /\ NothingComes(c)
  /\ at' = [at EXCEPT ![c] = "away"]
  /\ SetSession(c, FALSE, NoName)
  /\ UNCHANGED <<stream, stores>>

handle_client(c) ==
  \/ RefuseSize(c) \/ RefuseAnonymous(c) \/ AcceptRequest(c)
  \/ process_logout(c) \/ process_read_msg(c) \/ UnknownRequest(c)
  \/ SkipPayload(c) \/ NoPayload(c)
  \/ process_login(c) \/ process_register(c)
  \/ process_post_msg(c) \/ process_delete_msg(c)
  \/ Close(c)

-------------------------------------------------------------------------------
(* The other end. *)

\* A new connection, and a worker to serve it.
Open(c) ==
  /\ at[c] = "away"
  /\ at' = [at EXCEPT ![c] = "header"]
  /\ in' = [in EXCEPT ![c] = <<>>]
  /\ due' = [due EXCEPT ![c] = "none"]
  /\ out' = [out EXCEPT ![c] = <<>>]
  /\ ended' = [ended EXCEPT ![c] = FALSE]
  /\ UNCHANGED <<session, stores>>

\* MaxId bounds the posts, whose requests are on their way or being served.
Posting(c) ==
  at[c] = "post" \/ due[c] = "post" \/ \E k \in 1 .. Len(in[c]) : in[c][k] = Header("post", TRUE)

\* A client may ask before it has the reply to what it asked before.
CanAsk(c) ==
  /\ at[c] # "away" /\ ~ended[c] /\ due[c] = "none"
  /\ Len(in[c]) + Len(out[c]) < MaxInFlight

SendHeader(c, op, fits) ==
  /\ CanAsk(c)
  /\ op = "post" =>
       next_message_id + Cardinality({d \in Conns : Posting(d)}) <= MaxId /\ ~Posting(c)
  /\ in' = [in EXCEPT ![c] = Append(@, Header(op, fits))]
  /\ due' = [due EXCEPT ![c] = Follows(Header(op, fits))]
  /\ UNCHANGED <<at, session, out, ended, stores>>

SendPayload(c, data) ==
  /\ ~ended[c]
  /\ in' = [in EXCEPT ![c] = Append(@, Payload(data))]
  /\ due' = [due EXCEPT ![c] = "none"]
  /\ UNCHANGED <<at, session, out, ended, stores>>

TakeReply(c) ==
  /\ out[c] # <<>>
  /\ out' = [out EXCEPT ![c] = Tail(@)]
  /\ UNCHANGED <<at, session, in, due, ended, stores>>

\* What a client makes of a reply that is cut.  Of a header the type is there: of a
\* count that is not, 0 may be read from the stack.  A message of which a byte is there
\* counts.  Cut anywhere else, the reply is as good as none.
CutShort(reply) ==
  IF reply.messages = <<>> THEN {}
  ELSE {Success, [type |-> reply.type,
                  messages |-> SubSeq(reply.messages, 1, Len(reply.messages) - 1),
                  torn |-> TRUE]}

\* The client closes or dies, the network fails, or the server shuts the socket down:
\* of what was sent either way a part arrives, and of the last payload or reply perhaps
\* a part.
ConnectionEnds(c) ==
  /\ at[c] # "away" /\ ~ended[c]
  /\ ended' = [ended EXCEPT ![c] = TRUE]
  /\ due' = [due EXCEPT ![c] = "none"]
  /\ \E n \in 0 .. Len(in[c]) :
       \/ in' = [in EXCEPT ![c] = SubSeq(@, 1, n)]
       \/ /\ n < Len(in[c]) /\ in[c][n + 1].kind = "payload"
          /\ in' = [in EXCEPT ![c] = Append(SubSeq(@, 1, n), Part)]
  /\ \E n \in 0 .. Len(out[c]) :
       \/ out' = [out EXCEPT ![c] = SubSeq(@, 1, n)]
       \/ /\ n < Len(out[c])
          /\ \E part \in CutShort(out[c][n + 1]) :
               out' = [out EXCEPT ![c] = Append(SubSeq(@, 1, n), part)]
  /\ UNCHANGED <<at, session, stores>>

Composed(op) ==
  CASE op = "none" -> {}
    [] op = "post" -> [text : Written]
    [] OTHER -> Payloads(op)

\* What clients send is whole and well formed, but perhaps not what the server expects.
Client(c) ==
  \/ \E op \in Operations : SendHeader(c, op, TRUE)
  \/ \E op \in WithPayload \cup {"read"} : SendHeader(c, op, FALSE)
  \/ \E data \in Composed(due[c]) : SendPayload(c, data)
  \/ TakeReply(c)

Next == \E c \in Conns : handle_client(c) \/ Open(c) \/ Client(c) \/ ConnectionEnds(c)

\* A worker that can receive runs on.  Clients need not send, read or leave.
Fairness == \A c \in Conns : WF_vars(handle_client(c))

Spec == Init /\ [][Next]_vars /\ Fairness

-------------------------------------------------------------------------------
(* Properties *)

\* What the server receives next is what the client sends next: a header where it
\* reads a header and, where it reads a payload, one of that operation, whatever was
\* refused before and whoever was not logged in.
Owed(c, k) ==
  IF k = 1
  THEN IF at[c] = "header" THEN "none" ELSE at[c]
  ELSE Follows(in[c][k - 1])

Expected(op) == IF op = "none" THEN Headers ELSE PayloadsOf(op)

FramesInStep ==
  \A c \in Conns : at[c] # "away" =>
    /\ \A k \in 1 .. Len(in[c]) : in[c][k] \in Expected(Owed(c, k))
    /\ ~ended[c] => due[c] = Owed(c, Len(in[c]) + 1)

\* A session is logged in as the owner of an account, and every message on the board
\* is from one.
SenderHasAccount ==
  LET Owners == {a.username : a \in accounts}
  IN  /\ \A c \in Conns : is_logged[c] => user[c] \in Owners
      /\ \A k \in 1 .. Len(board) : board[k].sender \in Owners

\* The request that a worker is about to receive names the message's number, or was cut
\* short, so that the number is whatever the stack holds; and the session is its sender's.
AsksToDelete(c, m) ==
  /\ at[c] = "delete" /\ is_logged[c] /\ user[c] = m.sender
  /\ in[c] # <<>> /\ FirstItem(c) \in {Payload([message_id |-> m.id]), Part}

\* A message goes only in answer to a request to delete it, by a session of its sender.
DeletedByItsSender ==
  [][\A k \in 1 .. Len(board) :
       \/ \E j \in 1 .. Len(board') : board'[j] = board[k]
       \/ \E c \in Conns : AsksToDelete(c, board[k])]_vars

\* handle_client returns once its connection has ended, whatever had been sent before
\* and wherever the stream is cut: what Server.tla assumes of it.
SessionEnds == \A c \in Conns : ended[c] ~> at[c] = "away"

-------------------------------------------------------------------------------
(* What the documentation says and the code does not do. *)

\* README.md, the flow of REQ_POST_MSG: the second recv_all acquires the complete
\* payload before the message is saved.
SavedWhole == \A k \in 1 .. Len(board) : board[k].text \in Written
===============================================================================
