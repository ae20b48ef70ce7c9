-------------------------------- MODULE Protocol -------------------------------
(***************************************************************************)
(* client.c and client_controller.c at one end of each connection and the  *)
(* sessions of Session.tla at the other.  A client is in one of its two    *)
(* menus or in a call of the controller, which sends a header, a payload   *)
(* if there is one, and blocks in recv_all until the reply is there or the *)
(* connection has ended.  Requests that do not fit their structures and    *)
(* those of no known type are not sent by this client.                     *)
(***************************************************************************)
EXTENDS Naturals, Sequences, FiniteSets

CONSTANTS
  Conns, Usernames, Passwords, Texts, Written, NoName,
  MaxUsers, MaxMessages, MaxId, MaxInFlight,  \* as in Session
  Lasting  \* a bound for model checking: these connections, once made, do not end

ASSUME ProtocolAssumption ==
  /\ IsFiniteSet(Conns)
  /\ Written \subseteq Texts
  /\ NoName \notin Usernames
  /\ MaxUsers \in Nat /\ MaxMessages \in Nat /\ MaxId \in Nat /\ MaxInFlight \in Nat
  /\ Lasting \subseteq Conns

VARIABLES
  at, is_logged, user, in, due, out, ended, accounts, board, next_message_id,  \* as there
  pc,        \* the client: "off", in a "menu", about to "send" a payload, or in "wait"
  menu,      \* "auth" (auth_client), "user" (user_loop) or "quit" (about to disconnect)
  asked,     \* the operation of the current call
  username,  \* the buffer of main, while it matters
  seen       \* history: what the last successful dakty_read_messages of any client returned

server == <<at, is_logged, user, in, due, out, ended, accounts, board, next_message_id>>
client == <<pc, menu, asked, username, seen>>
vars == <<server, client>>

Server == INSTANCE Session

Init ==
  /\ Server!Init
  /\ pc = [c \in Conns |-> "off"]
  /\ menu = [c \in Conns |-> "auth"]
  /\ asked = [c \in Conns |-> "none"]
  /\ username = [c \in Conns |-> NoName]
  /\ seen = {}

-------------------------------------------------------------------------------
(* The menus, and the first half of a call of the controller. *)

\* What is sent on a connection that has ended is lost, if SIGPIPE does not end the
\* client first (see Exit).
Request(c, op) ==
  /\ pc[c] = "menu"
  /\ \/ Server!SendHeader(c, op, TRUE)
     \/ ended[c] /\ UNCHANGED server
  /\ asked' = [asked EXCEPT ![c] = op]
  /\ pc' = [pc EXCEPT ![c] = IF op \in Server!WithPayload THEN "send" ELSE "wait"]
  /\ UNCHANGED <<menu, seen>>

auth_client(c) ==
  /\ menu[c] = "auth"
  /\ \E op \in {"login", "register"} : Request(c, op)
  /\ \E name \in Usernames : username' = [username EXCEPT ![c] = name]

user_loop(c) ==
  /\ menu[c] = "user"
  /\ \E op \in {"read", "post", "delete", "logout"} : Request(c, op)
  /\ UNCHANGED username

SendRest(c) ==
  /\ pc[c] = "send"
  /\ \/ \E data \in Server!Composed(due[c]) :
          /\ asked[c] \in {"login", "register"} => data.username = username[c]
          /\ Server!SendPayload(c, data)
     \/ ended[c] /\ UNCHANGED server
  /\ pc' = [pc EXCEPT ![c] = "wait"]
  /\ UNCHANGED <<menu, asked, username, seen>>

-------------------------------------------------------------------------------
(* The second half: the call returns, and the menu goes on. *)

\* A reply, or the end of the connection, which counts as an error.
Returns(c, op, ok) ==
  /\ pc[c] = "wait" /\ asked[c] = op
  /\ \/ Server!TakeReply(c) /\ ok = (Head(out[c]).type = "success")
     \/ out[c] = <<>> /\ ended[c] /\ ok = FALSE /\ UNCHANGED server
  /\ pc' = [pc EXCEPT ![c] = "menu"]
  /\ asked' = [asked EXCEPT ![c] = "none"]

\* Outside user_loop the name is not read before it is written again.
GoTo(c, next) ==
  /\ menu' = [menu EXCEPT ![c] = next]
  /\ username' = IF next = "user" THEN username ELSE [username EXCEPT ![c] = NoName]

dakty_login(c) ==
  \E ok \in BOOLEAN :
    Returns(c, "login", ok) /\ GoTo(c, IF ok THEN "user" ELSE "auth") /\ UNCHANGED seen

dakty_register(c) ==
  \E ok \in BOOLEAN :
    Returns(c, "register", ok) /\ GoTo(c, IF ok THEN "user" ELSE "auth") /\ UNCHANGED seen

dakty_logout(c) ==
  \E ok \in BOOLEAN :
    Returns(c, "logout", ok) /\ GoTo(c, IF ok THEN "auth" ELSE "quit") /\ UNCHANGED seen

dakty_post_message(c) ==
  \E ok \in BOOLEAN : Returns(c, "post", ok) /\ UNCHANGED <<menu, username, seen>>

dakty_delete_message(c) ==
  \E ok \in BOOLEAN : Returns(c, "delete", ok) /\ UNCHANGED <<menu, username, seen>>

\* An error counts as the end of the connection.
dakty_read_messages(c) ==
  \/ /\ Returns(c, "read", TRUE)
     /\ seen' = {Head(out[c]).messages[k] : k \in 1 .. Len(Head(out[c]).messages)}
     /\ UNCHANGED <<menu, username>>
  \/ Returns(c, "read", FALSE) /\ GoTo(c, "quit") /\ UNCHANGED seen

CallReturns(c) ==
  \/ dakty_login(c) \/ dakty_register(c) \/ dakty_logout(c)
  \/ dakty_post_message(c) \/ dakty_delete_message(c) \/ dakty_read_messages(c)

-------------------------------------------------------------------------------
(* The start and the end of a client, and the server's part. *)

dakty_connect(c) ==
  /\ pc[c] = "off"
  /\ Server!Open(c)
  /\ pc' = [pc EXCEPT ![c] = "menu"]
  /\ UNCHANGED <<menu, asked, username, seen>>

\* The user leaves by a menu, by SIGINT or by the end of stdin, SIGPIPE comes, or main
\* is through: at any point.
Exit(c) ==
  /\ pc[c] # "off" /\ c \notin Lasting
  /\ \/ Server!ConnectionEnds(c)
     \/ ended[c] /\ UNCHANGED server
  /\ pc' = [pc EXCEPT ![c] = "off"]
  /\ menu' = [menu EXCEPT ![c] = "auth"]
  /\ asked' = [asked EXCEPT ![c] = "none"]
  /\ username' = [username EXCEPT ![c] = NoName]
  /\ UNCHANGED seen

\* The network fails, or the server's shutdown reaches the connection.
ConnectionLost(c) ==
  /\ c \notin Lasting
  /\ Server!ConnectionEnds(c)
  /\ UNCHANGED client

Serve(c) == Server!handle_client(c) /\ UNCHANGED client

Next ==
  \E c \in Conns :
    \/ dakty_connect(c) \/ auth_client(c) \/ user_loop(c)
    \/ SendRest(c) \/ CallReturns(c) \/ Exit(c)
    \/ ConnectionLost(c)
    \/ Serve(c)

Spec == Init /\ [][Next]_vars

-------------------------------------------------------------------------------
(* Properties *)

\* As long as the connection lasts, a call that has begun has one answer coming: its
\* request is on the way, or being served, or its reply is on the way; and outside a
\* call nothing is, so no reply is ever taken for the answer to another request.
Owing(c) ==
  at[c] \in {"register", "login", "read"} \/ (at[c] \in {"post", "delete"} /\ is_logged[c])

Coming(c) ==
  Cardinality({k \in 1 .. Len(in[c]) : in[c][k].kind = "header"})
    + (IF Owing(c) THEN 1 ELSE 0) + Len(out[c])

OneAnswerDue ==
  \A c \in Conns : pc[c] # "off" /\ ~ended[c] =>
    Coming(c) = IF pc[c] = "menu" THEN 0 ELSE 1

\* Between calls, client and server agree on whether somebody is logged in, and on
\* who; and the client gives up only when the connection has ended.
ViewsAgree ==
  \A c \in Conns : pc[c] = "menu" =>
    \/ ended[c]
    \/ menu[c] = "auth" /\ ~is_logged[c]
    \/ menu[c] = "user" /\ is_logged[c] /\ user[c] = username[c]

\* A number that some client has read names the same message for as long as there is one
\* of that number: a request to delete it hits what was read or nothing, whatever other
\* sessions post and delete in between.
SeenKeepsItsNumber ==
  \A m \in seen : \A k \in 1 .. Len(board) : board[k].id = m.id => board[k] = m
===============================================================================
