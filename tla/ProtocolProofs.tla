---------------------------- MODULE ProtocolProofs ----------------------------
(***************************************************************************)
(* The safety of Protocol for every set of connections, of names,          *)
(* passwords and texts, and every size of the caches, from that of the     *)
(* sessions.                                                               *)
(***************************************************************************)
EXTENDS Protocol, SequenceTheorems, FiniteSetTheorems, TLAPS

SessionFacts == INSTANCE SessionProofs

-------------------------------------------------------------------------------
(* The sessions at the other end are those of SessionProofs. *)

\* What the sessions' proofs assume is assumed here.
LEMMA SessionsMayRun == SessionFacts!SessionAssumption
BY ProtocolAssumption DEF SessionFacts!SessionAssumption, SessionFacts!IsFiniteSet, IsFiniteSet

\* What travels is the same in both instances.
LEMMA SameItems ==
  /\ \A op, fits : Server!Header(op, fits) = SessionFacts!Header(op, fits)
  /\ Server!Success = SessionFacts!Success /\ Server!Error = SessionFacts!Error
  /\ Server!Contents(board) = SessionFacts!Contents(board)
  /\ \A data : Server!Payload(data) = SessionFacts!Payload(data)
  /\ Server!Part = SessionFacts!Part
  /\ \A op : Server!Payloads(op) = SessionFacts!Payloads(op)
  /\ Server!WithPayload = SessionFacts!WithPayload
  /\ Server!Operations = SessionFacts!Operations
<1>1. Server!Success = SessionFacts!Success /\ Server!Error = SessionFacts!Error
  BY DEF Server!Success, SessionFacts!Success, Server!Error, SessionFacts!Error
<1>2. Server!Contents(board) = SessionFacts!Contents(board)
  BY DEF Server!Contents, SessionFacts!Contents, Server!Success, SessionFacts!Success
<1>3. \A op : Server!Payloads(op) = SessionFacts!Payloads(op)
  BY DEF Server!Payloads, SessionFacts!Payloads, Server!AuthPayload, SessionFacts!AuthPayload,
         Server!MessagePayload, SessionFacts!MessagePayload, Server!DeletePayload,
         SessionFacts!DeletePayload, Server!Junk, SessionFacts!Junk
<1>4. QED
  BY <1>1, <1>2, <1>3
  DEF Server!Header, SessionFacts!Header, Server!Payload, SessionFacts!Payload,
      Server!Part, SessionFacts!Part, Server!WithPayload, SessionFacts!WithPayload,
      Server!Operations, SessionFacts!Operations

\* What the handlers are made of is, too.
LEMMA SameHelpers ==
  ASSUME NEW c
  PROVE  /\ Server!Consume(c) <=> SessionFacts!Consume(c)
         /\ Server!NextHeader(c) <=> SessionFacts!NextHeader(c)
         /\ \A reply : Server!Reply(c, reply) <=> SessionFacts!Reply(c, reply)
         /\ \A op, fits : Server!HeaderIs(c, op, fits) <=> SessionFacts!HeaderIs(c, op, fits)
         /\ \A op : Server!Received(c, op) = SessionFacts!Received(c, op)
         /\ \A logged, name :
              Server!SetSession(c, logged, name) <=> SessionFacts!SetSession(c, logged, name)
         /\ Server!NothingComes(c) <=> SessionFacts!NothingComes(c)
<1>1. \A op, fits : Server!HeaderIs(c, op, fits) <=> SessionFacts!HeaderIs(c, op, fits)
  BY SameItems DEF Server!HeaderIs, SessionFacts!HeaderIs, Server!FirstItem, SessionFacts!FirstItem
<1>2. \A op : Server!Received(c, op) = SessionFacts!Received(c, op)
  BY SameItems DEF Server!Received, SessionFacts!Received, Server!recv_all,
                   SessionFacts!recv_all, Server!FirstItem, SessionFacts!FirstItem
<1>3. QED
  BY <1>1, <1>2
  DEF Server!Consume, SessionFacts!Consume, Server!NextHeader, SessionFacts!NextHeader,
      Server!Reply, SessionFacts!Reply, Server!SetSession, SessionFacts!SetSession,
      Server!NothingComes, SessionFacts!NothingComes

\* The handlers.
LEMMA SameHandlers == \A c : Server!handle_client(c) <=> SessionFacts!handle_client(c)
<1> SUFFICES ASSUME NEW c PROVE Server!handle_client(c) <=> SessionFacts!handle_client(c)
  OBVIOUS
<1> USE SameHelpers, SameItems DEF Server!session, SessionFacts!session, Server!stream,
      SessionFacts!stream, Server!stores, SessionFacts!stores
<1>1. /\ Server!RefuseSize(c) <=> SessionFacts!RefuseSize(c)
      /\ Server!RefuseAnonymous(c) <=> SessionFacts!RefuseAnonymous(c)
      /\ Server!AcceptRequest(c) <=> SessionFacts!AcceptRequest(c)
  BY DEF Server!RefuseSize, SessionFacts!RefuseSize, Server!RefuseAnonymous,
         SessionFacts!RefuseAnonymous, Server!ThrowAway, SessionFacts!ThrowAway,
         Server!AcceptRequest, SessionFacts!AcceptRequest
<1>2. /\ Server!process_logout(c) <=> SessionFacts!process_logout(c)
      /\ Server!process_read_msg(c) <=> SessionFacts!process_read_msg(c)
      /\ Server!UnknownRequest(c) <=> SessionFacts!UnknownRequest(c)
  BY DEF Server!process_logout, SessionFacts!process_logout, Server!process_read_msg,
         SessionFacts!process_read_msg, Server!UnknownRequest, SessionFacts!UnknownRequest
<1>3. /\ Server!SkipPayload(c) <=> SessionFacts!SkipPayload(c)
      /\ Server!NoPayload(c) <=> SessionFacts!NoPayload(c)
      /\ Server!Close(c) <=> SessionFacts!Close(c)
  BY DEF Server!SkipPayload, SessionFacts!SkipPayload, Server!NoPayload, SessionFacts!NoPayload,
         Server!Close, SessionFacts!Close
<1>4. Server!process_login(c) <=> SessionFacts!process_login(c)
  BY DEF Server!process_login, SessionFacts!process_login, Server!authenticate_user,
         SessionFacts!authenticate_user
<1>5. Server!process_register(c) <=> SessionFacts!process_register(c)
  BY DEF Server!process_register, SessionFacts!process_register, Server!CanRegister,
         SessionFacts!CanRegister, Server!Cardinality, SessionFacts!Cardinality
<1>6. Server!process_post_msg(c) <=> SessionFacts!process_post_msg(c)
  BY DEF Server!process_post_msg, SessionFacts!process_post_msg, Server!save_message,
         SessionFacts!save_message, Server!HasRoom, SessionFacts!HasRoom, Server!NewId,
         SessionFacts!NewId
<1>7. Server!process_delete_msg(c) <=> SessionFacts!process_delete_msg(c)
  BY DEF Server!process_delete_msg, SessionFacts!process_delete_msg, Server!delete_message,
         SessionFacts!delete_message, Server!Owns, SessionFacts!Owns, Server!IsHis,
         SessionFacts!IsHis, Server!Without, SessionFacts!Without
<1>8. QED
  BY <1>1, <1>2, <1>3, <1>4, <1>5, <1>6, <1>7
  DEF Server!handle_client, SessionFacts!handle_client

\* What clients and connections do.
LEMMA SameClients ==
  \A c : /\ Server!Open(c) <=> SessionFacts!Open(c)
         /\ Server!Client(c) <=> SessionFacts!Client(c)
         /\ Server!ConnectionEnds(c) <=> SessionFacts!ConnectionEnds(c)
<1> SUFFICES ASSUME NEW c
             PROVE  /\ Server!Open(c) <=> SessionFacts!Open(c)
                    /\ Server!Client(c) <=> SessionFacts!Client(c)
                    /\ Server!ConnectionEnds(c) <=> SessionFacts!ConnectionEnds(c)
  OBVIOUS
<1> USE SameItems DEF Server!session, SessionFacts!session, Server!stores, SessionFacts!stores
<1>1. Server!Open(c) <=> SessionFacts!Open(c)
  BY DEF Server!Open, SessionFacts!Open
<1>2. \A op, fits : Server!SendHeader(c, op, fits) <=> SessionFacts!SendHeader(c, op, fits)
  <2>1. \A d : Server!Posting(d) <=> SessionFacts!Posting(d)
    BY DEF Server!Posting, SessionFacts!Posting
  <2>2. {d \in Conns : Server!Posting(d)} = {d \in Conns : SessionFacts!Posting(d)}
    BY <2>1
  <2>3. \A op, fits : Server!Follows(Server!Header(op, fits))
                        = SessionFacts!Follows(SessionFacts!Header(op, fits))
    BY DEF Server!Follows, SessionFacts!Follows
  <2>4. QED
    BY <2>1, <2>2, <2>3
    DEF Server!SendHeader, SessionFacts!SendHeader, Server!CanAsk, SessionFacts!CanAsk,
        Server!Cardinality, SessionFacts!Cardinality
<1>3. \A data : Server!SendPayload(c, data) <=> SessionFacts!SendPayload(c, data)
  BY DEF Server!SendPayload, SessionFacts!SendPayload
<1>4. Server!TakeReply(c) <=> SessionFacts!TakeReply(c)
  BY DEF Server!TakeReply, SessionFacts!TakeReply
<1>5. \A op : Server!Composed(op) = SessionFacts!Composed(op)
  BY DEF Server!Composed, SessionFacts!Composed
<1>6. Server!Client(c) <=> SessionFacts!Client(c)
  BY <1>2, <1>3, <1>4, <1>5 DEF Server!Client, SessionFacts!Client
<1>7. \A reply : Server!CutShort(reply) = SessionFacts!CutShort(reply)
  BY DEF Server!CutShort, SessionFacts!CutShort
<1>8. Server!ConnectionEnds(c) <=> SessionFacts!ConnectionEnds(c)
  BY <1>7 DEF Server!ConnectionEnds, SessionFacts!ConnectionEnds
<1>9. QED
  BY <1>1, <1>6, <1>8

\* The invariant of the sessions, as this module uses it.
LEMMA SessionsKeepInvariant ==
  /\ Server!Init => SessionFacts!IInv
  /\ SessionFacts!IInv /\ [Server!Next]_(Server!vars) => SessionFacts!IInv'
<1>1. Server!Init <=> SessionFacts!Init
  BY DEF Server!Init, SessionFacts!Init
<1>2. Server!Next <=> SessionFacts!Next
  BY SameHandlers, SameClients DEF Server!Next, SessionFacts!Next
<1>3. UNCHANGED Server!vars <=> UNCHANGED SessionFacts!vars
  BY DEF Server!vars, SessionFacts!vars, Server!session, SessionFacts!session, Server!stream,
         SessionFacts!stream, Server!stores, SessionFacts!stores
<1>4. QED
  BY <1>1, <1>2, <1>3, SessionsMayRun, SessionFacts!InitInv, SessionFacts!StepInv

-------------------------------------------------------------------------------
(* The client is one of the clients that Session allows. *)

\* Every step is one of a session, or leaves the sessions alone.
LEMMA StepIsSessionStep == [Next]_vars => [Server!Next]_(Server!vars)
<1> SUFFICES ASSUME [Next]_vars PROVE Server!Next \/ UNCHANGED Server!vars
  OBVIOUS
<1>1. CASE UNCHANGED server
  BY <1>1 DEF server, Server!vars, Server!session, Server!stream, Server!stores
<1>2. ASSUME NEW c \in Conns, Server!Client(c) \/ Server!Open(c) \/ Server!ConnectionEnds(c)
                                \/ Server!handle_client(c)
      PROVE  Server!Next
  BY <1>2 DEF Server!Next
<1>3. ASSUME NEW c \in Conns, NEW op \in Server!Operations, Request(c, op)
      PROVE  Server!Client(c) \/ UNCHANGED server
  BY <1>3 DEF Request, Server!Client
<1>4. ASSUME NEW c \in Conns, auth_client(c) \/ user_loop(c)
      PROVE  Server!Client(c) \/ UNCHANGED server
  <2>1. {"login", "register", "read", "post", "delete", "logout"} \subseteq Server!Operations
    BY DEF Server!Operations, Server!WithPayload
  <2>2. QED
    BY <1>3, <1>4, <2>1 DEF auth_client, user_loop
<1>5. ASSUME NEW c \in Conns, SendRest(c) PROVE Server!Client(c) \/ UNCHANGED server
  BY <1>5 DEF SendRest, Server!Client
<1>6. ASSUME NEW c \in Conns, CallReturns(c) PROVE Server!Client(c) \/ UNCHANGED server
  BY <1>6 DEF CallReturns, dakty_login, dakty_register, dakty_logout, dakty_post_message,
              dakty_delete_message, dakty_read_messages, Returns, Server!Client
<1>7. ASSUME NEW c \in Conns, dakty_connect(c) \/ Exit(c) \/ ConnectionLost(c) \/ Serve(c)
      PROVE  Server!Next \/ UNCHANGED server
  BY <1>2, <1>7 DEF dakty_connect, Exit, ConnectionLost, Serve
<1>8. CASE UNCHANGED vars
  BY <1>1, <1>8 DEF vars
<1>9. QED
  BY <1>1, <1>2, <1>4, <1>5, <1>6, <1>7, <1>8 DEF Next

\* client.c keeps to what Session takes clients to do, so that what is proved of
\* sessions holds of those it opens: the stream stays in step among other things.
THEOREM ClientsAreClients ==
  Spec => Server!Init /\ [][Server!Next]_(Server!vars) /\ []SessionFacts!IInv
<1>1. Init => Server!Init
  BY DEF Init
<1>2. QED
  BY <1>1, StepIsSessionStep, SessionsKeepInvariant, PTL DEF Spec

-------------------------------------------------------------------------------
(* The invariant: how far a call has got, connection by connection. *)

Calls == {"login", "register", "logout", "read", "post", "delete"}

\* Client and server agree on who is logged in.
Agree(c) ==
  \/ menu[c] = "auth" /\ ~is_logged[c]
  \/ menu[c] = "user" /\ is_logged[c] /\ user[c] = username[c]

\* The call is one of the menu the client is in.
Offered(c) ==
  \/ menu[c] = "auth" /\ asked[c] \in {"login", "register"}
  \/ menu[c] = "user" /\ asked[c] \in {"logout", "read", "post", "delete"}

Ask(c) == Server!Header(asked[c], TRUE)

\* The payload names whom the client will take itself for.
Names(c, data) == asked[c] \in {"login", "register"} => data.username = username[c]

Between(c) ==
  /\ pc[c] = "menu" /\ Agree(c)
  /\ at[c] = "header" /\ in[c] = <<>> /\ due[c] = "none" /\ out[c] = <<>>

Sending(c) ==
  /\ pc[c] = "send" /\ Agree(c) /\ Offered(c)
  /\ asked[c] \in Server!WithPayload /\ due[c] = asked[c] /\ out[c] = <<>>
  /\ \/ at[c] = "header" /\ in[c] = <<Ask(c)>>
     \/ at[c] = asked[c] /\ in[c] = <<>>

Underway(c) ==
  /\ pc[c] = "wait" /\ Agree(c) /\ Offered(c)
  /\ due[c] = "none" /\ out[c] = <<>>
  /\ \/ /\ asked[c] \notin Server!WithPayload
        /\ at[c] = "header" /\ in[c] = <<Ask(c)>>
     \/ /\ asked[c] \in Server!WithPayload
        /\ \E data : /\ Names(c, data)
                     /\ \/ at[c] = "header" /\ in[c] = <<Ask(c), Server!Payload(data)>>
                        \/ at[c] = asked[c] /\ in[c] = <<Server!Payload(data)>>

\* What the reply says is what the server did.
Fits(c, type) ==
  \/ /\ asked[c] \in {"login", "register"}
     /\ \/ type = "success" /\ is_logged[c] /\ user[c] = username[c]
        \/ type = "error" /\ ~is_logged[c]
  \/ asked[c] = "logout" /\ type = "success" /\ ~is_logged[c]
  \/ asked[c] = "read" /\ type = "success" /\ Agree(c)
  \/ asked[c] \in {"post", "delete"} /\ Agree(c)

Answered(c) ==
  /\ pc[c] = "wait" /\ Offered(c)
  /\ at[c] = "header" /\ in[c] = <<>> /\ due[c] = "none"
  /\ \E reply : out[c] = <<reply>> /\ Fits(c, reply.type)

Conversing(c) ==
  pc[c] # "off" /\ ~ended[c] => Between(c) \/ Sending(c) \/ Underway(c) \/ Answered(c)

\* Nobody is logged in where no session runs, and a client starts at the first menu.
Fresh(c) ==
  /\ at[c] = "away" => ~is_logged[c]
  /\ pc[c] = "off" => menu[c] = "auth"

\* A function on the connections.
PerConn(f) == DOMAIN f = Conns /\ f = [c \in Conns |-> f[c]]

ClientTypes ==
  PerConn(pc) /\ PerConn(menu) /\ PerConn(asked) /\ PerConn(username) /\ PerConn(out)

TalkInv ==
  /\ SessionFacts!IInv
  /\ ClientTypes
  /\ \A c \in Conns : Conversing(c) /\ Fresh(c)

-------------------------------------------------------------------------------
(* One step, connection by connection. *)

\* Nothing that TalkInv says of the connection changes.
Still(c) ==
  /\ at'[c] = at[c] /\ (is_logged'[c] <=> is_logged[c]) /\ user'[c] = user[c]
  /\ in'[c] = in[c] /\ due'[c] = due[c] /\ out'[c] = out[c]
  /\ (ended'[c] <=> ended[c])
  /\ pc'[c] = pc[c] /\ menu'[c] = menu[c] /\ asked'[c] = asked[c]
  /\ username'[c] = username[c]

LEMMA StillKeeps ==
  ASSUME NEW c \in Conns, Conversing(c), Fresh(c), Still(c)
  PROVE  Conversing(c)' /\ Fresh(c)'
<1> USE DEF Still
<1>1. Agree(c)' <=> Agree(c)
  BY DEF Agree
<1>2. (Offered(c)' <=> Offered(c)) /\ Ask(c)' = Ask(c)
  BY DEF Offered, Ask, Server!Header
<1>3. \A data : Names(c, data)' <=> Names(c, data)
  BY DEF Names
<1>4. (Between(c)' <=> Between(c)) /\ (Sending(c)' <=> Sending(c))
  BY <1>1, <1>2 DEF Between, Sending, Server!WithPayload
<1>5. Underway(c)' <=> Underway(c)
  BY <1>1, <1>2, <1>3 DEF Underway, Server!WithPayload, Server!Payload
<1>6. \A type : Fits(c, type)' <=> Fits(c, type)
  BY <1>1 DEF Fits
<1>7. Answered(c)' <=> Answered(c)
  BY <1>2, <1>6 DEF Answered
<1>8. QED
  BY <1>4, <1>5, <1>7 DEF Conversing, Fresh

\* The functions of the sessions, as the steps below need them.
PerConnAll ==
  /\ PerConn(at) /\ PerConn(is_logged) /\ PerConn(user) /\ PerConn(in) /\ PerConn(due)
  /\ PerConn(ended)
  /\ ClientTypes

LEMMA SessionsPerConn == TalkInv => PerConnAll
BY DEF TalkInv, PerConnAll, PerConn, SessionFacts!IInv, SessionFacts!Types

-------------------------------------------------------------------------------
(* A step of one client, of its connection or of its session leaves the others alone. *)

\* g is f but perhaps for d.
Touches(d, f, g) == PerConn(g) /\ \A c \in Conns \ {d} : g[c] = f[c]

\* What a step may do to the sessions: all this on one connection.
SessionTouched(d) ==
  /\ Touches(d, at, at') /\ Touches(d, is_logged, is_logged') /\ Touches(d, user, user')
  /\ Touches(d, in, in') /\ Touches(d, due, due') /\ Touches(d, out, out')
  /\ Touches(d, ended, ended')

ClientTouched(d) ==
  /\ Touches(d, pc, pc') /\ Touches(d, menu, menu') /\ Touches(d, asked, asked')
  /\ Touches(d, username, username')

LEMMA SameTouches ==
  ASSUME PerConnAll, NEW d \in Conns
  PROVE  UNCHANGED server => SessionTouched(d)
<1>1. UNCHANGED server => UNCHANGED <<at, is_logged, user, in, due, out, ended>>
  BY DEF server
<1>2. QED
  BY <1>1 DEF SessionTouched, PerConnAll, ClientTypes, PerConn, Touches

LEMMA HelpersTouch ==
  ASSUME PerConnAll, NEW d \in Conns
  PROVE  /\ Server!Consume(d) => Touches(d, in, in')
         /\ Server!NextHeader(d) => Touches(d, at, at')
         /\ \A reply : Server!Reply(d, reply) => Touches(d, out, out')
         /\ \A logged, name : Server!SetSession(d, logged, name) =>
              Touches(d, is_logged, is_logged') /\ Touches(d, user, user')
         /\ UNCHANGED Server!session =>
              Touches(d, is_logged, is_logged') /\ Touches(d, user, user')
         /\ UNCHANGED at => Touches(d, at, at')
         /\ UNCHANGED in => Touches(d, in, in')
         /\ UNCHANGED due => Touches(d, due, due')
         /\ UNCHANGED out => Touches(d, out, out')
         /\ UNCHANGED ended => Touches(d, ended, ended')
<1> USE DEF PerConnAll, ClientTypes, PerConn, Touches
<1>1. Server!Consume(d) => Touches(d, in, in')
  BY DEF Server!Consume
<1>2. Server!NextHeader(d) => Touches(d, at, at')
  BY DEF Server!NextHeader
<1>3. \A reply : Server!Reply(d, reply) => Touches(d, out, out')
  BY DEF Server!Reply
<1>4. \A logged, name : Server!SetSession(d, logged, name) =>
        Touches(d, is_logged, is_logged') /\ Touches(d, user, user')
  BY DEF Server!SetSession
<1>5. UNCHANGED Server!session =>
        Touches(d, is_logged, is_logged') /\ Touches(d, user, user')
  BY DEF Server!session
<1>6. QED
  BY <1>1, <1>2, <1>3, <1>4, <1>5

LEMMA HandlersTouch ==
  ASSUME PerConnAll, NEW d \in Conns, Server!handle_client(d)
  PROVE  SessionTouched(d)
<1> USE HelpersTouch DEF SessionTouched
<1>1. CASE Server!RefuseSize(d) \/ Server!UnknownRequest(d)
  BY <1>1 DEF Server!RefuseSize, Server!UnknownRequest
<1>2. CASE Server!RefuseAnonymous(d) \/ Server!AcceptRequest(d)
  <2>1. Touches(d, at, at')
    BY <1>2 DEF Server!RefuseAnonymous, Server!ThrowAway, Server!AcceptRequest,
                PerConnAll, PerConn, Touches
  <2>2. QED
    BY <1>2, <2>1 DEF Server!RefuseAnonymous, Server!AcceptRequest
<1>3. CASE Server!process_logout(d)
  BY <1>3 DEF Server!process_logout
<1>4. CASE Server!process_read_msg(d)
  <2>1. Touches(d, at, at')
    BY <1>4 DEF Server!process_read_msg, PerConnAll, PerConn, Touches
  <2>2. QED
    BY <1>4, <2>1 DEF Server!process_read_msg
<1>5. CASE Server!SkipPayload(d)
  BY <1>5 DEF Server!SkipPayload
<1>6. CASE Server!NoPayload(d)
  BY <1>6 DEF Server!NoPayload, Server!stream
<1>7. CASE Server!process_login(d)
  BY <1>7 DEF Server!process_login
<1>8. CASE Server!process_register(d)
  BY <1>8 DEF Server!process_register
<1>9. CASE Server!process_post_msg(d)
  BY <1>9 DEF Server!process_post_msg
<1>10. CASE Server!process_delete_msg(d)
  BY <1>10 DEF Server!process_delete_msg
<1>11. CASE Server!Close(d)
  <2>1. Touches(d, at, at')
    BY <1>11 DEF Server!Close, PerConnAll, PerConn, Touches
  <2>2. QED
    BY <1>11, <2>1 DEF Server!Close, Server!stream
<1>12. QED
  BY <1>1, <1>2, <1>3, <1>4, <1>5, <1>6, <1>7, <1>8, <1>9, <1>10, <1>11 DEF Server!handle_client

LEMMA OthersTouch ==
  ASSUME PerConnAll, NEW d \in Conns
  PROVE  /\ \A op : Server!SendHeader(d, op, TRUE) => SessionTouched(d)
         /\ \A data : Server!SendPayload(d, data) => SessionTouched(d)
         /\ Server!TakeReply(d) => SessionTouched(d)
         /\ Server!Open(d) => SessionTouched(d)
         /\ Server!ConnectionEnds(d) => SessionTouched(d)
<1> USE DEF SessionTouched, PerConnAll, ClientTypes, PerConn, Touches, Server!session
<1>1. \A op : Server!SendHeader(d, op, TRUE) => SessionTouched(d)
  BY DEF Server!SendHeader
<1>2. \A data : Server!SendPayload(d, data) => SessionTouched(d)
  BY DEF Server!SendPayload
<1>3. Server!TakeReply(d) => SessionTouched(d)
  BY DEF Server!TakeReply
<1>4. ASSUME Server!Open(d) PROVE SessionTouched(d)
  <2>1. Touches(d, at, at') /\ Touches(d, ended, ended')
    BY <1>4 DEF Server!Open
  <2>2. Touches(d, in, in') /\ Touches(d, due, due') /\ Touches(d, out, out')
    BY <1>4 DEF Server!Open
  <2>3. Touches(d, is_logged, is_logged') /\ Touches(d, user, user')
    BY <1>4 DEF Server!Open
  <2>4. QED
    BY <2>1, <2>2, <2>3
<1>5. ASSUME Server!ConnectionEnds(d) PROVE SessionTouched(d)
  <2>1. \E i : in' = [in EXCEPT ![d] = i]
    BY ONLY <1>5, Zenon DEF Server!ConnectionEnds
  <2>2. \E o : out' = [out EXCEPT ![d] = o]
    BY ONLY <1>5, Zenon DEF Server!ConnectionEnds
  <2>3. /\ UNCHANGED <<at, is_logged, user>>
        /\ ended' = [ended EXCEPT ![d] = TRUE] /\ due' = [due EXCEPT ![d] = "none"]
    BY <1>5 DEF Server!ConnectionEnds
  <2>4. QED
    BY <2>1, <2>2, <2>3
<1>6. QED
  BY <1>1, <1>2, <1>3, <1>4, <1>5

LEMMA ClientsTouch ==
  ASSUME PerConnAll, NEW d \in Conns
  PROVE  /\ dakty_connect(d) => ClientTouched(d)
         /\ auth_client(d) \/ user_loop(d) => ClientTouched(d)
         /\ SendRest(d) => ClientTouched(d)
         /\ CallReturns(d) => ClientTouched(d)
         /\ Exit(d) => ClientTouched(d)
         /\ ConnectionLost(d) \/ Serve(d) => ClientTouched(d)
<1> USE DEF ClientTouched, PerConnAll, ClientTypes, PerConn, Touches
<1>1. dakty_connect(d) => ClientTouched(d)
  BY DEF dakty_connect
<1>2. auth_client(d) \/ user_loop(d) => ClientTouched(d)
  BY DEF auth_client, user_loop, Request
<1>3. SendRest(d) => ClientTouched(d)
  BY DEF SendRest
<1>4. \A next : GoTo(d, next) =>
        Touches(d, menu, menu') /\ Touches(d, username, username')
  BY DEF GoTo
<1>5. \A op, ok : Returns(d, op, ok) => Touches(d, pc, pc') /\ Touches(d, asked, asked')
  BY DEF Returns
<1>6. CallReturns(d) => ClientTouched(d)
  BY <1>4, <1>5 DEF CallReturns, dakty_login, dakty_register, dakty_logout,
                    dakty_post_message, dakty_delete_message, dakty_read_messages
<1>7. Exit(d) => ClientTouched(d)
  BY DEF Exit
<1>8. ConnectionLost(d) \/ Serve(d) => ClientTouched(d)
  BY DEF ConnectionLost, Serve, client
<1>9. QED
  BY <1>1, <1>2, <1>3, <1>6, <1>7, <1>8

\* All of a step on one connection: the others are still.
LEMMA TouchedIsApart ==
  ASSUME NEW d \in Conns, SessionTouched(d), ClientTouched(d)
  PROVE  ClientTypes' /\ \A c \in Conns \ {d} : Still(c)
BY DEF SessionTouched, ClientTouched, ClientTypes, Touches, Still, PerConn

-------------------------------------------------------------------------------
(* What the session does with what the client has sent. *)

\* Sequences of one or two items.
LEMMA ShortSequences ==
  /\ \A x : /\ <<x>> # <<>> /\ Head(<<x>>) = x /\ Tail(<<x>>) = <<>>
            /\ Append(<<>>, x) = <<x>>
  /\ \A x, y : /\ <<x, y>> # <<>> /\ Head(<<x, y>>) = x /\ Tail(<<x, y>>) = <<y>>
               /\ Append(<<x>>, y) = <<x, y>>
<1>1. \A x : /\ <<x>> # <<>> /\ Head(<<x>>) = x /\ Tail(<<x>>) = <<>>
             /\ Append(<<>>, x) = <<x>>
  OBVIOUS
<1>2. \A x, y : <<x, y>> # <<>> /\ Head(<<x, y>>) = x /\ Tail(<<x, y>>) = <<y>>
  OBVIOUS
<1>3. ASSUME NEW x, NEW y PROVE Append(<<x>>, y) = <<x, y>>
  <2>1. <<x>> \in Seq({x, y}) /\ Len(<<x>>) = 1 /\ <<x>>[1] = x
    OBVIOUS
  <2>2. <<x, y>> \in Seq({x, y}) /\ Len(<<x, y>>) = 2 /\ <<x, y>>[1] = x /\ <<x, y>>[2] = y
    OBVIOUS
  <2>3. /\ Append(<<x>>, y) \in Seq({x, y}) /\ Len(Append(<<x>>, y)) = 2
        /\ Append(<<x>>, y)[1] = x /\ Append(<<x>>, y)[2] = y
    BY <2>1, AppendProperties
  <2>4. \A k \in 1 .. Len(Append(<<x>>, y)) : Append(<<x>>, y)[k] = <<x, y>>[k]
    <3>1. \A k \in 1 .. 2 : k = 1 \/ k = 2
      OBVIOUS
    <3>2. QED
      BY <2>2, <2>3, <3>1
  <2>5. Len(Append(<<x>>, y)) = Len(<<x, y>>)
    BY <2>2, <2>3
  <2>6. QED
    BY ONLY <2>2, <2>3, <2>4, <2>5, SeqEqual
<1>4. QED
  BY <1>1, <1>2, <1>3

\* While nothing has been sent and the connection lasts the session waits.
LEMMA NothingToDo ==
  ASSUME NEW c \in Conns, in[c] = <<>>, ~ended[c]
  PROVE  ~Server!handle_client(c)
<1>1. ~Server!NothingComes(c)
  BY DEF Server!NothingComes
<1>2. \A op, fits : ~Server!HeaderIs(c, op, fits)
  BY DEF Server!HeaderIs
<1>3. \A op : Server!Received(c, op) = {}
  BY DEF Server!Received
<1>4. ~Server!RefuseSize(c) /\ ~Server!RefuseAnonymous(c) /\ ~Server!AcceptRequest(c)
  BY <1>2 DEF Server!RefuseSize, Server!RefuseAnonymous, Server!AcceptRequest
<1>5. ~Server!process_logout(c) /\ ~Server!process_read_msg(c) /\ ~Server!UnknownRequest(c)
  BY <1>2 DEF Server!process_logout, Server!process_read_msg, Server!UnknownRequest
<1>6. ~Server!SkipPayload(c) /\ ~Server!NoPayload(c) /\ ~Server!Close(c)
  BY <1>1 DEF Server!SkipPayload, Server!NoPayload, Server!Close
<1>7. /\ ~Server!process_login(c) /\ ~Server!process_register(c)
      /\ ~Server!process_post_msg(c) /\ ~Server!process_delete_msg(c)
  BY <1>3 DEF Server!process_login, Server!process_register, Server!process_post_msg,
              Server!process_delete_msg
<1>8. QED
  BY <1>4, <1>5, <1>6, <1>7 DEF Server!handle_client

\* Of a header that fits, only one handler can come.
LEMMA HeaderHandled ==
  ASSUME PerConnAll, NEW c \in Conns, Agree(c), Offered(c), ~ended[c],
         at[c] = "header", in[c] # <<>>, Head(in[c]) = Ask(c), Server!handle_client(c)
  PROVE  \/ /\ asked[c] \in Server!WithPayload
            /\ at'[c] = asked[c] /\ UNCHANGED <<is_logged, user, due, out, ended>>
            /\ Server!Consume(c)
         \/ /\ asked[c] = "logout" /\ Server!Reply(c, Server!Success)
            /\ Server!SetSession(c, FALSE, NoName)
            /\ UNCHANGED <<at, due, ended>> /\ Server!Consume(c)
         \/ /\ asked[c] = "read" /\ Server!Reply(c, Server!Contents(board))
            /\ UNCHANGED <<at, is_logged, user, due, ended>> /\ Server!Consume(c)
<1>1. \A op, fits : Server!HeaderIs(c, op, fits) => op = asked[c] /\ fits = TRUE
  BY DEF Server!HeaderIs, Server!FirstItem, Ask, Server!Header
<1>2. \A op : at[c] # op => Server!Received(c, op) = {}
  BY DEF Server!Received
<1>3. asked[c] \in {"post", "delete", "logout", "read"} => is_logged[c]
  BY DEF Agree, Offered
<1>4. ~Server!RefuseSize(c) /\ ~Server!RefuseAnonymous(c) /\ ~Server!UnknownRequest(c)
  <2>1. ~Server!RefuseSize(c)
    BY <1>1 DEF Server!RefuseSize
  <2>2. ASSUME Server!RefuseAnonymous(c) PROVE FALSE
    <3>1. PICK op \in {"post", "delete"} :
            Server!HeaderIs(c, op, TRUE) \/ Server!HeaderIs(c, op, FALSE)
      BY <2>2, Zenon DEF Server!RefuseAnonymous
    <3>2. ~is_logged[c]
      BY <2>2 DEF Server!RefuseAnonymous
    <3>3. QED
      BY <1>1, <1>3, <3>1, <3>2
  <2>3. ~Server!UnknownRequest(c)
    <3>1. asked[c] # "unknown"
      BY DEF Offered
    <3>2. Server!UnknownRequest(c) => Server!HeaderIs(c, "unknown", TRUE)
      BY DEF Server!UnknownRequest
    <3>3. QED
      BY <1>1, <3>1, <3>2
  <2>4. QED
    BY <2>1, <2>2, <2>3
<1>5. ~Server!SkipPayload(c) /\ ~Server!NoPayload(c) /\ ~Server!Close(c)
  BY DEF Server!SkipPayload, Server!NoPayload, Server!Close, Server!NothingComes
<1>6. /\ ~Server!process_login(c) /\ ~Server!process_register(c)
      /\ ~Server!process_post_msg(c) /\ ~Server!process_delete_msg(c)
  BY <1>2 DEF Server!process_login, Server!process_register, Server!process_post_msg,
              Server!process_delete_msg
<1>7. CASE Server!AcceptRequest(c)
  <2>1. asked[c] \in Server!WithPayload /\ at' = [at EXCEPT ![c] = asked[c]]
    BY <1>1, <1>7 DEF Server!AcceptRequest
  <2>2. at'[c] = asked[c]
    BY <2>1 DEF PerConnAll, PerConn
  <2>3. QED
    BY <1>7, <2>1, <2>2 DEF Server!AcceptRequest, Server!session
<1>8. CASE Server!process_logout(c)
  BY <1>1, <1>3, <1>8 DEF Server!process_logout
<1>9. CASE Server!process_read_msg(c)
  BY <1>1, <1>3, <1>9 DEF Server!process_read_msg, Server!session
<1>10. QED
  BY <1>4, <1>5, <1>6, <1>7, <1>8, <1>9 DEF Server!handle_client

\* Of a payload neither: the reply says what has become of the session.
LEMMA PayloadHandled ==
  ASSUME PerConnAll, NEW c \in Conns, Agree(c), Offered(c), ~ended[c],
         asked[c] \in Server!WithPayload, at[c] = asked[c],
         NEW data, in[c] = <<Server!Payload(data)>>, Names(c, data), Server!handle_client(c)
  PROVE  /\ Server!Consume(c) /\ Server!NextHeader(c) /\ UNCHANGED <<due, ended>>
         /\ \E reply, logged, name :
              /\ Server!Reply(c, reply)
              /\ \/ Server!SetSession(c, logged, name)
                 \/ UNCHANGED Server!session /\ logged = is_logged[c] /\ name = user[c]
              /\ \/ /\ asked[c] \in {"login", "register"}
                    /\ \/ reply.type = "success" /\ logged = TRUE /\ name = username[c]
                       \/ reply.type = "error" /\ logged = FALSE
                 \/ /\ asked[c] \in {"post", "delete"}
                    /\ logged = is_logged[c] /\ name = user[c]
<1>1. at[c] \in {"login", "register", "post", "delete"}
  BY DEF Offered, Server!WithPayload
<1>2. \A op, fits : ~Server!HeaderIs(c, op, fits)
  BY <1>1 DEF Server!HeaderIs
<1>3. \A op : Server!Received(c, op) = IF op = asked[c] THEN {data} ELSE {}
  BY ShortSequences DEF Server!Received, Server!recv_all, Server!FirstItem, Server!Payload, Server!Part
<1>4. asked[c] \in {"post", "delete"} => is_logged[c]
  BY DEF Agree, Offered
<1>5. ~Server!RefuseSize(c) /\ ~Server!RefuseAnonymous(c) /\ ~Server!AcceptRequest(c)
  BY <1>2 DEF Server!RefuseSize, Server!RefuseAnonymous, Server!AcceptRequest
<1>6. ~Server!process_logout(c) /\ ~Server!process_read_msg(c) /\ ~Server!UnknownRequest(c)
  BY <1>2 DEF Server!process_logout, Server!process_read_msg, Server!UnknownRequest
<1>7. ~Server!SkipPayload(c) /\ ~Server!NoPayload(c) /\ ~Server!Close(c)
  BY <1>1, <1>4 DEF Server!SkipPayload, Server!NoPayload, Server!Close, Server!NothingComes
<1>8. Server!Success.type = "success" /\ Server!Error.type = "error"
  BY DEF Server!Success, Server!Error
<1>9. CASE Server!process_login(c)
  <2>1. asked[c] = "login" /\ data.username = username[c]
    BY <1>3, <1>9 DEF Server!process_login, Names
  <2>2. \/ Server!Reply(c, Server!Success) /\ Server!SetSession(c, TRUE, data.username)
        \/ Server!Reply(c, Server!Error) /\ Server!SetSession(c, FALSE, NoName)
    BY <1>3, <1>9 DEF Server!process_login
  <2>3. QED
    BY <1>8, <1>9, <2>1, <2>2 DEF Server!process_login
<1>10. CASE Server!process_register(c)
  <2>1. asked[c] = "register" /\ data.username = username[c]
    BY <1>3, <1>10 DEF Server!process_register, Names
  <2>2. \/ Server!Reply(c, Server!Success) /\ Server!SetSession(c, TRUE, data.username)
        \/ Server!Reply(c, Server!Error) /\ Server!SetSession(c, FALSE, user[c])
    BY <1>3, <1>10 DEF Server!process_register
  <2>3. QED
    BY <1>8, <1>10, <2>1, <2>2 DEF Server!process_register
<1>11. CASE Server!process_post_msg(c)
  <2>1. asked[c] = "post" /\ UNCHANGED Server!session
    BY <1>3, <1>11 DEF Server!process_post_msg
  <2>2. Server!Reply(c, Server!Success) \/ Server!Reply(c, Server!Error)
    BY <1>11 DEF Server!process_post_msg
  <2>3. QED
    BY <1>11, <2>1, <2>2 DEF Server!process_post_msg
<1>12. CASE Server!process_delete_msg(c)
  <2>1. asked[c] = "delete" /\ UNCHANGED Server!session
    BY <1>3, <1>12 DEF Server!process_delete_msg
  <2>2. Server!Reply(c, Server!Success) \/ Server!Reply(c, Server!Error)
    BY <1>12 DEF Server!process_delete_msg
  <2>3. QED
    BY <1>12, <2>1, <2>2 DEF Server!process_delete_msg
<1>13. QED
  BY <1>5, <1>6, <1>7, <1>9, <1>10, <1>11, <1>12 DEF Server!handle_client

-------------------------------------------------------------------------------
(* The steps of a session keep what is known of its conversation. *)

Known(c) == Conversing(c) /\ Fresh(c)

LEMMA ReplyFacts ==
  ASSUME PerConnAll, NEW c \in Conns, ~ended[c], NEW reply, Server!Reply(c, reply), out[c] = <<>>
  PROVE  out'[c] = <<reply>>
<1>1. out'[c] = Append(out[c], reply)
  BY DEF Server!Reply, PerConnAll, ClientTypes, PerConn
<1>2. QED
  BY <1>1, ShortSequences

LEMMA ConsumeFacts ==
  ASSUME PerConnAll, NEW c \in Conns, Server!Consume(c)
  PROVE  in'[c] = Tail(in[c])
BY DEF Server!Consume, PerConnAll, PerConn

\* A session that comes to its end logs its user out.
LEMMA ServeKeepsFresh ==
  ASSUME PerConnAll, NEW c \in Conns, Fresh(c), UNCHANGED client, Server!handle_client(c)
  PROVE  Fresh(c)'
<1>1. pc' = pc /\ menu' = menu
  BY DEF client
<1>2. at'[c] = "away" => ~is_logged'[c]
  <2>1. at[c] # "away"
    BY DEF Server!handle_client, Server!RefuseSize, Server!RefuseAnonymous, Server!AcceptRequest,
           Server!process_logout, Server!process_read_msg, Server!UnknownRequest,
           Server!HeaderIs, Server!SkipPayload, Server!NoPayload, Server!process_login,
           Server!process_register, Server!process_post_msg, Server!process_delete_msg,
           Server!Received, Server!Close
  <2>2. CASE Server!RefuseSize(c) \/ Server!process_logout(c) \/ Server!UnknownRequest(c)
    BY <2>1, <2>2 DEF Server!RefuseSize, Server!process_logout, Server!UnknownRequest
  <2>3. CASE Server!RefuseAnonymous(c) \/ Server!AcceptRequest(c) \/ Server!process_read_msg(c)
    BY <2>1, <2>3 DEF Server!RefuseAnonymous, Server!ThrowAway, Server!AcceptRequest,
         Server!process_read_msg, Server!WithPayload, PerConnAll, PerConn
  <2>4. CASE Server!NextHeader(c)
    BY <2>4 DEF Server!NextHeader, PerConnAll, PerConn
  <2>5. CASE Server!Close(c)
    BY <2>5 DEF Server!Close, Server!SetSession, PerConnAll, PerConn
  <2>6. QED
    BY <2>2, <2>3, <2>4, <2>5
    DEF Server!handle_client, Server!SkipPayload, Server!NoPayload, Server!process_login,
        Server!process_register, Server!process_post_msg, Server!process_delete_msg
<1>3. QED
  BY <1>1, <1>2 DEF Fresh

\* What the client keeps.
LEMMA ClientWaits ==
  ASSUME NEW c \in Conns, UNCHANGED client
  PROVE  /\ pc' = pc /\ asked' = asked /\ menu' = menu /\ username' = username
         /\ Offered(c)' <=> Offered(c)
         /\ Ask(c)' = Ask(c)
         /\ \A data : Names(c, data)' <=> Names(c, data)
         /\ is_logged' = is_logged /\ user' = user => (Agree(c)' <=> Agree(c))
BY DEF client, Offered, Ask, Names, Agree, Server!Header

\* The header of a request has come.
LEMMA ServeHeader ==
  ASSUME PerConnAll, NEW c \in Conns, UNCHANGED client, Server!handle_client(c),
         ~ended[c], Agree(c), Offered(c), due[c] = asked[c] \/ due[c] = "none",
         out[c] = <<>>, at[c] = "header", in[c] # <<>>, Head(in[c]) = Ask(c)
  PROVE  \/ /\ asked[c] \in Server!WithPayload
            /\ at'[c] = asked[c] /\ in'[c] = Tail(in[c]) /\ Agree(c)'
            /\ due' = due /\ out'[c] = <<>>
         \/ /\ asked[c] \notin Server!WithPayload
            /\ at'[c] = "header" /\ in'[c] = Tail(in[c]) /\ due' = due
            /\ \E reply : out'[c] = <<reply>> /\ Fits(c, reply.type)'
<1>1. CASE asked[c] \in Server!WithPayload
  <2>1. /\ at'[c] = asked[c] /\ UNCHANGED <<is_logged, user, due, out, ended>>
        /\ Server!Consume(c)
    BY <1>1, HeaderHandled DEF Server!WithPayload
  <2>2. QED
    BY <1>1, <2>1, ClientWaits, ConsumeFacts
<1>2. CASE asked[c] = "logout"
  <2>1. /\ Server!Reply(c, Server!Success) /\ Server!SetSession(c, FALSE, NoName)
        /\ UNCHANGED <<at, due, ended>> /\ Server!Consume(c)
    BY <1>2, HeaderHandled DEF Server!WithPayload
  <2>2. out'[c] = <<Server!Success>> /\ Server!Success.type = "success"
    BY <2>1, ReplyFacts DEF Server!Success
  <2>3. ~is_logged'[c]
    BY <2>1 DEF Server!SetSession, PerConnAll, PerConn
  <2>4. Fits(c, "success")'
    BY <1>2, <2>3, ClientWaits DEF Fits
  <2>5. QED
    BY <1>2, <2>1, <2>2, <2>4, ConsumeFacts DEF Server!WithPayload
<1>3. CASE asked[c] = "read"
  <2>1. /\ Server!Reply(c, Server!Contents(board))
        /\ UNCHANGED <<at, is_logged, user, due, ended>> /\ Server!Consume(c)
    BY <1>3, HeaderHandled DEF Server!WithPayload
  <2>2. out'[c] = <<Server!Contents(board)>> /\ Server!Contents(board).type = "success"
    BY <2>1, ReplyFacts DEF Server!Contents, Server!Success
  <2>3. Fits(c, "success")'
    BY <1>3, <2>1, ClientWaits DEF Fits
  <2>4. QED
    BY <1>3, <2>1, <2>2, <2>3, ConsumeFacts DEF Server!WithPayload
<1>4. QED
  BY <1>1, <1>2, <1>3 DEF Offered, Server!WithPayload

\* The payload has come.
LEMMA ServePayload ==
  ASSUME PerConnAll, NEW c \in Conns, UNCHANGED client, Server!handle_client(c),
         ~ended[c], Agree(c), Offered(c), asked[c] \in Server!WithPayload,
         due[c] = "none", out[c] = <<>>, at[c] = asked[c],
         NEW data, Names(c, data), in[c] = <<Server!Payload(data)>>
  PROVE  /\ at'[c] = "header" /\ in'[c] = <<>> /\ due' = due
         /\ \E reply : out'[c] = <<reply>> /\ Fits(c, reply.type)'
<1>1. /\ Server!Consume(c) /\ Server!NextHeader(c) /\ UNCHANGED <<due, ended>>
  BY PayloadHandled
<1>2. PICK reply, logged, name :
        /\ Server!Reply(c, reply)
        /\ \/ Server!SetSession(c, logged, name)
           \/ UNCHANGED Server!session /\ logged = is_logged[c] /\ name = user[c]
        /\ \/ /\ asked[c] \in {"login", "register"}
              /\ \/ reply.type = "success" /\ logged = TRUE /\ name = username[c]
                 \/ reply.type = "error" /\ logged = FALSE
           \/ /\ asked[c] \in {"post", "delete"}
              /\ logged = is_logged[c] /\ name = user[c]
  BY PayloadHandled
<1>3. at'[c] = "header" /\ in'[c] = <<>>
  BY <1>1, ConsumeFacts, ShortSequences DEF Server!NextHeader, PerConnAll, PerConn
<1>4. is_logged'[c] = logged /\ user'[c] = name
  BY <1>2 DEF Server!SetSession, Server!session, PerConnAll, PerConn
<1>5. Fits(c, reply.type)'
  <2>1. CASE asked[c] \in {"login", "register"}
    BY <1>2, <1>4, <2>1, ClientWaits DEF Fits
  <2>2. CASE asked[c] \in {"post", "delete"}
    BY <1>2, <1>4, <2>2, ClientWaits DEF Fits, Agree
  <2>3. QED
    BY <1>2, <2>1, <2>2
<1>6. QED
  BY <1>1, <1>2, <1>3, <1>5, ReplyFacts

LEMMA ServeKeepsPhase ==
  ASSUME PerConnAll, NEW c \in Conns, Known(c), Serve(c), ended' = ended
  PROVE  Known(c)'
<1> USE ClientWaits DEF Serve
<1>1. Fresh(c)'
  BY ServeKeepsFresh DEF Known
<1>2. CASE pc[c] = "off" \/ ended[c]
  BY <1>1, <1>2 DEF Known, Conversing
<1>3. CASE pc[c] # "off" /\ ~ended[c]
  <2>1. CASE in[c] = <<>>
    BY <1>3, <2>1, NothingToDo
  <2>2. CASE Sending(c) /\ in[c] = <<Ask(c)>>
    <3>1. at'[c] = asked[c] /\ in'[c] = <<>> /\ Agree(c)' /\ due' = due /\ out'[c] = <<>>
      BY <1>3, <2>2, ServeHeader, ShortSequences DEF Sending, Server!WithPayload, Offered
    <3>2. Sending(c)'
      BY <2>2, <3>1 DEF Sending, Server!WithPayload
    <3>3. QED
      BY <1>1, <3>2 DEF Known, Conversing
  <2>3. CASE Underway(c) /\ asked[c] \notin Server!WithPayload
    <3>1. /\ at'[c] = "header" /\ in'[c] = <<>> /\ due' = due
          /\ \E reply : out'[c] = <<reply>> /\ Fits(c, reply.type)'
      BY <1>3, <2>3, ServeHeader, ShortSequences DEF Underway
    <3>2. Answered(c)'
      BY <2>3, <3>1 DEF Answered, Underway
    <3>3. QED
      BY <1>1, <3>2 DEF Known, Conversing
  <2>4. ASSUME Underway(c), asked[c] \in Server!WithPayload, NEW data, Names(c, data),
               at[c] = "header", in[c] = <<Ask(c), Server!Payload(data)>>
        PROVE  Known(c)'
    <3>1. in[c] # <<>> /\ Head(in[c]) = Ask(c) /\ Tail(in[c]) = <<Server!Payload(data)>>
      BY ONLY <2>4, ShortSequences
    <3>2. /\ at'[c] = asked[c] /\ in'[c] = Tail(in[c]) /\ Agree(c)' /\ due' = due
          /\ out'[c] = <<>>
      BY <1>3, <2>4, <3>1, ServeHeader DEF Underway
    <3>3. Underway(c)'
      BY <2>4, <3>1, <3>2 DEF Underway, Server!WithPayload, Server!Payload
    <3>4. QED
      BY <1>1, <3>3 DEF Known, Conversing
  <2>5. ASSUME Underway(c), asked[c] \in Server!WithPayload, NEW data, Names(c, data),
               at[c] = asked[c], in[c] = <<Server!Payload(data)>>
        PROVE  Known(c)'
    <3>1. /\ at'[c] = "header" /\ in'[c] = <<>> /\ due' = due
          /\ \E reply : out'[c] = <<reply>> /\ Fits(c, reply.type)'
      BY <1>3, <2>5, ServePayload DEF Underway
    <3>2. Answered(c)'
      BY <2>5, <3>1 DEF Answered, Underway
    <3>3. QED
      BY <1>1, <3>2 DEF Known, Conversing
  <2>6. QED
    BY <1>3, <2>1, <2>2, <2>3, <2>4, <2>5
    DEF Known, Conversing, Between, Sending, Underway, Answered
<1>4. QED
  BY <1>2, <1>3

\* handle_client does not end a connection.
LEMMA ServeEndsNothing == \A c : Server!handle_client(c) => ended' = ended
BY DEF Server!handle_client, Server!RefuseSize, Server!RefuseAnonymous, Server!AcceptRequest,
       Server!process_logout, Server!process_read_msg, Server!UnknownRequest,
       Server!SkipPayload, Server!NoPayload, Server!process_login,
       Server!process_register, Server!process_post_msg, Server!process_delete_msg,
       Server!Close, Server!stream

-------------------------------------------------------------------------------
(* So do the steps of its client. *)

LEMMA RequestKeepsPhase ==
  ASSUME PerConnAll, NEW c \in Conns, Known(c), auth_client(c) \/ user_loop(c)
  PROVE  Known(c)'
<1>1. PICK op \in Calls :
        /\ Request(c, op)
        /\ \/ menu[c] = "auth" /\ op \in {"login", "register"}
           \/ /\ menu[c] = "user" /\ op \in {"logout", "read", "post", "delete"}
              /\ username' = username
  BY DEF auth_client, user_loop, Calls
<1>2. /\ pc[c] = "menu" /\ menu' = menu /\ asked'[c] = op
      /\ pc'[c] = IF op \in Server!WithPayload THEN "send" ELSE "wait"
  BY <1>1 DEF Request, PerConnAll, ClientTypes, PerConn
<1>3. CASE ended[c] /\ UNCHANGED server
  BY <1>2, <1>3 DEF server, Known, Conversing, Fresh, Server!WithPayload
<1>4. CASE Server!SendHeader(c, op, TRUE)
  <2>1. /\ ~ended[c] /\ UNCHANGED <<at, is_logged, user, out, ended>>
        /\ in'[c] = Append(in[c], Server!Header(op, TRUE))
        /\ due'[c] = Server!Follows(Server!Header(op, TRUE))
    BY <1>4 DEF Server!SendHeader, Server!CanAsk, Server!session, PerConnAll, PerConn
  <2>2. Between(c)
    BY <1>2, <2>1 DEF Known, Conversing, Sending, Underway, Answered
  <2>3. in'[c] = <<Ask(c)'>>
    BY <1>2, <2>1, <2>2, ShortSequences DEF Between, Ask, Server!Header
  <2>4. due'[c] = IF op \in Server!WithPayload THEN op ELSE "none"
    BY <2>1 DEF Server!Follows, Server!Header, Server!WithPayload
  <2>5. Agree(c)' /\ Offered(c)'
    BY <1>1, <1>2, <2>1, <2>2 DEF Agree, Offered, Between
  <2>6. Fresh(c)'
    BY <1>2, <2>1 DEF Known, Fresh
  <2>7. CASE op \in Server!WithPayload
    <3>1. Sending(c)'
      BY <1>2, <2>1, <2>2, <2>3, <2>4, <2>5, <2>7 DEF Between, Sending, Server!WithPayload
    <3>2. QED
      BY <2>6, <3>1 DEF Known, Conversing
  <2>8. CASE op \notin Server!WithPayload
    <3>1. Underway(c)'
      BY <1>2, <2>1, <2>2, <2>3, <2>4, <2>5, <2>8 DEF Between, Underway, Server!WithPayload
    <3>2. QED
      BY <2>6, <3>1 DEF Known, Conversing
  <2>9. QED
    BY <2>7, <2>8
<1>5. QED
  BY <1>1, <1>3, <1>4 DEF Request

LEMMA SendKeepsPhase ==
  ASSUME PerConnAll, NEW c \in Conns, Known(c), SendRest(c)
  PROVE  Known(c)'
<1>1. /\ pc[c] = "send" /\ pc'[c] = "wait"
      /\ menu' = menu /\ asked' = asked /\ username' = username
  BY DEF SendRest, PerConnAll, ClientTypes, PerConn
<1>2. CASE ended[c] /\ UNCHANGED server
  BY <1>1, <1>2 DEF server, Known, Conversing, Fresh
<1>3. ASSUME NEW data, Names(c, data), Server!SendPayload(c, data)
      PROVE  Known(c)'
  <2>1. /\ ~ended[c] /\ UNCHANGED <<at, is_logged, user, out, ended>>
        /\ in'[c] = Append(in[c], Server!Payload(data)) /\ due'[c] = "none"
    BY <1>3 DEF Server!SendPayload, Server!session, PerConnAll, PerConn
  <2>2. Sending(c)
    BY <1>1, <2>1 DEF Known, Conversing, Between, Underway, Answered
  <2>3. \/ at[c] = "header" /\ in'[c] = <<Ask(c), Server!Payload(data)>>
        \/ at[c] = asked[c] /\ in'[c] = <<Server!Payload(data)>>
    BY <2>1, <2>2, ShortSequences DEF Sending
  <2>4. Agree(c)' /\ Offered(c)' /\ Names(c, data)' /\ Ask(c)' = Ask(c)
    BY <1>1, <1>3, <2>1, <2>2 DEF Agree, Offered, Names, Ask, Sending, Server!Header
  <2>5. Underway(c)'
    BY <1>1, <2>1, <2>2, <2>3, <2>4 DEF Sending, Underway, Server!WithPayload, Server!Payload
  <2>6. Fresh(c)'
    BY <1>1, <2>1 DEF Known, Fresh
  <2>7. QED
    BY <2>5, <2>6 DEF Known, Conversing
<1>4. QED
  BY <1>2, <1>3 DEF SendRest, Names

\* What a call that returns takes from the reply is what Fits says of it.
LEMMA ReturnFacts ==
  ASSUME PerConnAll, NEW c \in Conns, Known(c), NEW op, NEW ok, Returns(c, op, ok)
  PROVE  /\ pc[c] = "wait" /\ pc'[c] = "menu" /\ asked[c] = op
         /\ UNCHANGED <<at, is_logged, user, in, due, ended>>
         /\ ~ended[c] =>
              /\ Answered(c) /\ out'[c] = <<>>
              /\ \E type : Fits(c, type) /\ ok = (type = "success")
<1>1. pc[c] = "wait" /\ pc'[c] = "menu" /\ asked[c] = op
  BY DEF Returns, PerConnAll, ClientTypes, PerConn
<1>2. UNCHANGED <<at, is_logged, user, in, due, ended>>
  BY DEF Returns, Server!TakeReply, Server!session, server
<1>3. ASSUME ~ended[c]
      PROVE  /\ Answered(c) /\ out'[c] = <<>>
             /\ \E type : Fits(c, type) /\ ok = (type = "success")
  <2>1. Server!TakeReply(c) /\ ok = (Head(out[c]).type = "success")
    BY <1>3 DEF Returns
  <2>2. out[c] # <<>> /\ out'[c] = Tail(out[c])
    BY <2>1 DEF Server!TakeReply, PerConnAll, ClientTypes, PerConn
  <2>3. Answered(c)
    BY <1>1, <1>3, <2>2 DEF Known, Conversing, Between, Sending, Underway
  <2>4. PICK reply : out[c] = <<reply>> /\ Fits(c, reply.type)
    BY <2>3 DEF Answered
  <2>5. Head(out[c]) = reply /\ Tail(out[c]) = <<>>
    BY <2>4, ShortSequences
  <2>6. Fits(c, reply.type) /\ ok = (reply.type = "success")
    BY <2>1, <2>4, <2>5
  <2>7. QED
    BY <2>2, <2>3, <2>5, <2>6
<1>4. QED
  BY <1>1, <1>2, <1>3

LEMMA ReturnKeepsPhase ==
  ASSUME PerConnAll, NEW c \in Conns, Known(c), CallReturns(c)
  PROVE  Known(c)'
<1>1. \A next : GoTo(c, next) =>
        /\ menu'[c] = next
        /\ next = "user" => username'[c] = username[c]
  BY DEF GoTo, PerConnAll, ClientTypes, PerConn
<1>2. ASSUME NEW op, NEW ok, Returns(c, op, ok), ~ended[c] => Agree(c)'
      PROVE  Known(c)'
  <2>1. Fresh(c)'
    BY <1>2, ReturnFacts DEF Known, Fresh
  <2>2. CASE ended[c]
    BY <1>2, <2>1, <2>2, ReturnFacts DEF Known, Conversing
  <2>3. CASE ~ended[c]
    <3>1. Between(c)'
      BY <1>2, <2>3, ReturnFacts DEF Answered, Between
    <3>2. QED
      BY <2>1, <3>1 DEF Known, Conversing
  <2>4. QED
    BY <2>2, <2>3
<1>3. ASSUME NEW op \in {"login", "register"}, NEW ok, Returns(c, op, ok),
             GoTo(c, IF ok THEN "user" ELSE "auth")
      PROVE  Known(c)'
  <2>1. ASSUME ~ended[c] PROVE Agree(c)'
    <3>1. PICK type : Fits(c, type) /\ ok = (type = "success")
      BY <1>3, <2>1, ReturnFacts
    <3>2. \/ ok /\ is_logged[c] /\ user[c] = username[c]
          \/ ~ok /\ ~is_logged[c]
      BY <1>3, <3>1, ReturnFacts DEF Fits
    <3>3. UNCHANGED <<is_logged, user>>
      BY <1>3, ReturnFacts
    <3>4. QED
      BY <1>1, <1>3, <3>2, <3>3 DEF Agree
  <2>2. QED
    BY <1>2, <1>3, <2>1
<1>4. ASSUME NEW ok, Returns(c, "logout", ok), GoTo(c, IF ok THEN "auth" ELSE "quit")
      PROVE  Known(c)'
  <2>1. ASSUME ~ended[c] PROVE Agree(c)'
    <3>1. PICK type : Fits(c, type) /\ ok = (type = "success")
      BY <1>4, <2>1, ReturnFacts
    <3>2. type = "success" /\ ~is_logged[c]
      BY <1>4, <3>1, ReturnFacts DEF Fits
    <3>3. QED
      BY <1>1, <1>4, <3>1, <3>2, ReturnFacts DEF Agree
  <2>2. QED
    BY <1>2, <1>4, <2>1
<1>5. ASSUME NEW op \in {"post", "delete"}, NEW ok, Returns(c, op, ok), UNCHANGED <<menu, username>>
      PROVE  Known(c)'
  <2>1. ASSUME ~ended[c] PROVE Agree(c)'
    <3>1. Agree(c)
      BY <1>5, <2>1, ReturnFacts DEF Fits
    <3>2. QED
      BY <1>5, <3>1, ReturnFacts DEF Agree
  <2>2. QED
    BY <1>2, <1>5, <2>1
<1>6. ASSUME NEW ok, Returns(c, "read", ok),
             \/ ok = TRUE /\ UNCHANGED <<menu, username>>
             \/ ok = FALSE /\ GoTo(c, "quit")
      PROVE  Known(c)'
  <2>1. ASSUME ~ended[c] PROVE Agree(c)'
    <3>1. PICK type : Fits(c, type) /\ ok = (type = "success")
      BY <1>6, <2>1, ReturnFacts
    <3>2. type = "success" /\ Agree(c)
      BY <1>6, <3>1, ReturnFacts DEF Fits
    <3>3. QED
      BY <1>6, <3>1, <3>2, ReturnFacts DEF Agree
  <2>2. QED
    BY <1>2, <1>6, <2>1
<1>7. CASE dakty_login(c)
  BY <1>3, <1>7 DEF dakty_login
<1>8. CASE dakty_register(c)
  BY <1>3, <1>8 DEF dakty_register
<1>9. CASE dakty_logout(c)
  BY <1>4, <1>9 DEF dakty_logout
<1>10. CASE dakty_post_message(c)
  BY <1>5, <1>10 DEF dakty_post_message
<1>11. CASE dakty_delete_message(c)
  BY <1>5, <1>11 DEF dakty_delete_message
<1>12. CASE dakty_read_messages(c)
  BY <1>6, <1>12 DEF dakty_read_messages
<1>13. QED
  BY <1>7, <1>8, <1>9, <1>10, <1>11, <1>12 DEF CallReturns

LEMMA ConnectKeepsPhase ==
  ASSUME PerConnAll, NEW c \in Conns, Known(c), dakty_connect(c)
  PROVE  Known(c)'
<1>1. /\ pc[c] = "off" /\ pc'[c] = "menu" /\ menu' = menu
      /\ at[c] = "away" /\ at'[c] = "header" /\ in'[c] = <<>> /\ due'[c] = "none"
      /\ out'[c] = <<>> /\ is_logged' = is_logged
  BY DEF dakty_connect, Server!Open, Server!session, PerConnAll, ClientTypes, PerConn
<1>2. Agree(c)'
  BY <1>1 DEF Known, Fresh, Agree
<1>3. Between(c)'
  BY <1>1, <1>2 DEF Between
<1>4. QED
  BY <1>1, <1>3 DEF Known, Conversing, Fresh

LEMMA EndKeepsPhase ==
  ASSUME PerConnAll, NEW c \in Conns, Known(c), Exit(c) \/ ConnectionLost(c)
  PROVE  Known(c)'
<1>1. UNCHANGED <<at, is_logged>>
  BY DEF Exit, ConnectionLost, Server!ConnectionEnds, Server!session, server
<1>2. CASE Exit(c)
  <2>1. pc'[c] = "off" /\ menu'[c] = "auth"
    BY <1>2 DEF Exit, PerConnAll, ClientTypes, PerConn
  <2>2. QED
    BY <1>1, <2>1 DEF Known, Conversing, Fresh
<1>3. CASE ConnectionLost(c)
  <2>1. ended'[c] /\ UNCHANGED <<pc, menu>>
    BY <1>3 DEF ConnectionLost, Server!ConnectionEnds, client, PerConnAll, PerConn
  <2>2. QED
    BY <1>1, <2>1 DEF Known, Conversing, Fresh
<1>4. QED
  BY <1>2, <1>3

-------------------------------------------------------------------------------
(* The invariant. *)

LEMMA InitTalk == Init => TalkInv
<1> SUFFICES ASSUME Init PROVE TalkInv
  OBVIOUS
<1>1. SessionFacts!IInv
  BY SessionsKeepInvariant DEF Init
<1>2. ClientTypes
  BY DEF Init, Server!Init, ClientTypes, PerConn
<1>3. \A c \in Conns : Conversing(c) /\ Fresh(c)
  BY DEF Init, Server!Init, Conversing, Fresh
<1>4. QED
  BY <1>1, <1>2, <1>3 DEF TalkInv

LEMMA StepTalk == TalkInv /\ [Next]_vars => TalkInv'
<1> SUFFICES ASSUME TalkInv, [Next]_vars PROVE TalkInv'
  OBVIOUS
<1>1. PerConnAll /\ \A c \in Conns : Known(c)
  BY SessionsPerConn DEF TalkInv, Known
<1>2. SessionFacts!IInv'
  BY StepIsSessionStep, SessionsKeepInvariant DEF TalkInv
<1>3. ASSUME NEW d \in Conns, Known(d)', SessionTouched(d), ClientTouched(d)
      PROVE  TalkInv'
  <2>1. ClientTypes' /\ \A c \in Conns \ {d} : Still(c)
    BY <1>3, TouchedIsApart
  <2>2. \A c \in Conns \ {d} : Conversing(c)' /\ Fresh(c)'
    BY <1>1, <2>1, StillKeeps DEF Known
  <2>3. QED
    BY <1>2, <1>3, <2>1, <2>2 DEF TalkInv, Known
<1>4. ASSUME NEW d \in Conns, auth_client(d) \/ user_loop(d) PROVE TalkInv'
  <2>1. SessionTouched(d)
    BY <1>1, <1>4, OthersTouch, SameTouches DEF auth_client, user_loop, Request
  <2>2. QED
    BY <1>1, <1>3, <1>4, <2>1, ClientsTouch, RequestKeepsPhase
<1>5. ASSUME NEW d \in Conns, SendRest(d) PROVE TalkInv'
  <2>1. SessionTouched(d)
    BY <1>1, <1>5, OthersTouch, SameTouches DEF SendRest
  <2>2. QED
    BY <1>1, <1>3, <1>5, <2>1, ClientsTouch, SendKeepsPhase
<1>6. ASSUME NEW d \in Conns, CallReturns(d) PROVE TalkInv'
  <2>1. Server!TakeReply(d) \/ UNCHANGED server
    BY <1>6 DEF CallReturns, dakty_login, dakty_register, dakty_logout, dakty_post_message,
                dakty_delete_message, dakty_read_messages, Returns
  <2>2. SessionTouched(d)
    BY <1>1, <2>1, OthersTouch, SameTouches
  <2>3. QED
    BY <1>1, <1>3, <1>6, <2>2, ClientsTouch, ReturnKeepsPhase
<1>7. ASSUME NEW d \in Conns, dakty_connect(d) PROVE TalkInv'
  <2>1. SessionTouched(d)
    BY <1>1, <1>7, OthersTouch DEF dakty_connect
  <2>2. QED
    BY <1>1, <1>3, <1>7, <2>1, ClientsTouch, ConnectKeepsPhase
<1>8. ASSUME NEW d \in Conns, Exit(d) \/ ConnectionLost(d) PROVE TalkInv'
  <2>1. SessionTouched(d)
    BY <1>1, <1>8, OthersTouch, SameTouches DEF Exit, ConnectionLost
  <2>2. QED
    BY <1>1, <1>3, <1>8, <2>1, ClientsTouch, EndKeepsPhase
<1>9. ASSUME NEW d \in Conns, Serve(d) PROVE TalkInv'
  <2>1. SessionTouched(d)
    BY <1>1, <1>9, HandlersTouch DEF Serve
  <2>2. ended' = ended
    BY <1>9, ServeEndsNothing DEF Serve
  <2>3. QED
    BY <1>1, <1>3, <1>9, <2>1, <2>2, ClientsTouch, ServeKeepsPhase
<1>10. CASE UNCHANGED vars
  <2>1. \A c \in Conns : Still(c)
    BY <1>10 DEF vars, server, client, Still
  <2>2. \A c \in Conns : Conversing(c)' /\ Fresh(c)'
    BY <2>1, StillKeeps DEF TalkInv
  <2>3. ClientTypes'
    BY <1>10 DEF vars, server, client, TalkInv, ClientTypes, PerConn
  <2>4. QED
    BY <1>2, <2>2, <2>3 DEF TalkInv
<1>11. QED
  BY <1>4, <1>5, <1>6, <1>7, <1>8, <1>9, <1>10 DEF Next

LEMMA Talk == Spec => []TalkInv
BY InitTalk, StepTalk, PTL DEF Spec

\* Between calls the client's menu is the one that the server would have it in, and the
\* name in its buffer the one its messages will have (client.c, the loops of main).
THEOREM ViewsAlwaysAgree == Spec => []ViewsAgree
<1>1. TalkInv => ViewsAgree
  BY DEF TalkInv, Conversing, Between, Sending, Underway, Answered, Agree, ViewsAgree
<1>2. QED
  BY <1>1, Talk, PTL

-------------------------------------------------------------------------------
(* How many answers are on their way. *)

HeadersIn(items) == Cardinality({k \in 1 .. Len(items) : items[k].kind = "header"})

LEMMA HeaderCounts ==
  /\ HeadersIn(<<>>) = 0
  /\ \A c, data : /\ HeadersIn(<<Ask(c)>>) = 1
                  /\ HeadersIn(<<Ask(c), Server!Payload(data)>>) = 1
                  /\ HeadersIn(<<Server!Payload(data)>>) = 0
<1>1. HeadersIn(<<>>) = 0
  <2>1. {k \in 1 .. Len(<<>>) : <<>>[k].kind = "header"} = {}
    OBVIOUS
  <2>2. QED
    BY <2>1, FS_EmptySet DEF HeadersIn
<1>2. ASSUME NEW c, NEW data
      PROVE  /\ HeadersIn(<<Ask(c)>>) = 1
             /\ HeadersIn(<<Ask(c), Server!Payload(data)>>) = 1
             /\ HeadersIn(<<Server!Payload(data)>>) = 0
  <2> DEFINE h == Ask(c)
             p == Server!Payload(data)
  <2>1. h.kind = "header" /\ p.kind = "payload"
    BY DEF Ask, Server!Header, Server!Payload
  <2> HIDE DEF h, p
  <2>2. Cardinality({1}) = 1 /\ Cardinality({}) = 0
    BY FS_Singleton, FS_EmptySet
  <2>3. {k \in 1 .. Len(<<h>>) : <<h>>[k].kind = "header"} = {1}
    BY <2>1
  <2>4. {k \in 1 .. Len(<<h, p>>) : <<h, p>>[k].kind = "header"} = {1}
    BY <2>1
  <2>5. {k \in 1 .. Len(<<p>>) : <<p>>[k].kind = "header"} = {}
    BY <2>1
  <2>6. HeadersIn(<<h>>) = 1 /\ HeadersIn(<<h, p>>) = 1 /\ HeadersIn(<<p>>) = 0
    BY <2>2, <2>3, <2>4, <2>5 DEF HeadersIn
  <2>7. QED
    BY <2>6 DEF h, p
<1>3. QED
  BY <1>1, <1>2

\* Every request is answered once and no answer comes unasked (send_request and
\* recv_all of client_controller.c, the replies of server_handler.c).
THEOREM OneAnswerAlwaysDue == Spec => []OneAnswerDue
<1>1. ASSUME TalkInv, NEW c \in Conns, pc[c] # "off", ~ended[c]
      PROVE  Coming(c) = IF pc[c] = "menu" THEN 0 ELSE 1
  <2>1. Coming(c) = HeadersIn(in[c]) + (IF Owing(c) THEN 1 ELSE 0) + Len(out[c])
    BY DEF Coming, HeadersIn
  <2>2. at[c] = "header" => ~Owing(c)
    BY DEF Owing
  <2>3. at[c] = asked[c] /\ Agree(c) /\ Offered(c) /\ asked[c] \in Server!WithPayload => Owing(c)
    BY DEF Owing, Agree, Offered, Server!WithPayload
  <2>4. Len(<<>>) = 0 /\ \A reply : Len(<<reply>>) = 1
    OBVIOUS
  <2>5. CASE Between(c)
    BY <2>1, <2>2, <2>4, <2>5, HeaderCounts DEF Between
  <2>6. CASE Sending(c)
    <3>1. pc[c] # "menu" /\ Len(out[c]) = 0
      BY <2>4, <2>6 DEF Sending
    <3>2. \/ HeadersIn(in[c]) = 1 /\ ~Owing(c)
          \/ HeadersIn(in[c]) = 0 /\ Owing(c)
      BY <2>2, <2>3, <2>6, HeaderCounts DEF Sending
    <3>3. QED
      BY <2>1, <3>1, <3>2
  <2>7. CASE Underway(c)
    <3>1. pc[c] # "menu" /\ Len(out[c]) = 0
      BY <2>4, <2>7 DEF Underway
    <3>2. \/ HeadersIn(in[c]) = 1 /\ ~Owing(c)
          \/ HeadersIn(in[c]) = 0 /\ Owing(c)
      BY <2>2, <2>3, <2>7, HeaderCounts DEF Underway
    <3>3. QED
      BY <2>1, <3>1, <3>2
  <2>8. CASE Answered(c)
    <3>1. pc[c] # "menu" /\ Len(out[c]) = 1 /\ HeadersIn(in[c]) = 0 /\ ~Owing(c)
      BY <2>2, <2>4, <2>8, HeaderCounts DEF Answered
    <3>2. QED
      BY <2>1, <3>1
  <2>9. QED
    BY <1>1, <2>5, <2>6, <2>7, <2>8 DEF TalkInv, Conversing
<1>2. TalkInv => OneAnswerDue
  BY <1>1 DEF OneAnswerDue
<1>3. QED
  BY <1>2, Talk, PTL

-------------------------------------------------------------------------------
(* Numbers.  What a reply holds was on the board once, and since then its number has *)
(* not been given to another message: so it is said of what is on the board, of what *)
(* is on its way to a client, and of what one has read.                              *)

Posted == SessionFacts!Posted

\* The messages whose number is given and not to another.
Honest == {m \in Posted : m.id < next_message_id
                          /\ \A k \in 1 .. Len(board) : board[k].id = m.id => board[k] = m}

Answers == [type : {"success", "error"}, messages : Seq(Honest), torn : BOOLEAN]

\* Every number on the board was given, and once.
Numbered ==
  /\ \A k \in 1 .. Len(board) : board[k].id < next_message_id
  /\ \A j, k \in 1 .. Len(board) : board[j].id = board[k].id => j = k

NumbersInv ==
  /\ Numbered
  /\ seen \subseteq Honest
  /\ out \in [Conns -> Seq(Answers)]

LEMMA BoardTypes == SessionFacts!IInv => board \in Seq(Posted) /\ next_message_id \in Nat
BY DEF SessionFacts!IInv, SessionFacts!Types, Posted

\* What process_read_msg copies into its reply.
LEMMA BoardIsHonest == SessionFacts!IInv /\ Numbered => board \in Seq(Honest)
<1> SUFFICES ASSUME SessionFacts!IInv, Numbered PROVE board \in Seq(Honest)
  OBVIOUS
<1>1. board \in Seq(Posted) /\ Len(board) \in Nat
  BY BoardTypes
<1>2. \A k \in 1 .. Len(board) : board[k] \in Honest
  BY <1>1, ElementOfSeq DEF Numbered, Honest
<1>3. board = [k \in 1 .. Len(board) |-> board[k]]
  BY <1>1
<1>4. QED
  BY <1>1, <1>2, <1>3, IsASeq

\* What a step does to the board.
BoardMoves ==
  \/ board' = board /\ next_message_id' = next_message_id
  \/ \E m : /\ board' = Append(board, m) /\ m \in Posted /\ m.id = next_message_id
            /\ next_message_id' = next_message_id + 1
  \/ \E i \in 1 .. Len(board) :
       board' = Server!Without(board, i) /\ next_message_id' = next_message_id

\* Nothing that is honest ceases to be: a number that is free again is not given again.
LEMMA BoardMovesKeep ==
  ASSUME SessionFacts!IInv, SessionFacts!IInv', Numbered, BoardMoves
  PROVE  Numbered' /\ Honest \subseteq Honest'
<1>1. /\ board \in Seq(Posted) /\ board' \in Seq(Posted) /\ Len(board) \in Nat
      /\ next_message_id \in Nat /\ next_message_id' \in Nat
      /\ \A k \in 1 .. Len(board) : board[k].id \in Nat
      /\ \A m \in Posted : m.id \in Nat
  <2>1. board \in Seq(Posted) /\ next_message_id \in Nat
    BY BoardTypes
  <2>2. board' \in Seq(Posted) /\ next_message_id' \in Nat
    BY DEF SessionFacts!IInv, SessionFacts!Types, Posted, SessionFacts!Posted
  <2>3. \A m \in Posted : m.id \in Nat
    BY DEF Posted, SessionFacts!Posted
  <2>4. QED
    BY <2>1, <2>2, <2>3, ElementOfSeq
<1>2. CASE board' = board /\ next_message_id' = next_message_id
  BY <1>2 DEF Numbered, Honest, Posted, SessionFacts!Posted
<1>3. ASSUME NEW m, board' = Append(board, m), m \in Posted, m.id = next_message_id,
             next_message_id' = next_message_id + 1
      PROVE  Numbered' /\ Honest \subseteq Honest'
  <2>1. /\ Len(board') = Len(board) + 1 /\ board'[Len(board) + 1] = m
        /\ \A k \in 1 .. Len(board) : board'[k] = board[k]
    BY <1>1, <1>3, AppendProperties
  <2>2. \A k \in 1 .. Len(board') : k \in 1 .. Len(board) \/ k = Len(board) + 1
    BY <1>1, <2>1
  <2>3. \A k \in 1 .. Len(board) : board[k].id < m.id
    BY <1>3 DEF Numbered
  <2>4. Numbered'
    BY <1>1, <1>3, <2>1, <2>2, <2>3 DEF Numbered
  <2>5. ASSUME NEW n \in Honest PROVE n \in Honest'
    <3>1. n \in Posted /\ n.id < m.id
      BY <1>3 DEF Honest
    <3>2. \A k \in 1 .. Len(board') : board'[k].id = n.id => board'[k] = n
      BY <1>1, <2>1, <2>2, <3>1 DEF Honest
    <3>3. QED
      BY <1>1, <1>3, <3>1, <3>2 DEF Honest, Posted, SessionFacts!Posted
  <2>6. QED
    BY <2>4, <2>5
<1>4. ASSUME NEW i \in 1 .. Len(board), board' = Server!Without(board, i),
             next_message_id' = next_message_id
      PROVE  Numbered' /\ Honest \subseteq Honest'
  <2> DEFINE old(k) == IF k < i THEN k ELSE k + 1
  <2>1. /\ Len(board') = Len(board) - 1
        /\ \A k \in 1 .. Len(board') : old(k) \in 1 .. Len(board) /\ board'[k] = board[old(k)]
    BY <1>1, <1>4 DEF Server!Without
  <2>2. \A j, k \in 1 .. Len(board') : old(j) = old(k) => j = k
    BY <1>1, <2>1
  <2> HIDE DEF old
  <2>3. Numbered'
    BY <1>4, <2>1, <2>2 DEF Numbered
  <2>4. Honest \subseteq Honest'
    BY <1>4, <2>1 DEF Honest, Posted, SessionFacts!Posted
  <2>5. QED
    BY <2>3, <2>4
<1>5. QED
  BY <1>2, <1>3, <1>4 DEF BoardMoves

\* How the steps move the board ...
LEMMA HandlersMoveBoard ==
  ASSUME SessionFacts!IInv, SessionFacts!IInv', NEW c \in Conns, Server!handle_client(c)
  PROVE  BoardMoves
<1>1. CASE Server!process_post_msg(c)
  <2>1. CASE UNCHANGED <<board, next_message_id>>
    BY <2>1 DEF BoardMoves
  <2>2. ASSUME NEW text, Server!save_message(user[c], text) PROVE BoardMoves
    <3> DEFINE m == [id |-> next_message_id, sender |-> user[c], text |-> text]
    <3>1. board' = Append(board, m) /\ next_message_id' = next_message_id + 1
      BY <2>2 DEF Server!save_message, Server!NewId
    <3>2. m \in Posted
      <4>1. /\ board \in Seq(Posted) /\ board' \in Seq(Posted) /\ Len(board) \in Nat
            /\ Len(board) + 1 \in 1 .. Len(board) + 1
        BY BoardTypes DEF SessionFacts!IInv, SessionFacts!Types, Posted, SessionFacts!Posted
      <4>2. /\ Append(board, m) \in Seq(Posted \cup {m})
            /\ Len(Append(board, m)) = Len(board) + 1
            /\ Append(board, m)[Len(board) + 1] = m
        BY ONLY <4>1, AppendProperties, SeqMonotonic
      <4>3. board'[Len(board) + 1] \in Posted
        BY <3>1, <4>1, <4>2, ElementOfSeq
      <4>4. QED
        BY <3>1, <4>2, <4>3
    <3>3. m.id = next_message_id
      OBVIOUS
    <3>4. QED
      BY <3>1, <3>2, <3>3 DEF BoardMoves
  <2>3. QED
    BY <1>1, <2>1, <2>2 DEF Server!process_post_msg
<1>2. CASE Server!process_delete_msg(c)
  BY <1>2 DEF Server!process_delete_msg, Server!delete_message, BoardMoves
<1>3. CASE ~Server!process_post_msg(c) /\ ~Server!process_delete_msg(c)
  <2>1. UNCHANGED <<board, next_message_id>>
    BY <1>3 DEF Server!handle_client, Server!RefuseSize, Server!RefuseAnonymous,
         Server!AcceptRequest, Server!process_logout, Server!process_read_msg,
         Server!UnknownRequest, Server!SkipPayload, Server!NoPayload, Server!process_login,
         Server!process_register, Server!Close, Server!stores
  <2>2. QED
    BY <2>1 DEF BoardMoves
<1>4. QED
  BY <1>1, <1>2, <1>3

\* ... and what is on its way.
LEMMA RepliesAreAnswers ==
  ASSUME NEW reply, NEW c \in Conns, out \in [Conns -> Seq(Answers)], Server!Reply(c, reply),
         reply \in Answers
  PROVE  out' \in [Conns -> Seq(Answers)]
<1>1. Append(out[c], reply) \in Seq(Answers)
  BY AppendProperties
<1>2. QED
  BY <1>1 DEF Server!Reply

LEMMA HandlersAnswer ==
  ASSUME SessionFacts!IInv, NumbersInv, NEW c \in Conns, Server!handle_client(c)
  PROVE  out' \in [Conns -> Seq(Answers)]
<1>1. \A messages \in Seq(Honest) :
        [type |-> "success", messages |-> messages, torn |-> FALSE] \in Answers
  BY DEF Answers
<1>2. Server!Success \in Answers /\ Server!Error \in Answers
  <2>1. Server!Success \in Answers
    BY DEF Server!Success, Answers
  <2>2. Server!Error \in Answers
    BY <2>1 DEF Server!Error, Answers
  <2>3. QED
    BY <2>1, <2>2
<1>3. Server!Contents(board) \in Answers
  BY <1>1, BoardIsHonest DEF Server!Contents, Server!Success, NumbersInv
<1>4. UNCHANGED out => out' \in [Conns -> Seq(Answers)]
  BY DEF NumbersInv
<1>5. \A reply \in {Server!Success, Server!Error, Server!Contents(board)} :
        Server!Reply(c, reply) => out' \in [Conns -> Seq(Answers)]
  BY <1>2, <1>3, RepliesAreAnswers DEF NumbersInv
<1>6. \/ UNCHANGED out
      \/ \E reply \in {Server!Success, Server!Error, Server!Contents(board)} :
           Server!Reply(c, reply)
  <2>1. CASE Server!process_read_msg(c)
    BY <2>1 DEF Server!process_read_msg
  <2>2. CASE Server!process_login(c) \/ Server!process_register(c)
    BY <2>2 DEF Server!process_login, Server!process_register
  <2>3. CASE Server!process_post_msg(c) \/ Server!process_delete_msg(c)
    BY <2>3 DEF Server!process_post_msg, Server!process_delete_msg
  <2>4. CASE \/ Server!RefuseSize(c) \/ Server!RefuseAnonymous(c) \/ Server!AcceptRequest(c)
             \/ Server!process_logout(c) \/ Server!UnknownRequest(c) \/ Server!SkipPayload(c)
             \/ Server!NoPayload(c) \/ Server!Close(c)
    BY <2>4 DEF Server!RefuseSize, Server!RefuseAnonymous, Server!AcceptRequest,
         Server!process_logout, Server!UnknownRequest, Server!SkipPayload,
         Server!NoPayload, Server!Close, Server!stream
  <2>5. QED
    BY <2>1, <2>2, <2>3, <2>4 DEF Server!handle_client
<1>7. QED
  BY <1>4, <1>5, <1>6

\* A reply that is cut holds no message it did not hold before.
LEMMA CutsAreAnswers ==
  ASSUME NEW reply \in Answers, NEW part \in Server!CutShort(reply)
  PROVE  part \in Answers
<1>1. reply.messages \in Seq(Honest) /\ Len(reply.messages) \in Nat
  BY DEF Answers
<1>2. Server!Success \in Answers
  BY DEF Server!Success, Answers
<1>3. CASE part = [type |-> reply.type,
                 messages |-> SubSeq(reply.messages, 1, Len(reply.messages) - 1),
                 torn |-> TRUE]
  <2>1. \A k \in 1 .. Len(reply.messages) - 1 : reply.messages[k] \in Honest
    BY <1>1, ElementOfSeq
  <2>2. SubSeq(reply.messages, 1, Len(reply.messages) - 1) \in Seq(Honest)
    BY <1>1, <2>1, SubSeqProperties
  <2>3. QED
    BY <1>3, <2>2 DEF Answers
<1>4. QED
  BY <1>2, <1>3 DEF Server!CutShort

LEMMA EndsAnswer ==
  ASSUME NEW c \in Conns, out \in [Conns -> Seq(Answers)], Server!ConnectionEnds(c)
  PROVE  out' \in [Conns -> Seq(Answers)]
<1>1. PICK n \in 0 .. Len(out[c]) :
        \/ out' = [out EXCEPT ![c] = SubSeq(@, 1, n)]
        \/ /\ n < Len(out[c])
           /\ \E part \in Server!CutShort(out[c][n + 1]) :
                out' = [out EXCEPT ![c] = Append(SubSeq(@, 1, n), part)]
  BY DEF Server!ConnectionEnds
<1>2. out[c] \in Seq(Answers) /\ Len(out[c]) \in Nat
  OBVIOUS
<1>3. SubSeq(out[c], 1, n) \in Seq(Answers)
  <2>1. \A k \in 1 .. n : out[c][k] \in Answers
    BY <1>1, <1>2, ElementOfSeq
  <2>2. QED
    BY <1>1, <1>2, <2>1, SubSeqProperties
<1>4. CASE out' = [out EXCEPT ![c] = SubSeq(@, 1, n)]
  BY <1>3, <1>4
<1>5. ASSUME n < Len(out[c]), NEW part \in Server!CutShort(out[c][n + 1]),
             out' = [out EXCEPT ![c] = Append(SubSeq(@, 1, n), part)]
      PROVE  out' \in [Conns -> Seq(Answers)]
  <2>1. n + 1 \in 1 .. Len(out[c])
    BY <1>1, <1>2, <1>5
  <2>2. out[c][n + 1] \in Answers
    BY <1>2, <2>1, ElementOfSeq
  <2>3. part \in Answers
    BY <1>5, <2>2, CutsAreAnswers
  <2>4. Append(SubSeq(out[c], 1, n), part) \in Seq(Answers)
    BY <1>3, <2>3, AppendProperties
  <2>5. QED
    BY <1>5, <2>4
<1>6. QED
  BY <1>1, <1>4, <1>5

\* A step of a client adds nothing, and what it has read is what was on its way.
LEMMA ReturnsAnswer ==
  ASSUME NumbersInv, NEW c \in Conns, CallReturns(c)
  PROVE  out' \in [Conns -> Seq(Answers)] /\ seen' \subseteq Honest
<1>1. ASSUME Server!TakeReply(c)
      PROVE  out' \in [Conns -> Seq(Answers)] /\ Head(out[c]) \in Answers
  <2>1. out[c] \in Seq(Answers) /\ out[c] # <<>> /\ out' = [out EXCEPT ![c] = Tail(@)]
    BY <1>1 DEF NumbersInv, Server!TakeReply
  <2>2. Head(out[c]) \in Answers /\ Tail(out[c]) \in Seq(Answers)
    BY <2>1, HeadTailProperties
  <2>3. QED
    BY <2>1, <2>2 DEF NumbersInv
<1>2. \A op, ok : Returns(c, op, ok) => Server!TakeReply(c) \/ (ok = FALSE /\ UNCHANGED server)
  BY DEF Returns
<1>3. out' \in [Conns -> Seq(Answers)]
  <2>1. Server!TakeReply(c) \/ UNCHANGED server
    BY <1>2 DEF CallReturns, dakty_login, dakty_register, dakty_logout, dakty_post_message,
                dakty_delete_message, dakty_read_messages
  <2>2. QED
    BY <1>1, <2>1 DEF server, NumbersInv
<1>4. CASE seen' = seen
  BY <1>3, <1>4 DEF NumbersInv
<1>5. CASE /\ Returns(c, "read", TRUE)
           /\ seen' = {Head(out[c]).messages[k] : k \in 1 .. Len(Head(out[c]).messages)}
  <2>1. Server!TakeReply(c)
    BY <1>2, <1>5
  <2>2. Head(out[c]).messages \in Seq(Honest)
    BY <1>1, <2>1 DEF Answers
  <2>3. \A k \in 1 .. Len(Head(out[c]).messages) : Head(out[c]).messages[k] \in Honest
    BY <2>2, ElementOfSeq
  <2>4. QED
    BY <1>3, <1>5, <2>3
<1>6. QED
  BY <1>4, <1>5 DEF CallReturns, dakty_login, dakty_register, dakty_logout,
       dakty_post_message, dakty_delete_message, dakty_read_messages

\* What is honest now is honest then.
LEMMA AnswersStay ==
  ASSUME Honest \subseteq Honest'
  PROVE  Answers \subseteq Answers' /\ Seq(Answers) \subseteq Seq(Answers')
<1>1. Seq(Honest) \subseteq Seq(Honest')
  BY SeqMonotonic
<1>2. Answers \subseteq Answers'
  BY <1>1 DEF Answers
<1>3. QED
  BY <1>2, SeqMonotonic

LEMMA StepNumbers ==
  SessionFacts!IInv /\ SessionFacts!IInv' /\ NumbersInv /\ [Next]_vars => NumbersInv'
<1> SUFFICES ASSUME SessionFacts!IInv, SessionFacts!IInv', NumbersInv, [Next]_vars
             PROVE  NumbersInv'
  OBVIOUS
<1>1. ASSUME BoardMoves, out' \in [Conns -> Seq(Answers)], seen' \subseteq Honest
      PROVE  NumbersInv'
  <2>1. Numbered' /\ Honest \subseteq Honest'
    BY <1>1, BoardMovesKeep DEF NumbersInv
  <2>2. Seq(Answers) \subseteq Seq(Answers')
    BY <2>1, AnswersStay
  <2>3. QED
    BY <1>1, <2>1, <2>2 DEF NumbersInv
<1>2. ASSUME UNCHANGED server, seen' \subseteq Honest PROVE NumbersInv'
  BY <1>1, <1>2 DEF server, BoardMoves, NumbersInv
<1>3. ASSUME UNCHANGED Server!stores, out' \in [Conns -> Seq(Answers)], seen' \subseteq Honest
      PROVE  NumbersInv'
  BY <1>1, <1>3 DEF Server!stores, BoardMoves
<1>4. ASSUME NEW c \in Conns, auth_client(c) \/ user_loop(c) \/ SendRest(c) PROVE NumbersInv'
  <2>1. seen' = seen
    BY <1>4 DEF auth_client, user_loop, Request, SendRest
  <2>2. UNCHANGED server \/ (UNCHANGED Server!stores /\ out' = out)
    BY <1>4 DEF auth_client, user_loop, Request, SendRest, Server!SendHeader, Server!SendPayload
  <2>3. QED
    BY <1>2, <1>3, <2>1, <2>2 DEF NumbersInv
<1>5. ASSUME NEW c \in Conns, CallReturns(c) PROVE NumbersInv'
  <2>1. UNCHANGED Server!stores
    BY <1>5 DEF CallReturns, dakty_login, dakty_register, dakty_logout, dakty_post_message,
                dakty_delete_message, dakty_read_messages, Returns, Server!TakeReply,
                server, Server!stores
  <2>2. QED
    BY <1>3, <1>5, <2>1, ReturnsAnswer
<1>6. ASSUME NEW c \in Conns, dakty_connect(c) PROVE NumbersInv'
  <2>1. seen' = seen /\ UNCHANGED Server!stores /\ out' = [out EXCEPT ![c] = <<>>]
    BY <1>6 DEF dakty_connect, Server!Open
  <2>2. QED
    BY <1>3, <2>1 DEF NumbersInv
<1>7. ASSUME NEW c \in Conns, Exit(c) \/ ConnectionLost(c) PROVE NumbersInv'
  <2>1. seen' = seen
    BY <1>7 DEF Exit, ConnectionLost, client
  <2>2. CASE UNCHANGED server
    BY <1>2, <2>1, <2>2 DEF NumbersInv
  <2>3. CASE Server!ConnectionEnds(c)
    <3>1. UNCHANGED Server!stores
      BY <2>3 DEF Server!ConnectionEnds
    <3>2. QED
      BY <1>3, <2>1, <2>3, <3>1, EndsAnswer DEF NumbersInv
  <2>4. QED
    BY <1>7, <2>2, <2>3 DEF Exit, ConnectionLost
<1>8. ASSUME NEW c \in Conns, Serve(c) PROVE NumbersInv'
  <2>1. Server!handle_client(c) /\ seen' = seen
    BY <1>8 DEF Serve, client
  <2>2. QED
    BY <1>1, <2>1, HandlersMoveBoard, HandlersAnswer DEF NumbersInv
<1>9. CASE UNCHANGED vars
  BY <1>2, <1>9 DEF vars, client, NumbersInv
<1>10. QED
  BY <1>4, <1>5, <1>6, <1>7, <1>8, <1>9 DEF Next

LEMMA InitNumbers == Init => NumbersInv
<1> SUFFICES ASSUME Init PROVE NumbersInv
  OBVIOUS
<1>1. board = <<>> /\ seen = {} /\ out = [c \in Conns |-> <<>>]
  BY DEF Init, Server!Init
<1>2. out \in [Conns -> Seq(Answers)]
  BY <1>1
<1>3. Numbered
  BY <1>1 DEF Numbered
<1>4. QED
  BY <1>1, <1>2, <1>3 DEF NumbersInv

\* The message that a client has read and asks to be deleted is the one that goes, or
\* none does, whatever other sessions have posted and deleted in between and however a
\* reply was cut (save_message, delete_message and dakty_read_messages).
THEOREM ReadNumbersLast == Spec => []SeenKeepsItsNumber
<1>1. NumbersInv => SeenKeepsItsNumber
  BY DEF NumbersInv, Honest, SeenKeepsItsNumber
<1>2. TalkInv => SessionFacts!IInv
  BY DEF TalkInv
<1>3. QED
  BY <1>1, <1>2, Talk, InitNumbers, StepNumbers, PTL DEF Spec
===============================================================================
