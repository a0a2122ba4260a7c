-------------------------------- MODULE Chat --------------------------------
(***************************************************************************)
(* Server and the part of BaseBusiness behind it that registers users, logs *)
(* them in and passes single chats on: to the connection that connMap_      *)
(* holds for the receiver, or to a list in Redis that is sent at the next   *)
(* login.  The handlers of different connections run on different IO        *)
(* threads (ioThreadNumber), and connMap_ is not protected: an access that  *)
(* overlaps another one may find or leave nothing, or end the process.      *)
(***************************************************************************)
EXTENDS Integers, Sequences, FiniteSets, SequencesExt

CONSTANTS
  Users, Conns,
  Accounts,      \* users with a row in IMUser at the start
  Types,         \* types of single chats sent, of {"text", "hongbao", "rob", "other"}
  Texts,         \* texts sent, of {"plain", "tilde", "long"}
  Logins,        \* bound: Login requests
  Chats,         \* bound: SingleChat requests
  Registers,     \* bound: Register requests
  Fails,         \* bound: commands refused by MySQL or Redis
  NULL

ASSUME ChatConstants ==
  /\ Accounts \subseteq Users /\ NULL \notin Conns
  /\ {Logins, Chats, Registers, Fails} \subseteq Nat

VARIABLES
  alive,      \* the process runs
  conn,       \* state of each connection: "new", "up", "down"
  th,         \* the handler each connection's thread is in, with its locals
  inMap,      \* connections whose thread is inside connMap_
  connMap,    \* connMap_
  IMUser,     \* number of rows with a name
  list,       \* <user>_message in Redis, newest first
  out,        \* chats sent on each connection
  left,       \* requests and failures left
  savedAs,    \* history: users a connection was saved for
  missed,     \* history: an overlapping access found or left nothing
  handled,    \* history: chats that were handled
  answers     \* history: answers to Register

vars == <<alive, conn, th, inMap, connMap, IMUser, list, out, left, savedAs, missed, handled, answers>>
history == <<savedAs, missed, handled, answers>>

Idle == [pc |-> "idle"]

Init ==
  /\ alive = TRUE /\ inMap = {} /\ missed = FALSE /\ handled = {} /\ answers = {}
  /\ conn = [c \in Conns |-> "new"] /\ th = [c \in Conns |-> Idle]
  /\ connMap = [u \in Users |-> NULL]
  /\ IMUser = [u \in Users |-> IF u \in Accounts THEN 1 ELSE 0]
  /\ list = [u \in Users |-> <<>>] /\ out = [c \in Conns |-> <<>>]
  /\ left = [login |-> Logins, chat |-> Chats, register |-> Registers, fail |-> Fails]
  /\ savedAs = [c \in Conns |-> {}]

At(c, pc) == alive /\ th[c].pc = pc
Goto(c, pc) == th' = [th EXCEPT ![c].pc = pc]
Return(c) == th' = [th EXCEPT ![c] = Idle]
Takes(what) == left[what] > 0 /\ left' = [left EXCEPT ![what] = @ - 1]

\* codec_.send to what connMap_ holds: a connection that is not up drops it.
Send(c, m) ==
  IF c # NULL /\ conn[c] = "up" THEN out' = [out EXCEPT ![c] = Append(@, m)] ELSE UNCHANGED out

-----------------------------------------------------------------------------
(* Connections and requests *)

Connect(c) ==
  /\ alive /\ conn[c] = "new" /\ conn' = [conn EXCEPT ![c] = "up"]
  /\ UNCHANGED <<alive, th, inMap, connMap, IMUser, list, out, left, history>>

\* onConnection only logs: the call of delUsernameConn is commented out.
Disconnect(c) ==
  /\ At(c, "idle") /\ conn[c] = "up" /\ conn' = [conn EXCEPT ![c] = "down"]
  /\ UNCHANGED <<alive, th, inMap, connMap, IMUser, list, out, left, history>>

Request(c, what, local) ==
  /\ At(c, "idle") /\ conn[c] = "up" /\ Takes(what)
  /\ th' = [th EXCEPT ![c] = local]
  /\ UNCHANGED <<alive, conn, inMap, connMap, IMUser, list, out, history>>

LoginRequest(c) ==
  \E u \in Users, right \in BOOLEAN :
    Request(c, "login", [pc |-> "save", user |-> u, right |-> right, msgs |-> <<>>, all |-> <<>>, ret |-> 0])

RegisterRequest(c) == \E u \in Users : Request(c, "register", [pc |-> "check", user |-> u, id |-> left.register])

ChatRequest(c) ==
  \E u \in Users, type \in Types, text \in Texts :
    Request(c, "chat", [pc |-> "get", user |-> u,
                        msg |-> [id |-> left.chat, to |-> u, type |-> type, text |-> text]])

-----------------------------------------------------------------------------
(* connMap_ *)

\* The thread is inside operator[] of connMap_, or uses a reference it returned.
EnterMap(c) ==
  /\ alive /\ th[c].pc \in {"save", "get", "forward", "send"} /\ c \notin inMap
  /\ inMap' = inMap \cup {c}
  /\ UNCHANGED <<alive, conn, th, connMap, IMUser, list, out, left, history>>

\* The access is over with this step.
InMap(c, pc) == At(c, pc) /\ c \in inMap /\ inMap' = inMap \ {c}

Overlaps(c) == inMap # {c}

\* Two threads were inside at once, and the process ends.
Crash(c) ==
  /\ alive /\ c \in inMap /\ Overlaps(c) /\ alive' = FALSE
  /\ UNCHANGED <<conn, th, inMap, connMap, IMUser, list, out, left, history>>

\* The map is read: what it holds, or nothing when accesses overlap.
Finds(c, u, x) ==
  \/ x = connMap[u] /\ UNCHANGED missed
  \/ Overlaps(c) /\ x = NULL /\ missed' = TRUE

-----------------------------------------------------------------------------
(* Server::Login *)

saveUsernameConn(c) ==
  LET u == th[c].user IN
  /\ InMap(c, "save")
  /\ \/ connMap' = [connMap EXCEPT ![u] = c] /\ UNCHANGED missed
     \/ Overlaps(c) /\ missed' = TRUE /\ UNCHANGED connMap
  /\ savedAs' = [savedAs EXCEPT ![c] = @ \cup {u}] /\ Goto(c, "verify")
  /\ UNCHANGED <<alive, conn, IMUser, list, out, left, handled, answers>>

\* Business::Login: the row with this name and password is there, or not, or
\* MySQL fails.  The answer is sent either way.
BusinessLogin(c) ==
  /\ At(c, "verify")
  /\ \/ /\ IF IMUser[th[c].user] > 0 /\ th[c].right THEN Goto(c, "lrange") ELSE Return(c)
        /\ UNCHANGED left
     \/ Takes("fail") /\ Return(c)
  /\ UNCHANGED <<alive, conn, inMap, connMap, IMUser, list, out, history>>

\* sendCacheMessage takes a copy of the list, and leaves the list as it is.
lrange(c) ==
  LET l == list[th[c].user] IN
  /\ At(c, "lrange")
  /\ \/ /\ th' = [th EXCEPT ![c].pc = IF l = <<>> THEN "sent" ELSE "cached", ![c].msgs = l, ![c].all = l]
        /\ UNCHANGED left
     \/ Takes("fail") /\ th' = [th EXCEPT ![c].pc = "sent", ![c].ret = -1]
  /\ UNCHANGED <<alive, conn, inMap, connMap, IMUser, list, out, history>>

\* What replaceFromZero, Redis and replaceToZero make of a text: a '~' comes back
\* as a 0 byte, and so does the length byte of a text of 126 = '~' bytes, with
\* which the message cannot be parsed or is another one.
Recovered(text) ==
  CASE text = "plain" -> {"plain"}
    [] text = "tilde" -> {"zeroed"}
    [] text = "long" -> {"garbled", "unparsable"}

\* Mutant of parseCached: a message that cannot be parsed ends the loop in silence.
ParseCachedSilent(c) ==
  LET t == th[c] IN
  /\ At(c, "cached")
  /\ \E text \in Recovered(Head(t.msgs).text) :
       IF text = "unparsable" THEN Goto(c, "sent")
       ELSE th' = [th EXCEPT ![c].pc = "send", ![c].msgs[1].text = text]
  /\ UNCHANGED <<alive, conn, inMap, connMap, IMUser, list, out, left, history>>

\* One round of the loop: a message is parsed, and the first that cannot be
\* ends the loop;
parseCached(c) ==
  LET t == th[c] IN
  /\ At(c, "cached")
  /\ \E text \in Recovered(Head(t.msgs).text) :
       IF text = "unparsable" THEN th' = [th EXCEPT ![c].pc = "sent", ![c].ret = -1]
       ELSE th' = [th EXCEPT ![c].pc = "send", ![c].msgs[1].text = text]
  /\ UNCHANGED <<alive, conn, inMap, connMap, IMUser, list, out, left, history>>

\* and it is sent to the connection that the user has by then.
sendCached(c) ==
  LET t == th[c]  rest == Tail(t.msgs) IN
  /\ InMap(c, "send")
  /\ \E x \in Conns \cup {NULL} : Finds(c, t.user, x) /\ Send(x, Head(t.msgs))
  /\ th' = [th EXCEPT ![c].pc = IF rest = <<>> THEN "sent" ELSE "cached", ![c].msgs = rest]
  /\ UNCHANGED <<alive, conn, connMap, IMUser, list, left, savedAs, handled, answers>>

\* The log line when sendCacheMessage returned 0, and the end of Login.
LoginEnd(c) ==
  /\ At(c, "sent") /\ Return(c)
  /\ UNCHANGED <<alive, conn, inMap, connMap, IMUser, list, out, left, history>>

-----------------------------------------------------------------------------
(* Server::Register *)

Answer(c, result, log) == answers' = answers \cup {[user |-> th[c].user, id |-> th[c].id, result |-> result, log |-> log]}

\* CheckDuplication finds the name, or fails: the result is set to false, then to
\* the text "username repeated!", which as a bool is true.
CheckDuplication(c) ==
  /\ At(c, "check")
  /\ \/ IMUser[th[c].user] = 0 /\ Goto(c, "insert") /\ UNCHANGED <<left, answers>>
     \/ IMUser[th[c].user] > 0 /\ Return(c) /\ Answer(c, TRUE, "repeated") /\ UNCHANGED left
     \/ Takes("fail") /\ Return(c) /\ Answer(c, TRUE, "check failed")
  /\ UNCHANGED <<alive, conn, inMap, connMap, IMUser, list, out, savedAs, missed, handled>>

\* Mutant of Insert: a failed insert is answered with success as well.
InsertAlwaysTrue(c) ==
  /\ At(c, "insert") /\ Return(c)
  /\ \/ IMUser' = [IMUser EXCEPT ![th[c].user] = @ + 1] /\ Answer(c, TRUE, "success") /\ UNCHANGED left
     \/ Takes("fail") /\ Answer(c, TRUE, "failed") /\ UNCHANGED IMUser
  /\ UNCHANGED <<alive, conn, inMap, connMap, list, out, savedAs, missed, handled>>

\* The row is inserted; IMUser has no unique key but its id.
Insert(c) ==
  /\ At(c, "insert") /\ Return(c)
  /\ \/ IMUser' = [IMUser EXCEPT ![th[c].user] = @ + 1] /\ Answer(c, TRUE, "success") /\ UNCHANGED left
     \/ Takes("fail") /\ Answer(c, FALSE, "failed") /\ UNCHANGED IMUser
  /\ UNCHANGED <<alive, conn, inMap, connMap, list, out, savedAs, missed, handled>>

-----------------------------------------------------------------------------
(* Server::SingleChat *)

getConnByUsername(c) ==
  LET u == th[c].user IN
  /\ InMap(c, "get")
  /\ \E x \in Conns \cup {NULL} :
       /\ Finds(c, u, x)
       /\ th' = [th EXCEPT ![c].pc = IF x = NULL THEN "cache" ELSE "forward"]
  /\ UNCHANGED <<alive, conn, connMap, IMUser, list, out, left, savedAs, handled, answers>>

Handled(c) == handled' = handled \cup {th[c].msg}

\* The types of the messages that are sent on: a text as it is, a red packet and
\* a rob (Business::SendHongbao and RobHongbao run here) as their response.
Forwarded == [text |-> "text", hongbao |-> "hbrsp", rob |-> "robhbrsp"]

\* Mutant of forward: the message goes to the connection it came from.
ForwardBack(c) ==
  LET m == th[c].msg IN
  /\ InMap(c, "forward") /\ Return(c) /\ Handled(c)
  /\ IF m.type \in DOMAIN Forwarded
     THEN Send(c, [m EXCEPT !.type = Forwarded[@]]) ELSE UNCHANGED out
  /\ UNCHANGED <<alive, conn, connMap, IMUser, list, left, savedAs, missed, answers>>

\* connPtr is a reference into connMap_: the connection is the one that is saved
\* for the receiver when the message is sent.
forward(c) ==
  LET m == th[c].msg IN
  /\ InMap(c, "forward") /\ Return(c) /\ Handled(c)
  /\ IF m.type \in DOMAIN Forwarded
     THEN Send(connMap[m.to], [m EXCEPT !.type = Forwarded[@]]) ELSE UNCHANGED out
  /\ UNCHANGED <<alive, conn, connMap, IMUser, list, left, savedAs, missed, answers>>

cacheMessage(c) ==
  /\ At(c, "cache") /\ Return(c) /\ Handled(c)
  /\ \/ list' = [list EXCEPT ![th[c].user] = <<th[c].msg>> \o @] /\ UNCHANGED left
     \/ Takes("fail") /\ UNCHANGED list
  /\ UNCHANGED <<alive, conn, inMap, connMap, IMUser, out, savedAs, missed, answers>>

Next ==
  \E c \in Conns :
    \/ Connect(c) \/ Disconnect(c)
    \/ LoginRequest(c) \/ RegisterRequest(c) \/ ChatRequest(c)
    \/ EnterMap(c) \/ Crash(c)
    \/ saveUsernameConn(c) \/ BusinessLogin(c) \/ lrange(c) \/ parseCached(c) \/ sendCached(c) \/ LoginEnd(c)
    \/ CheckDuplication(c) \/ Insert(c)
    \/ getConnByUsername(c) \/ forward(c) \/ cacheMessage(c)

Spec == Init /\ [][Next]_vars

-----------------------------------------------------------------------------
(* Properties *)

TypeOK ==
  /\ alive \in BOOLEAN /\ missed \in BOOLEAN
  /\ conn \in [Conns -> {"new", "up", "down"}]
  /\ inMap \subseteq {c \in Conns : th[c].pc \in {"save", "get", "forward", "send"}}
  /\ connMap \in [Users -> Conns \cup {NULL}]
  /\ IMUser \in [Users -> Nat] /\ savedAs \in [Conns -> SUBSET Users]
  /\ \A w \in DOMAIN left : left[w] \in Nat

\* Whatever the handlers overlap with, a chat is only ever sent on a connection
\* that was saved for its receiver, also when it comes from the list.
RightReceiver ==
  \A c \in Conns : \A i \in DOMAIN out[c] : out[c][i].to \in savedAs[c]

WasSent(id) == \E c \in Conns : \E i \in DOMAIN out[c] : out[c][i].id = id

InList(m) == \E i \in DOMAIN list[m.to] : list[m.to][i].id = m.id

\* SomeDown(u): a connection that was saved for u is down.
SomeDown(u) == \E c \in Conns : u \in savedAs[c] /\ conn[c] = "down"

\* A text that was handled has been sent or waits in the receiver's list, unless
\* Redis refused it or a connection of the receiver is down.
Accounted ==
  \A m \in handled :
    m.type = "text" => WasSent(m.id) \/ InList(m) \/ left.fail < Fails \/ SomeDown(m.to)

\* When Login logs that all messages were sent, each message of the list it took
\* was sent, unless a connection of the user is down or accesses overlapped.
LoginTellsAll ==
  \A c \in Conns :
    th[c].pc = "sent" /\ th[c].ret = 0 /\ ~ missed /\ ~ SomeDown(th[c].user) =>
      \A i \in DOMAIN th[c].all : WasSent(th[c].all[i].id)

\* A Register that is answered with true leaves an account with that name, when
\* CheckDuplication could ask MySQL.
TrueMeansAccount ==
  \A a \in answers : a.result /\ a.log # "check failed" => IMUser[a.user] > 0
=============================================================================
