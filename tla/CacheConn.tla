------------------------------ MODULE CacheConn ------------------------------
(***************************************************************************)
(* CacheConn: the Redis commands of the server, each on a context of its    *)
(* own that Init makes first, and setpb and getpb, which store a message    *)
(* object as a C string.  Redis is external, with what the server keeps in  *)
(* it: a value, a lock and a list.  When its reply does not come, a command *)
(* may have been carried out or not.  A serialized message is a sequence of *)
(* bytes, of which 0 and '~' are told apart from the others.                *)
(***************************************************************************)
EXTENDS Integers, SequencesExt, TLC

CONSTANTS
  Conns,       \* the CacheConn objects, each used by a thread
  Messages,    \* serialized messages: sequences of "0", "~" and "x"
  MaxCalls,    \* bound: calls of all threads
  NULL

VARIABLES
  m_pContext,  \* for each CacheConn: NULL, "open" or "freed"
  misused,     \* a command was given on a freed context
  value,       \* Redis: the value of the key, or NULL
  locked,      \* Redis: whether the key of the lock exists
  list,        \* Redis: the list of messages
  calls,
  ret,         \* the last call: the command, its argument, outcome and answer
  may,         \* history: what the value of the key may be, as far as the callers know
  owners       \* history: who was told to have the lock, since it was deleted

redis == <<value, locked, list>>
vars == <<m_pContext, misused, redis, calls, ret, may, owners>>

Init ==
  /\ m_pContext = [c \in Conns |-> "open"] /\ misused = FALSE
  /\ value = NULL /\ locked = FALSE /\ list = <<>>
  /\ calls = 0 /\ ret = [cmd |-> "none", arg |-> NULL, how |-> "reply", answer |-> NULL]
  /\ may = {NULL} /\ owners = {}

-----------------------------------------------------------------------------
(* The commands *)

Empty == <<>>
Throws == <<"throws">>

\* For each command, what it returns when Init fails and when there is no reply.
\* First those the handlers give; get makes a string of a null pointer, which throws.
Used ==
  [get |-> <<Throws, Empty>>, setex |-> <<Empty, Empty>>, setnx |-> <<-1, -1>>,
   getset |-> <<Empty, Empty>>, del |-> <<Empty, Empty>>,
   lpush |-> <<-1, -1>>, lrange |-> <<FALSE, FALSE>>]

\* Those no handler gives, which are about other keys and leave these alone.
KeyCommands == [expire |-> <<Empty, Empty>>, set |-> <<Empty, Empty>>]
Questions == [mget |-> <<FALSE, FALSE>>, isExists |-> <<FALSE, FALSE>>]
HashCommands ==
  [hdel |-> <<0, 0>>, hget |-> <<Empty, Empty>>, hgetAll |-> <<FALSE, FALSE>>,
   hset |-> <<-1, -1>>, hincrBy |-> <<-1, -1>>]
Fields == [hmset |-> <<Empty, Empty>>, hmget |-> <<FALSE, FALSE>>]
Counters == [incrBy |-> <<-1, -1>>, incr |-> <<-1, -1>>, decr |-> <<0, -1>>]
ListCommands == [rpush |-> <<-1, -1>>, llen |-> <<-1, -1>>]

Unused == KeyCommands @@ Questions @@ HashCommands @@ Fields @@ Counters @@ ListCommands
Failure == Used @@ Unused

\* How a call ends: Init fails, or there is no reply to a command that was carried
\* out or was not, or there is one.
Outcomes == {"no context", "not done", "reply lost", "reply"}
Done(how) == how \in {"reply lost", "reply"}

Answer(cmd, how, reply) ==
  CASE how = "reply" -> reply
    [] how = "no context" -> Failure[cmd][1]
    [] OTHER -> Failure[cmd][2]

\* Mutant of MadeBy: Init keeps a context that is there.
MadeByKept(ctx) == IF ctx = NULL THEN {NULL, "open"} ELSE {ctx}

\* CacheConn::Init makes a new context whatever was there, or none.  A connection
\* that fails is left to the command to find out.
MadeBy(ctx) == {NULL, "open"}

\* What a command without a reply leaves: isExists keeps the pointer it has freed.
AfterFree(cmd) == IF cmd = "isExists" THEN "freed" ELSE NULL

\* The part all commands have in common.
Command(c, cmd, how) ==
  /\ calls < MaxCalls /\ calls' = calls + 1
  /\ \E ctx \in MadeBy(m_pContext[c]) :
       /\ ctx = NULL <=> how = "no context"
       /\ misused' = (misused \/ ctx = "freed")
       /\ m_pContext' = [m_pContext EXCEPT
            ![c] = IF how \in {"not done", "reply lost"} THEN AfterFree(cmd) ELSE ctx]

Returns(cmd, arg, how, answer) == ret' = [cmd |-> cmd, arg |-> arg, how |-> how, answer |-> answer]

-----------------------------------------------------------------------------
(* Values *)

\* What setpb makes of the serialized message, and getpb of the string.
FromZero(m) == [i \in DOMAIN m |-> IF m[i] = "0" THEN "~" ELSE m[i]]
ToZero(s) == [i \in DOMAIN s |-> IF s[i] = "~" THEN "0" ELSE s[i]]

\* What the callers know of the value after a command that makes it v.
MayHold(how, v) ==
  CASE how = "reply" -> {v} [] how = "no context" -> may [] OTHER -> may \cup {v}

\* setpb, that is setex.
setpb(c, m) ==
  \E how \in Outcomes :
    /\ Command(c, "setex", how)
    /\ value' = IF Done(how) THEN FromZero(m) ELSE value
    /\ may' = MayHold(how, m)
    /\ Returns("setpb", m, how, Answer("setex", how, <<"OK">>))
    /\ UNCHANGED <<locked, list, owners>>

\* getpb, that is get.  An empty string is not parsed; bytes that are not those
\* that were serialized may not parse, and getpb throws as get does.
getpb(c) ==
  \E how \in Outcomes :
    LET reply == IF value = NULL THEN <<>> ELSE ToZero(value) IN
    /\ Command(c, "get", how)
    /\ \/ Returns("getpb", NULL, how, Answer("get", how, reply))
       \/ /\ how = "reply" /\ reply # <<>> /\ reply \notin may
          /\ Returns("getpb", NULL, how, Throws)
    /\ UNCHANGED <<redis, may, owners>>

\* getset, given by RedisLock with a time.
getset(c) ==
  \E how \in Outcomes :
    /\ Command(c, "getset", how)
    /\ value' = IF Done(how) THEN <<"x">> ELSE value
    /\ may' = MayHold(how, <<"x">>)
    /\ Returns("getset", NULL, how, Answer("getset", how, IF value = NULL THEN <<>> ELSE value))
    /\ UNCHANGED <<locked, list, owners>>

\* The reply to DEL is a number, of which del returns the string: none.
del(c) ==
  \E how \in Outcomes :
    /\ Command(c, "del", how)
    /\ value' = IF Done(how) THEN NULL ELSE value
    /\ may' = MayHold(how, NULL)
    /\ Returns("del", NULL, how, Answer("del", how, <<>>))
    /\ UNCHANGED <<locked, list, owners>>

-----------------------------------------------------------------------------
(* The lock and the list *)

setnx(c) ==
  \E how \in Outcomes :
    LET answer == Answer("setnx", how, IF locked THEN 0 ELSE 1) IN
    /\ Command(c, "setnx", how)
    /\ locked' = (locked \/ Done(how))
    /\ owners' = IF answer = 1 THEN owners \cup {c} ELSE owners
    /\ Returns("setnx", NULL, how, answer)
    /\ UNCHANGED <<value, list, may>>

\* RedisLock::unlock, by the one who has the lock.
delLock(c) ==
  \E how \in Outcomes :
    /\ c \in owners
    /\ Command(c, "del", how)
    /\ locked' = (locked /\ ~Done(how))
    /\ owners' = owners \ {c}
    /\ Returns("del", NULL, how, Answer("del", how, <<>>))
    /\ UNCHANGED <<value, list, may>>

lpush(c, m) ==
  \E how \in Outcomes :
    LET pushed == <<FromZero(m)>> \o list IN
    /\ Command(c, "lpush", how)
    /\ list' = IF Done(how) THEN pushed ELSE list
    /\ Returns("lpush", m, how, Answer("lpush", how, Len(pushed)))
    /\ UNCHANGED <<value, locked, may, owners>>

\* lrange adds the elements to the caller's list, which was empty.
lrange(c) ==
  \E how \in Outcomes :
    /\ Command(c, "lrange", how)
    /\ Returns("lrange", IF how = "reply" THEN list ELSE <<>>, how, Answer("lrange", how, TRUE))
    /\ UNCHANGED <<redis, may, owners>>

\* A command no handler gives.
Other(c, cmd) ==
  \E how \in Outcomes :
    /\ Command(c, cmd, how)
    /\ Returns(cmd, NULL, how, Answer(cmd, how, NULL))
    /\ UNCHANGED <<redis, may, owners>>

\* The time SETEX has set is over.
Expire ==
  /\ value # NULL /\ value' = NULL /\ may' = may \cup {NULL}
  /\ UNCHANGED <<m_pContext, misused, locked, list, calls, ret, owners>>

Next ==
  \/ \E c \in Conns :
       \/ getpb(c) \/ getset(c) \/ del(c) \/ setnx(c) \/ delLock(c) \/ lrange(c)
       \/ \E m \in Messages : setpb(c, m) \/ lpush(c, m)
       \/ \E cmd \in DOMAIN Unused : Other(c, cmd)
  \/ Expire

Spec == Init /\ [][Next]_vars

-----------------------------------------------------------------------------
(* Properties *)

TypeOK ==
  /\ \A c \in Conns : m_pContext[c] \in {NULL, "open", "freed"}
  /\ {misused, locked} \subseteq BOOLEAN /\ calls \in 0 .. MaxCalls /\ owners \subseteq Conns

HasTilde(m) == "~" \in ToSet(m)

\* The object getpb fills is one the last setpb has, or unanswered ones may have,
\* stored, byte for byte unless it holds a '~' of its own; getpb says that there is
\* none only where there may be none, and throws only over such a '~'.
GetsWhatWasSet ==
  ret.cmd = "getpb" /\ ret.how = "reply" =>
    \/ ret.answer = Throws /\ \E m \in may \ {NULL} : HasTilde(m)
    \/ ret.answer = <<>> /\ may \cap {NULL, <<>>} # {}
    \/ \E m \in may \ {NULL} : ret.answer = m \/ HasTilde(m)

\* However commands fail, setnx tells one caller at a time that it has the lock.
OneOwner == \A c, d \in owners : c = d

\* A positive answer of lpush means that the message is in the list.
PushedIsListed ==
  ret.cmd = "lpush" /\ ret.answer > 0 => FromZero(ret.arg) \in ToSet(list)

\* No command is given on a context that was freed, although isExists keeps a
\* pointer to one.
ContextAlive == ~misused
=============================================================================
