-------------------------- MODULE CommandRelay_proofs --------------------------
(***************************************************************************)
(* Proofs that CommandRelay keeps its safety invariants for any number of  *)
(* pages, sockets, commands and requests, and queues of any length.        *)
(*                                                                         *)
(* The invariants speak of pages that have handled everything.  Each is    *)
(* strengthened to what a page will show or take when it has handled what  *)
(* is under way to it: by the last agent_status in its inbox, by a later   *)
(* agent_status for every answer that says it waits, and by what has the   *)
(* number of a command, wherever it is.                                    *)
(***************************************************************************)
EXTENDS CommandRelay, TLAPS

\* What has a type in a sequence of messages or requests.
Of(ms, type) == {ms[i] : i \in {j \in DOMAIN ms : ms[j].type = type}}

\* No two pages have one socket.
Unique == \A p, q \in Page : sid[p] = sid[q] /\ sid[p] # NoSid => p = q

\* A command or a result on its way from p or back to it has a number that p has
\* given, and if p waits for that number, p is who asked.
Owned(p, c) == c.id <= cmdSeq[p] /\ (c.id \in pending[p] => c.asker = p)

CommandsOf(p) ==
  /\ \A c \in work : c.sid = sid[p] => Owned(p, c)
  /\ \A c \in Of(outbox[p], "command") : Owned(p, c)
  /\ \A c \in Of(inbox[p], "result") : Owned(p, c)

CommandsInv == \A p \in Page : CommandsOf(p)

\* A socket whose hello is not under way has been taken for a browser: a request
\* that is taken before that leaves the hello to say what became of it.
AuthOf(p) == sid[p] # NoSid /\ Of(outbox[p], "hello") = {} => sid[p] \in browser_auth

AuthInv == \A p \in Page : AuthOf(p)

\* Word that the agent is connected, or that it is not.
Connected == Status(TRUE)

Gone == Status(FALSE)

\* The last agent_status of ms is at i.
LastStatus(ms, i) ==
  /\ i \in DOMAIN ms
  /\ ms[i].type = "agent_status"
  /\ \A j \in DOMAIN ms : j > i => ms[j].type # "agent_status"

\* Who shows what the word shown says will show what on says, after ms.
EndsAs(ms, shown, on) ==
  /\ \A i \in DOMAIN ms : LastStatus(ms, i) => ms[i] = on
  /\ Of(ms, "agent_status") = {} => shown = on

\* A page whose hello is not under way will show what the server has; only of
\* an agent that was kicked the server still has what no page will show.
Due(p) ==
  /\ sid[p] # NoSid
  /\ Of(outbox[p], "hello") = {}
  /\ agent # "kicked" \/ sid[p] \notin browser_agent

Shown(p) == IF p \in agentConnected THEN Connected ELSE Gone

Paired(p) == IF sid[p] \in browser_agent THEN Connected ELSE Gone

StatusInv ==
  /\ agent = "off" => browser_agent = {}
  /\ \A p \in Page : Due(p) => EndsAs(inbox[p], Shown(p), Paired(p))

\* After i there is word in ms that the agent is connected.
Greets(ms, i) == \E j \in DOMAIN ms : j > i /\ ms[j] = Connected

Excused(p) == sid[p] \in pending_browser \/ p \in lost

\* Who waits, or will by what is in ms, will hear of an agent or is excused.
\* "connected" comes with word of the agent, before it or after.
WaitsWell(ms, waits, shown, excused) ==
  /\ waits => Greets(ms, 0) \/ excused
  /\ \A i \in DOMAIN ms :
       /\ ms[i] = PairResult("waiting") => Greets(ms, i) \/ excused
       /\ ms[i] = PairResult("connected") =>
            \/ Greets(ms, i)
            \/ i > 1 /\ ms[i - 1] = Connected
            \/ i = 1 /\ shown = Connected

WaitInv ==
  \A p \in Page : WaitsWell(inbox[p], Waiting(p), Shown(p), Excused(p))

\* The inductive invariant.
IInv == TypeOK /\ Unique /\ CommandsInv /\ AuthInv /\ StatusInv /\ WaitInv

-----------------------------------------------------------------------------
\* Messages and requests.

LEMMA MessageTypes ==
  /\ \A on \in BOOLEAN : Status(on) \in Message
  /\ \A r \in {"waiting", "connected", "refused"} : PairResult(r) \in Message
  /\ \A c \in Work : Result(c) \in Message
  BY DEF Status, PairResult, Result, Message, Work

LEMMA CommandParts ==
  /\ \A m \in Message : m.type \in {"agent_status", "pair_result", "result"}
  /\ \A m \in Message : m.type = "result" =>
       m \in [type : {"result"}, id : Id, asker : Page \cup {Nobody}]
  /\ \A m \in Message : m.type = "agent_status" => m.connected \in BOOLEAN
  /\ \A m \in Request : m.type \in {"hello", "pair", "command"}
  /\ \A m \in Request : m.type = "command" =>
       m \in [type : {"command"}, id : Id, asker : Page \cup {Nobody}]
  BY DEF Message, Request

\* What is given up keeps its number, and loses only the page that gives it up.
Loses(p, ids, c, d) == d.id = c.id /\ (d.asker = c.asker \/ (c.asker = p /\ c.id \in ids))

LEMMA ForgottenWork ==
  ASSUME NEW p \in Page, NEW ids, NEW c \in Work
  PROVE  LET d == Forgotten(p, ids, c) IN
         d \in Work /\ d.sid = c.sid /\ Loses(p, ids, c, d)
  BY DEF Forgotten, Work, Loses

LEMMA ForgottenResult ==
  ASSUME NEW p \in Page, NEW ids, NEW c \in Message, c.type = "result"
  PROVE  LET d == Forgotten(p, ids, c) IN
         d \in Message /\ d.type = "result" /\ Loses(p, ids, c, d)
  <1>1. c \in [type : {"result"}, id : Id, asker : Page \cup {Nobody}]
    BY CommandParts
  <1>2. \A d : d \in [type : {"result"}, id : Id, asker : Page \cup {Nobody}] => d \in Message
    BY DEF Message
  <1>. QED  BY <1>1, <1>2 DEF Forgotten, Loses

LEMMA ForgottenCommand ==
  ASSUME NEW p \in Page, NEW ids, NEW c \in Request, c.type = "command"
  PROVE  LET d == Forgotten(p, ids, c) IN
         d \in Request /\ d.type = "command" /\ Loses(p, ids, c, d)
  <1>1. c \in [type : {"command"}, id : Id, asker : Page \cup {Nobody}]
    BY CommandParts
  <1>2. \A d : d \in [type : {"command"}, id : Id, asker : Page \cup {Nobody}] => d \in Request
    BY DEF Request
  <1>. QED  BY <1>1, <1>2 DEF Forgotten, Loses

\* A queue in which a page has given up commands.
LEMMA ForgottenQueue ==
  ASSUME NEW p \in Page, NEW ids, NEW ms, ms \in Seq(Message) \/ ms \in Seq(Request)
  PROVE  LET qs == ForgottenIn(p, ids, ms) IN
         /\ ms \in Seq(Message) => qs \in Seq(Message)
         /\ ms \in Seq(Request) => qs \in Seq(Request)
         /\ DOMAIN qs = DOMAIN ms
         /\ \A i \in DOMAIN ms :
              /\ qs[i].type = ms[i].type
              /\ qs[i].type \notin {"command", "result"} => qs[i] = ms[i]
              /\ qs[i].type \in {"command", "result"} => Loses(p, ids, ms[i], qs[i])
  <1> DEFINE qs == ForgottenIn(p, ids, ms)
  <1>1. DOMAIN ms = 1..Len(ms) /\ Len(ms) \in Nat
    OBVIOUS
  <1>2. /\ qs = [i \in DOMAIN ms |-> qs[i]]
        /\ \A i \in DOMAIN ms :
             qs[i] = IF ms[i].type \in {"command", "result"} THEN Forgotten(p, ids, ms[i]) ELSE ms[i]
    BY DEF ForgottenIn
  <1> HIDE DEF qs
  <1>3. ASSUME NEW i \in DOMAIN ms
        PROVE  /\ ms \in Seq(Message) => qs[i] \in Message
               /\ ms \in Seq(Request) => qs[i] \in Request
               /\ qs[i].type = ms[i].type
               /\ qs[i].type \notin {"command", "result"} => qs[i] = ms[i]
               /\ qs[i].type \in {"command", "result"} => Loses(p, ids, ms[i], qs[i])
    <2>1. /\ ms \in Seq(Message) => ms[i] \in Message
          /\ ms \in Seq(Request) => ms[i] \in Request
      BY <1>1
    <2>2. CASE ms[i].type \notin {"command", "result"}
      BY <1>2, <2>1, <2>2
    <2>3. CASE ms[i] \in Message /\ ms[i].type = "result"
      <3>1. ms[i] \notin Request
        BY <2>3, CommandParts
      <3>. QED  BY <1>2, <2>1, <2>3, <3>1, ForgottenResult
    <2>4. CASE ms[i] \in Request /\ ms[i].type = "command"
      <3>1. ms[i] \notin Message
        BY <2>4, CommandParts
      <3>. QED  BY <1>2, <2>1, <2>4, <3>1, ForgottenCommand
    <2>5. ms[i] \in Message => ms[i].type # "command"
      BY CommandParts
    <2>6. ms[i] \in Request => ms[i].type # "result"
      BY CommandParts
    <2>. QED  BY <2>1, <2>2, <2>3, <2>4, <2>5, <2>6
  <1>4. DOMAIN qs = DOMAIN ms
    BY <1>2
  <1>5. ms \in Seq(Message) => qs \in Seq(Message)
    BY <1>1, <1>2, <1>3
  <1>6. ms \in Seq(Request) => qs \in Seq(Request)
    BY <1>1, <1>2, <1>3
  <1>. QED  BY <1>3, <1>4, <1>5, <1>6 DEF qs

-----------------------------------------------------------------------------
\* Queues: how they grow at the end and lose their head.

LEMMA Concat ==
  ASSUME NEW S, NEW ms \in Seq(S), NEW qs \in Seq(S)
  PROVE  /\ ms \o qs \in Seq(S)
         /\ Len(ms) \in Nat /\ DOMAIN ms = 1..Len(ms) /\ DOMAIN qs = 1..Len(qs)
         /\ DOMAIN (ms \o qs) = 1..(Len(ms) + Len(qs))
         /\ \A i \in DOMAIN ms : i \in DOMAIN (ms \o qs) /\ (ms \o qs)[i] = ms[i]
         /\ \A i \in DOMAIN qs : /\ Len(ms) + i \in DOMAIN (ms \o qs)
                                 /\ (ms \o qs)[Len(ms) + i] = qs[i]
         /\ \A i \in DOMAIN (ms \o qs) : i \notin DOMAIN ms =>
              /\ i - Len(ms) \in DOMAIN qs /\ i > Len(ms)
              /\ (ms \o qs)[i] = qs[i - Len(ms)]
  OBVIOUS

LEMMA OfMember ==
  ASSUME NEW ms, NEW i \in DOMAIN ms
  PROVE  ms[i] \in Of(ms, ms[i].type)
  BY DEF Of

LEMMA OfConcat ==
  ASSUME NEW S, NEW ms \in Seq(S), NEW qs \in Seq(S), NEW t
  PROVE  Of(ms \o qs, t) = Of(ms, t) \cup Of(qs, t)
  <1>1. Of(ms \o qs, t) \subseteq Of(ms, t) \cup Of(qs, t)
    BY Concat DEF Of
  <1>2. Of(ms, t) \subseteq Of(ms \o qs, t)
    BY Concat DEF Of
  <1>3. ASSUME NEW i \in DOMAIN qs, qs[i].type = t  PROVE qs[i] \in Of(ms \o qs, t)
    <2>1. Len(ms) + i \in DOMAIN (ms \o qs) /\ (ms \o qs)[Len(ms) + i] = qs[i]
      BY Concat
    <2>. QED  BY <1>3, <2>1, OfMember
  <1>4. Of(qs, t) \subseteq Of(ms \o qs, t)
    BY <1>3 DEF Of
  <1>. QED  BY <1>1, <1>2, <1>4

LEMMA Taken ==
  ASSUME NEW S, NEW ms \in Seq(S), ms # <<>>
  PROVE  /\ Tail(ms) \in Seq(S)
         /\ 1 \in DOMAIN ms /\ Head(ms) = ms[1]
         /\ DOMAIN ms = 1..Len(ms) /\ Len(ms) \in Nat
         /\ DOMAIN Tail(ms) = 1..(Len(ms) - 1)
         /\ \A i \in DOMAIN Tail(ms) : i + 1 \in DOMAIN ms /\ Tail(ms)[i] = ms[i + 1]
         /\ \A i \in DOMAIN ms : i > 1 => i - 1 \in DOMAIN Tail(ms) /\ Tail(ms)[i - 1] = ms[i]
  OBVIOUS

LEMMA OfTaken ==
  ASSUME NEW S, NEW ms \in Seq(S), ms # <<>>, NEW t
  PROVE  /\ Of(Tail(ms), t) \subseteq Of(ms, t)
         /\ Head(ms).type # t => Of(Tail(ms), t) = Of(ms, t)
  <1>1. Of(Tail(ms), t) \subseteq Of(ms, t)
    BY Taken DEF Of
  <1>2. ASSUME Head(ms).type # t  PROVE Of(ms, t) \subseteq Of(Tail(ms), t)
    <2>1. ASSUME NEW i \in DOMAIN ms, ms[i].type = t  PROVE ms[i] \in Of(Tail(ms), t)
      <3>1. i > 1
        BY <1>2, <2>1, Taken
      <3>. QED  BY <2>1, <3>1, Taken DEF Of
    <2>. QED  BY <2>1 DEF Of
  <1>. QED  BY <1>1, <1>2

\* What a queue has of a type, when an element is put behind it.
LEMMA OfAppend ==
  ASSUME NEW ms \in Seq(Request), NEW m \in Request, NEW t
  PROVE  /\ Append(ms, m) \in Seq(Request)
         /\ m.type = t => Of(Append(ms, m), t) = Of(ms, t) \cup {m}
         /\ m.type # t => Of(Append(ms, m), t) = Of(ms, t)
  <1> DEFINE one == <<m>>
  <1>1. one \in Seq(Request) /\ Append(ms, m) = ms \o one /\ Append(ms, m) \in Seq(Request)
    OBVIOUS
  <1>2. Of(one, t) = IF m.type = t THEN {m} ELSE {}
    BY DEF Of
  <1> HIDE DEF one
  <1>3. Of(ms \o one, t) = Of(ms, t) \cup Of(one, t)
    BY <1>1, OfConcat
  <1>. QED  BY <1>1, <1>2, <1>3

\* Giving up commands leaves the types, and every message but those.
LEMMA OfForgotten ==
  ASSUME NEW p \in Page, NEW ids, NEW ms, ms \in Seq(Message) \/ ms \in Seq(Request)
  PROVE  LET qs == ForgottenIn(p, ids, ms) IN
         /\ Of(qs, "hello") = Of(ms, "hello")
         /\ Of(qs, "agent_status") = Of(ms, "agent_status")
         /\ \A d \in Of(qs, "command") : \E c \in Of(ms, "command") : Loses(p, ids, c, d)
         /\ \A d \in Of(qs, "result") : \E c \in Of(ms, "result") : Loses(p, ids, c, d)
  <1> DEFINE qs == ForgottenIn(p, ids, ms)
  <1>1. /\ DOMAIN qs = DOMAIN ms
        /\ \A i \in DOMAIN ms :
             /\ qs[i].type = ms[i].type
             /\ qs[i].type \notin {"command", "result"} => qs[i] = ms[i]
             /\ qs[i].type \in {"command", "result"} => Loses(p, ids, ms[i], qs[i])
    BY ForgottenQueue
  <1> HIDE DEF qs
  <1>2. Of(qs, "hello") = Of(ms, "hello") /\ Of(qs, "agent_status") = Of(ms, "agent_status")
    BY <1>1 DEF Of
  <1>3. \A d \in Of(qs, "command") : \E c \in Of(ms, "command") : Loses(p, ids, c, d)
    BY <1>1 DEF Of
  <1>4. \A d \in Of(qs, "result") : \E c \in Of(ms, "result") : Loses(p, ids, c, d)
    BY <1>1 DEF Of
  <1>. QED  BY <1>2, <1>3, <1>4 DEF qs

-----------------------------------------------------------------------------
\* What a page will show.

\* The last agent_status in qs says so.
Says(qs, on) == \E k \in DOMAIN qs : LastStatus(qs, k) /\ qs[k] = on

\* Whoever hears it shows it.
LEMMA EndsAsSaid ==
  ASSUME NEW ms \in Seq(Message), NEW qs \in Seq(Message), NEW shown, NEW on, Says(qs, on)
  PROVE  EndsAs(ms \o qs, shown, on)
  <1>1. PICK k \in DOMAIN qs : LastStatus(qs, k) /\ qs[k] = on
    BY DEF Says
  <1> DEFINE all == ms \o qs
  <1>2. /\ Len(ms) \in Nat /\ DOMAIN ms = 1..Len(ms) /\ DOMAIN qs = 1..Len(qs)
        /\ DOMAIN all = 1..(Len(ms) + Len(qs))
        /\ \A i \in DOMAIN qs : Len(ms) + i \in DOMAIN all /\ all[Len(ms) + i] = qs[i]
        /\ \A i \in DOMAIN all : i \notin DOMAIN ms =>
              i - Len(ms) \in DOMAIN qs /\ i > Len(ms) /\ all[i] = qs[i - Len(ms)]
    BY Concat
  <1> HIDE DEF all
  <1>3. /\ Len(ms) + k \in DOMAIN all /\ all[Len(ms) + k] = qs[k]
        /\ qs[k].type = "agent_status"
    BY <1>1, <1>2 DEF LastStatus
  <1>4. ASSUME NEW i \in DOMAIN all, LastStatus(all, i)
        PROVE  all[i] = on
    <2>1. i >= Len(ms) + k
      BY <1>1, <1>2, <1>3, <1>4 DEF LastStatus
    <2>2. CASE i = Len(ms) + k
      BY <1>1, <1>3, <2>2
    <2>3. CASE i > Len(ms) + k
      <3>1. i - Len(ms) \in DOMAIN qs /\ i - Len(ms) > k /\ all[i] = qs[i - Len(ms)]
        BY <1>1, <1>2, <2>3
      <3>. QED  BY <1>1, <1>4, <3>1 DEF LastStatus
    <2>. QED  BY <1>1, <1>2, <2>1, <2>2, <2>3
  <1>5. Of(all, "agent_status") # {}
    BY <1>3 DEF Of
  <1>. QED  BY <1>4, <1>5 DEF EndsAs, all

\* Other messages change nothing.
LEMMA EndsAsBefore ==
  ASSUME NEW ms \in Seq(Message), NEW qs \in Seq(Message), NEW shown, NEW on,
         EndsAs(ms, shown, on), Of(qs, "agent_status") = {}
  PROVE  EndsAs(ms \o qs, shown, on)
  <1> DEFINE all == ms \o qs
  <1>1. /\ Len(ms) \in Nat /\ DOMAIN ms = 1..Len(ms)
        /\ \A i \in DOMAIN ms : i \in DOMAIN all /\ all[i] = ms[i]
        /\ \A i \in DOMAIN all : i \notin DOMAIN ms =>
              i - Len(ms) \in DOMAIN qs /\ all[i] = qs[i - Len(ms)]
    BY Concat
  <1>3. Of(all, "agent_status") = Of(ms, "agent_status")
    <2>1. Of(all, "agent_status") = Of(ms, "agent_status") \cup Of(qs, "agent_status")
      BY OfConcat
    <2>. QED  BY <2>1
  <1> HIDE DEF all
  <1>2. ASSUME NEW i \in DOMAIN all, LastStatus(all, i)
        PROVE  LastStatus(ms, i) /\ ms[i] = all[i]
    <2>1. i \in DOMAIN ms
      BY <1>1, <1>2, OfMember DEF LastStatus
    <2>. QED  BY <1>1, <1>2, <2>1 DEF LastStatus
  <1>4. \A i \in DOMAIN all : LastStatus(all, i) => all[i] = on
    <2>1. ASSUME NEW i \in DOMAIN all, LastStatus(all, i)  PROVE all[i] = on
      <3>1. i \in DOMAIN ms /\ LastStatus(ms, i) /\ ms[i] = all[i]
        BY <1>2, <2>1 DEF LastStatus
      <3>. QED  BY <3>1 DEF EndsAs
    <2>. QED  BY <2>1
  <1>. QED  BY <1>3, <1>4 DEF EndsAs, all

\* A page that hears a message shows what it says.
LEMMA EndsAsHeard ==
  ASSUME NEW ms \in Seq(Message), ms # <<>>, NEW shown, NEW on,
         EndsAs(ms, shown, on)
  PROVE  EndsAs(Tail(ms),
                IF Head(ms).type = "agent_status" THEN Head(ms) ELSE shown, on)
  <1>1. /\ 1 \in DOMAIN ms /\ Head(ms) = ms[1] /\ DOMAIN ms = 1..Len(ms) /\ Len(ms) \in Nat
        /\ DOMAIN Tail(ms) = 1..(Len(ms) - 1)
        /\ \A i \in DOMAIN Tail(ms) : i + 1 \in DOMAIN ms /\ Tail(ms)[i] = ms[i + 1]
        /\ \A i \in DOMAIN ms : i > 1 => i - 1 \in DOMAIN Tail(ms) /\ Tail(ms)[i - 1] = ms[i]
    BY Taken
  <1>2. ASSUME NEW i \in DOMAIN Tail(ms), LastStatus(Tail(ms), i)
        PROVE  Tail(ms)[i] = on
    <2>1. LastStatus(ms, i + 1)
      <3>1. ASSUME NEW j \in DOMAIN ms, j > i + 1  PROVE ms[j].type # "agent_status"
        <4>1. j - 1 \in DOMAIN Tail(ms) /\ Tail(ms)[j - 1] = ms[j] /\ j - 1 > i
          BY <1>1, <3>1
        <4>. QED  BY <1>2, <4>1 DEF LastStatus
      <3>. QED  BY <1>1, <1>2, <3>1 DEF LastStatus
    <2>. QED  BY <1>1, <2>1 DEF EndsAs
  <1>3. ASSUME Of(Tail(ms), "agent_status") = {}, Head(ms).type = "agent_status"
        PROVE  Head(ms) = on
    <2>1. ASSUME NEW j \in DOMAIN ms, j > 1  PROVE ms[j].type # "agent_status"
      <3>1. j - 1 \in DOMAIN Tail(ms) /\ Tail(ms)[j - 1] = ms[j]
        BY <1>1, <2>1
      <3>2. ms[j] \in Of(Tail(ms), ms[j].type)
        BY <3>1, OfMember
      <3>. QED  BY <1>3, <3>2
    <2>2. LastStatus(ms, 1)
      BY <1>1, <1>3, <2>1 DEF LastStatus
    <2>. QED  BY <1>1, <2>2 DEF EndsAs
  <1>4. ASSUME Of(Tail(ms), "agent_status") = {}, Head(ms).type # "agent_status"
        PROVE  shown = on
    BY <1>4, OfTaken DEF EndsAs
  <1>. QED  BY <1>2, <1>3, <1>4 DEF EndsAs

-----------------------------------------------------------------------------
\* Who waits.

\* Word of the agent, or an excuse, is for everything that is under way.
LEMMA WaitsWellAfter ==
  ASSUME NEW ms \in Seq(Message), NEW qs \in Seq(Message), NEW waits, NEW shown,
         NEW before, NEW after, WaitsWell(ms, waits, shown, before),
         before => after \/ (\E j \in DOMAIN qs : qs[j] = Connected),
         \A i \in DOMAIN qs :
           /\ qs[i] = PairResult("waiting") => after
           /\ qs[i] = PairResult("connected") =>
                Greets(qs, i) \/ (i > 1 /\ qs[i - 1] = Connected)
  PROVE  WaitsWell(ms \o qs, waits, shown, after)
  <1> DEFINE all == ms \o qs
  <1>1. /\ Len(ms) \in Nat /\ DOMAIN ms = 1..Len(ms) /\ DOMAIN qs = 1..Len(qs)
        /\ \A i \in DOMAIN ms : i \in DOMAIN all /\ all[i] = ms[i]
        /\ \A i \in DOMAIN qs : Len(ms) + i \in DOMAIN all /\ all[Len(ms) + i] = qs[i]
        /\ \A i \in DOMAIN all : i \notin DOMAIN ms =>
              i - Len(ms) \in DOMAIN qs /\ i > Len(ms) /\ all[i] = qs[i - Len(ms)]
        /\ DOMAIN all = 1..(Len(ms) + Len(qs))
    BY Concat
  <1> HIDE DEF all
  <1>2. ASSUME NEW i \in 0..Len(ms), Greets(ms, i) \/ before
        PROVE  Greets(all, i) \/ after
    <2>1. CASE Greets(ms, i)
      BY <1>1, <2>1 DEF Greets
    <2>2. CASE \E j \in DOMAIN qs : qs[j] = Connected
      <3>1. PICK j \in DOMAIN qs : qs[j] = Connected
        BY <2>2
      <3>2. Len(ms) + j \in DOMAIN all /\ Len(ms) + j > i /\ all[Len(ms) + j] = Connected
        BY <1>1, <3>1
      <3>. QED  BY <3>2 DEF Greets
    <2>. QED  BY <1>2, <2>1, <2>2
  <1>3. waits => Greets(all, 0) \/ after
    BY <1>1, <1>2 DEF WaitsWell
  <1>4. ASSUME NEW i \in DOMAIN all, i \in DOMAIN ms
        PROVE  /\ all[i] = PairResult("waiting") => Greets(all, i) \/ after
               /\ all[i] = PairResult("connected") =>
                    \/ Greets(all, i)
                    \/ i > 1 /\ all[i - 1] = Connected
                    \/ i = 1 /\ shown = Connected
    <2>1. i \in 0..Len(ms) /\ all[i] = ms[i] /\ (i > 1 => all[i - 1] = ms[i - 1])
      BY <1>1, <1>4
    <2>2. Greets(ms, i) => Greets(all, i)
      BY <1>1 DEF Greets
    <2>. QED  BY <1>2, <1>4, <2>1, <2>2 DEF WaitsWell
  <1>5. ASSUME NEW i \in DOMAIN all, i \notin DOMAIN ms
        PROVE  /\ all[i] = PairResult("waiting") => Greets(all, i) \/ after
               /\ all[i] = PairResult("connected") =>
                    \/ Greets(all, i)
                    \/ i > 1 /\ all[i - 1] = Connected
                    \/ i = 1 /\ shown = Connected
    <2> DEFINE k == i - Len(ms)
    <2>1. k \in DOMAIN qs /\ k \in Nat /\ i = Len(ms) + k /\ all[i] = qs[k]
      BY <1>1, <1>5
    <2>2. ASSUME Greets(qs, k)  PROVE Greets(all, i)
      <3>1. PICK j \in DOMAIN qs : j > k /\ qs[j] = Connected
        BY <2>2 DEF Greets
      <3>2. Len(ms) + j \in DOMAIN all /\ Len(ms) + j > i /\ all[Len(ms) + j] = Connected
        BY <1>1, <2>1, <3>1
      <3>. QED  BY <3>2 DEF Greets
    <2>3. ASSUME k > 1  PROVE i > 1 /\ all[i - 1] = qs[k - 1]
      <3>1. k - 1 \in DOMAIN qs /\ Len(ms) + (k - 1) = i - 1
        BY <1>1, <2>1, <2>3
      <3>. QED  BY <1>1, <2>1, <2>3, <3>1
    <2>. QED  BY <2>1, <2>2, <2>3
  <1>. QED  BY <1>3, <1>4, <1>5 DEF WaitsWell, all

\* A message is heard that is no welcome: what the page shows and whether it
\* waits may change with it.
LEMMA WaitsWellHeard ==
  ASSUME NEW ms \in Seq(Message), ms # <<>>, NEW waits, NEW shown, NEW now, NEW heard,
         NEW before, NEW after, WaitsWell(ms, waits, shown, before),
         now => \/ waits /\ Head(ms) # Connected /\ (before => after)
                \/ Head(ms) = PairResult("waiting") /\ (before => after)
                \/ Head(ms) = PairResult("connected") /\ shown # Connected,
         before => after \/ (\A i \in DOMAIN ms : ms[i] # PairResult("waiting")),
         Head(ms) = Connected => heard = Connected
  PROVE  WaitsWell(Tail(ms), now, heard, after)
  <1> DEFINE rest == Tail(ms)
  <1>1. /\ 1 \in DOMAIN ms /\ Head(ms) = ms[1] /\ DOMAIN ms = 1..Len(ms) /\ Len(ms) \in Nat
        /\ DOMAIN rest = 1..(Len(ms) - 1)
        /\ \A i \in DOMAIN rest : i + 1 \in DOMAIN ms /\ rest[i] = ms[i + 1]
        /\ \A i \in DOMAIN ms : i > 1 => i - 1 \in DOMAIN rest /\ rest[i - 1] = ms[i]
    BY Taken
  <1> HIDE DEF rest
  <1>2. ASSUME NEW i \in Nat, Greets(ms, i + 1)  PROVE Greets(rest, i)
    <2>1. PICK j \in DOMAIN ms : j > i + 1 /\ ms[j] = Connected
      BY <1>2 DEF Greets
    <2>2. j - 1 \in DOMAIN rest /\ j - 1 > i /\ rest[j - 1] = Connected
      BY <1>1, <2>1
    <2>. QED  BY <2>2 DEF Greets
  <1>3. PairResult("connected") # PairResult("waiting") /\ PairResult("connected") # Connected
    BY DEF PairResult, Status, Connected
  <1>4. ASSUME now  PROVE Greets(rest, 0) \/ after
    <2>1. CASE waits /\ Head(ms) # Connected /\ (before => after)
      <3>1. Greets(ms, 0) => Greets(ms, 0 + 1)
        BY <1>1, <2>1 DEF Greets
      <3>. QED  BY <1>2, <2>1, <3>1 DEF WaitsWell
    <2>2. CASE Head(ms) = PairResult("waiting") /\ (before => after)
      <3>1. Greets(ms, 0 + 1) \/ before
        BY <1>1, <2>2 DEF WaitsWell
      <3>. QED  BY <1>2, <2>2, <3>1
    <2>3. CASE Head(ms) = PairResult("connected") /\ shown # Connected
      <3>1. Greets(ms, 0 + 1)
        BY <1>1, <2>3 DEF WaitsWell
      <3>. QED  BY <1>2, <3>1
    <2>. QED  BY <1>4, <2>1, <2>2, <2>3
  <1>5. ASSUME NEW i \in DOMAIN rest
        PROVE  /\ rest[i] = PairResult("waiting") => Greets(rest, i) \/ after
               /\ rest[i] = PairResult("connected") =>
                    \/ Greets(rest, i)
                    \/ i > 1 /\ rest[i - 1] = Connected
                    \/ i = 1 /\ heard = Connected
    <2>1. i \in Nat /\ i + 1 \in DOMAIN ms /\ rest[i] = ms[i + 1]
      BY <1>1
    <2>2. ASSUME rest[i] = PairResult("waiting")  PROVE Greets(rest, i) \/ after
      <3>1. Greets(ms, i + 1) \/ before
        BY <2>1, <2>2 DEF WaitsWell
      <3>. QED  BY <1>2, <2>1, <2>2, <3>1
    <2>3. ASSUME rest[i] = PairResult("connected")
          PROVE  \/ Greets(rest, i)
                 \/ i > 1 /\ rest[i - 1] = Connected
                 \/ i = 1 /\ heard = Connected
      <3>1. Greets(ms, i + 1) \/ ms[i] = Connected
        <4>1. i \in Nat \ {0}
          BY <1>1
        <4>2. i + 1 > 1 /\ i + 1 # 1 /\ (i + 1) - 1 = i
          BY <4>1
        <4>. QED  BY <2>1, <2>3, <4>2 DEF WaitsWell
      <3>2. i > 1 => rest[i - 1] = ms[i]
        BY <1>1, <2>1
      <3>. QED  BY <1>1, <1>2, <2>1, <3>1, <3>2
    <2>. QED  BY <2>2, <2>3
  <1>. QED  BY <1>4, <1>5 DEF WaitsWell, rest

-----------------------------------------------------------------------------
\* What the server sends.

\* Page p is sent X[p].
Sends(X) ==
  /\ X \in [Page -> Seq(Message)]
  /\ inbox' = [p \in Page |-> inbox[p] \o X[p]]

LEMMA EmitSends ==
  ASSUME TypeOK, NEW R \in SUBSET Sid, NEW ms \in Seq(Message), Emit(To(R, ms))
  PROVE  Sends([p \in Page |-> IF sid[p] \in R THEN ms ELSE <<>>])
  <1> DEFINE X == [p \in Page |-> IF sid[p] \in R THEN ms ELSE <<>>]
  <1>1. X \in [Page -> Seq(Message)]
    OBVIOUS
  <1>2. ASSUME NEW p \in Page
        PROVE  (IF sid[p] = NoSid THEN inbox[p] ELSE inbox[p] \o To(R, ms)[sid[p]])
                 = inbox[p] \o X[p]
    <2>1. inbox[p] \in Seq(Message) /\ sid[p] \in Sid \cup {NoSid}
      BY DEF TypeOK
    <2>2. inbox[p] \o <<>> = inbox[p]
      BY <2>1
    <2>3. sid[p] # NoSid => To(R, ms)[sid[p]] = X[p]
      BY <2>1 DEF To
    <2>4. sid[p] = NoSid => X[p] = <<>>
      BY RelayAssumption
    <2> HIDE DEF X
    <2>. QED  BY <2>2, <2>3, <2>4
  <1> HIDE DEF X
  <1>3. inbox' = [p \in Page |-> inbox[p] \o X[p]]
    BY <1>2 DEF Emit
  <1>. QED  BY <1>1, <1>3 DEF Sends, X

LEMMA NothingSent ==
  ASSUME TypeOK, UNCHANGED inbox
  PROVE  Sends([p \in Page |-> <<>>])
  <1>1. \A p \in Page : inbox[p] \in Seq(Message) /\ inbox[p] \o <<>> = inbox[p]
    BY DEF TypeOK
  <1>2. inbox = [p \in Page |-> inbox[p]]
    BY DEF TypeOK
  <1>3. [p \in Page |-> <<>>] \in [Page -> Seq(Message)]
    OBVIOUS
  <1>. QED  BY <1>1, <1>2, <1>3 DEF Sends

\* What p will show is as it was.
Keeps(p) == Due(p)' => Due(p) /\ Paired(p)' = Paired(p)

\* In this step, ms may be sent to p: results that p may take, the last word of
\* the agent a true one, and no news of it missing from who waits.
Fits(p, ms) ==
  /\ \A c \in Of(ms, "result") : Owned(p, c)
  /\ \/ Due(p)' => Says(ms, Paired(p)')
     \/ Of(ms, "agent_status") = {} /\ Keeps(p)
  /\ Excused(p) => Excused(p)' \/ (\E j \in DOMAIN ms : ms[j] = Connected)
  /\ \A i \in DOMAIN ms :
       /\ ms[i] = PairResult("waiting") => Excused(p)'
       /\ ms[i] = PairResult("connected") =>
            Greets(ms, i) \/ (i > 1 /\ ms[i - 1] = Connected)

LEMMA Words ==
  /\ Connected \in Message /\ Gone \in Message
  /\ Connected.type = "agent_status" /\ Gone.type = "agent_status" /\ Connected # Gone
  /\ \A r \in {"waiting", "connected", "refused"} :
       /\ PairResult(r) \in Message /\ PairResult(r).type = "pair_result"
       /\ PairResult(r) # Connected /\ PairResult(r) # Gone
  /\ PairResult("refused") \notin {PairResult("waiting"), PairResult("connected")}
  /\ PairResult("waiting") # PairResult("connected")
  BY DEF Connected, Gone, Status, PairResult, Message

LEMMA One ==
  ASSUME NEW m \in Message
  PROVE  /\ <<m>> \in Seq(Message) /\ DOMAIN <<m>> = {1} /\ <<m>>[1] = m
         /\ \A t : Of(<<m>>, t) = IF m.type = t THEN {m} ELSE {}
  <1>1. <<m>> \in Seq(Message) /\ DOMAIN <<m>> = {1} /\ <<m>>[1] = m
    OBVIOUS
  <1> DEFINE one == <<m>>
  <1> HIDE DEF one
  <1>2. \A t : Of(one, t) = IF m.type = t THEN {m} ELSE {}
    BY <1>1 DEF Of, one
  <1>. QED  BY <1>1, <1>2 DEF one

LEMMA Two ==
  ASSUME NEW m \in Message, NEW n \in Message, NEW ms, ms = <<m, n>>
  PROVE  /\ ms \in Seq(Message) /\ DOMAIN ms = {1, 2} /\ ms[1] = m /\ ms[2] = n
         /\ \A t : t # m.type /\ t # n.type => Of(ms, t) = {}
  <1>1. ms \in Seq(Message) /\ DOMAIN ms = {1, 2} /\ ms[1] = m /\ ms[2] = n
    OBVIOUS
  <1>2. \A t : t # m.type /\ t # n.type => Of(ms, t) = {}
    BY <1>1 DEF Of
  <1>. QED  BY <1>1, <1>2

\* Nothing may be sent to who keeps what it had.
LEMMA FitsNothing ==
  ASSUME NEW p, Keeps(p), Excused(p) => Excused(p)'
  PROVE  Fits(p, <<>>)
  <1>1. DOMAIN <<>> = {} /\ \A t : Of(<<>>, t) = {}
    BY DEF Of
  <1>. QED  BY <1>1 DEF Fits

LEMMA FitsRefused ==
  ASSUME NEW p, Keeps(p), Excused(p) => Excused(p)'
  PROVE  Fits(p, <<PairResult("refused")>>)
  <1> DEFINE ms == <<PairResult("refused")>>
  <1>1. /\ DOMAIN ms = {1} /\ ms[1] = PairResult("refused")
        /\ Of(ms, "result") = {} /\ Of(ms, "agent_status") = {}
    BY One, Words
  <1> HIDE DEF ms
  <1>2. \A i \in DOMAIN ms : ms[i] # PairResult("waiting") /\ ms[i] # PairResult("connected")
    BY <1>1, Words
  <1>3. Fits(p, ms)
    BY <1>1, <1>2 DEF Fits
  <1>. QED  BY <1>3 DEF ms

LEMMA FitsWaiting ==
  ASSUME NEW p, Keeps(p), Excused(p)'
  PROVE  Fits(p, <<PairResult("waiting")>>)
  <1> DEFINE ms == <<PairResult("waiting")>>
  <1>1. /\ DOMAIN ms = {1} /\ ms[1] = PairResult("waiting")
        /\ Of(ms, "result") = {} /\ Of(ms, "agent_status") = {}
    BY One, Words
  <1> HIDE DEF ms
  <1>2. \A i \in DOMAIN ms : ms[i] # PairResult("connected")
    BY <1>1, Words
  <1>3. Fits(p, ms)
    BY <1>1, <1>2 DEF Fits
  <1>. QED  BY <1>3 DEF ms

LEMMA FitsResult ==
  ASSUME NEW p, Keeps(p), Excused(p) => Excused(p)', NEW m \in Message,
         m.type = "result", Owned(p, m)
  PROVE  Fits(p, <<m>>)
  <1> DEFINE ms == <<m>>
  <1>1. /\ DOMAIN ms = {1} /\ ms[1] = m
        /\ Of(ms, "result") = {m} /\ Of(ms, "agent_status") = {}
    BY One
  <1> HIDE DEF ms
  <1>2. \A i \in DOMAIN ms : ms[i] # PairResult("waiting") /\ ms[i] # PairResult("connected")
    BY <1>1, Words
  <1>3. Fits(p, ms)
    BY <1>1, <1>2 DEF Fits
  <1>. QED  BY <1>3 DEF ms

LEMMA FitsStatus ==
  ASSUME NEW p, NEW w \in {Connected, Gone}, Due(p)' => Paired(p)' = w,
         Excused(p) => Excused(p)'
  PROVE  Fits(p, <<w>>)
  <1> DEFINE ms == <<w>>
  <1>1. DOMAIN ms = {1} /\ ms[1] = w /\ Of(ms, "result") = {} /\ w.type = "agent_status"
    BY One, Words
  <1> HIDE DEF ms
  <1>2. \A i \in DOMAIN ms : ms[i] # PairResult("waiting") /\ ms[i] # PairResult("connected")
    BY <1>1, Words
  <1>3. Says(ms, w)
    BY <1>1 DEF Says, LastStatus
  <1>4. Fits(p, ms)
    BY <1>1, <1>2, <1>3 DEF Fits
  <1>. QED  BY <1>4 DEF ms

\* "connected" and word of the agent, in either order.
LEMMA FitsPaired ==
  ASSUME NEW p, Due(p)' => Paired(p)' = Connected, NEW ms,
         \/ ms = <<Connected, PairResult("connected")>>
         \/ ms = <<PairResult("connected"), Connected>>
  PROVE  Fits(p, ms)
  <1>1. /\ DOMAIN ms = {1, 2} /\ Of(ms, "result") = {}
        /\ \/ ms[1] = Connected /\ ms[2] = PairResult("connected")
           \/ ms[1] = PairResult("connected") /\ ms[2] = Connected
    BY Two, Words
  <1>2. PairResult("connected") # PairResult("waiting") /\ PairResult("waiting") # Connected
    BY Words
  <1>3. \A i \in DOMAIN ms : ms[i] # PairResult("waiting")
    BY <1>1, <1>2
  <1>4. Says(ms, Connected)
    BY <1>1, Words DEF Says, LastStatus
  <1>5. \A i \in DOMAIN ms : ms[i] = PairResult("connected") =>
          Greets(ms, i) \/ (i > 1 /\ ms[i - 1] = Connected)
    BY <1>1, Words DEF Greets
  <1>6. \E j \in DOMAIN ms : ms[j] = Connected
    BY <1>1
  <1>. QED  BY <1>1, <1>3, <1>4, <1>5, <1>6 DEF Fits

\* The invariant holds after a step that only sends to pages, and takes from
\* what they have sent, if what it sends is right.
LEMMA Sent ==
  ASSUME IInv, UNCHANGED <<sid, shows, asks>>, NEW X, Sends(X),
         agent' \in {"off", "on", "kicked"}, allow_multi' \in BOOLEAN,
         browser_agent' \subseteq Sid, pending_browser' \subseteq Sid,
         browser_auth' \subseteq Sid, browser_auth \subseteq browser_auth',
         work' \subseteq Work, lost' \subseteq Page,
         outbox' \in [Page -> Seq(Request)],
         agent' = "off" => browser_agent' = {},
         \A p \in Page : Of(outbox'[p], "command") \subseteq Of(outbox[p], "command"),
         \A p \in Page : \/ Of(outbox'[p], "hello") = Of(outbox[p], "hello")
                         \/ sid[p] \in browser_auth',
         \A p \in Page : \A c \in work' \ work : c.sid = sid[p] => Owned(p, c),
         \A p \in Page : Fits(p, X[p])
  PROVE  IInv'
  <1>1. \A p \in Page : /\ inbox[p] \in Seq(Message) /\ X[p] \in Seq(Message)
                        /\ inbox'[p] = inbox[p] \o X[p]
    BY DEF IInv, TypeOK, Sends
  <1>2. TypeOK'
    <2>1. inbox' \in [Page -> Seq(Message)]
      BY <1>1, Concat DEF Sends
    <2>. QED  BY <2>1 DEF IInv, TypeOK, shows, asks
  <1>3. Unique'
    BY DEF IInv, Unique
  <1>4. ASSUME NEW p \in Page  PROVE CommandsOf(p)'
    <2>1. CommandsOf(p)
      BY DEF IInv, CommandsInv
    <2>2. Of(inbox'[p], "result") = Of(inbox[p], "result") \cup Of(X[p], "result")
      <3>1. inbox[p] \in Seq(Message) /\ X[p] \in Seq(Message)
        BY <1>1
      <3>2. Of(inbox[p] \o X[p], "result") = Of(inbox[p], "result") \cup Of(X[p], "result")
        BY <3>1, OfConcat
      <3>. QED  BY <1>1, <3>2
    <2>3. \A c : Owned(p, c) => Owned(p, c)'
      BY DEF Owned, asks
    <2>4. \A c \in Of(X[p], "result") : Owned(p, c)
      BY DEF Fits
    <2>. QED  BY <2>1, <2>2, <2>3, <2>4 DEF CommandsOf
  <1>5. ASSUME NEW p \in Page, Due(p)'
        PROVE  EndsAs(inbox'[p], Shown(p)', Paired(p)')
    <2>0. inbox[p] \in Seq(Message) /\ X[p] \in Seq(Message) /\ inbox'[p] = inbox[p] \o X[p]
      BY <1>1
    <2>1. CASE Says(X[p], Paired(p)')
      <3>1. EndsAs(inbox[p] \o X[p], Shown(p)', Paired(p)')
        BY <2>0, <2>1, EndsAsSaid
      <3>. QED  BY <2>0, <3>1
    <2>2. CASE Of(X[p], "agent_status") = {} /\ Due(p) /\ Paired(p)' = Paired(p)
      <3>1. EndsAs(inbox[p], Shown(p), Paired(p))
        BY <2>2 DEF IInv, StatusInv
      <3>2. EndsAs(inbox[p] \o X[p], Shown(p), Paired(p))
        BY <2>0, <2>2, <3>1, EndsAsBefore
      <3>3. Shown(p)' = Shown(p)
        BY DEF Shown, shows
      <3>. QED  BY <2>0, <2>2, <3>2, <3>3
    <2>. QED  BY <1>5, <2>1, <2>2 DEF Fits, Keeps
  <1>6. ASSUME NEW p \in Page  PROVE WaitsWell(inbox'[p], Waiting(p)', Shown(p)', Excused(p)')
    <2>1. WaitsWell(inbox[p], Waiting(p), Shown(p), Excused(p))
      BY DEF IInv, WaitInv
    <2>2. Waiting(p)' = Waiting(p) /\ Shown(p)' = Shown(p)
      BY DEF Waiting, Shown, shows
    <2>3. WaitsWell(inbox[p] \o X[p], Waiting(p), Shown(p), Excused(p)')
      BY <1>1, <2>1, WaitsWellAfter DEF Fits
    <2>. QED  BY <1>1, <2>2, <2>3
  <1>7. ASSUME NEW p \in Page  PROVE AuthOf(p)'
    BY DEF IInv, AuthInv, AuthOf
  <1>. QED  BY <1>2, <1>3, <1>4, <1>5, <1>6, <1>7 DEF IInv, CommandsInv, AuthInv, StatusInv, WaitInv

-----------------------------------------------------------------------------
\* Agents.

LEMMA Answers ==
  /\ <<Gone>> \in Seq(Message) /\ <<Connected>> \in Seq(Message)
  /\ <<PairResult("refused")>> \in Seq(Message) /\ <<PairResult("waiting")>> \in Seq(Message)
  /\ <<Connected, PairResult("connected")>> \in Seq(Message)
  /\ <<PairResult("connected"), Connected>> \in Seq(Message)
  BY One, Two, Words

LEMMA AgentHelloStep ==
  ASSUME IInv, AgentHello
  PROVE  IInv'
  <1>1. PICK admitted \in Admissible(allow_multi') :
          LET turned_away == pending_browser \ admitted IN
          /\ browser_agent' = admitted
          /\ lost' = lost \cup {p \in Page : sid[p] \in turned_away}
          /\ Emit([s \in Sid |->
               To(admitted, <<Status(TRUE), PairResult("connected")>>)[s]
                 \o To(turned_away, <<PairResult("refused")>>)[s]])
    BY DEF AgentHello
  <1> DEFINE turned_away == pending_browser \ admitted
             yes == <<Connected, PairResult("connected")>>
             no  == <<PairResult("refused")>>
             X   == [p \in Page |-> IF sid[p] \in admitted THEN yes
                                     ELSE IF sid[p] \in turned_away THEN no ELSE <<>>]
  <1>2. /\ agent = "off" /\ browser_agent = {} /\ agent' = "on" /\ pending_browser' = {}
        /\ allow_multi' \in BOOLEAN
        /\ UNCHANGED <<browser_auth, work, sid, outbox, shows, asks>>
    BY DEF AgentHello, IInv, StatusInv
  <1>3. admitted \subseteq pending_browser /\ admitted \subseteq Sid /\ turned_away \subseteq Sid
    BY DEF Admissible, IInv, TypeOK
  <1>4. yes \in Seq(Message) /\ no \in Seq(Message)
    BY Answers
  <1>5. Sends(X)
    <2>1. X \in [Page -> Seq(Message)]
      BY <1>4
    <2>2. ASSUME NEW p \in Page
          PROVE  (IF sid[p] = NoSid THEN inbox[p]
                  ELSE inbox[p] \o (To(admitted, yes)[sid[p]] \o To(turned_away, no)[sid[p]]))
                   = inbox[p] \o X[p]
      <3>1. inbox[p] \in Seq(Message) /\ sid[p] \in Sid \cup {NoSid}
        BY DEF IInv, TypeOK
      <3>2. inbox[p] \o <<>> = inbox[p]
        BY <3>1
      <3>3. yes \o <<>> = yes /\ <<>> \o no = no /\ <<>> \o <<>> = <<>>
        BY <1>4
      <3> HIDE DEF yes, no
      <3>4. CASE sid[p] = NoSid
        <4>1. X[p] = <<>>
          BY <1>3, <3>4, RelayAssumption
        <4>. QED  BY <3>2, <3>4, <4>1
      <3>5. CASE sid[p] \in Sid /\ sid[p] # NoSid
        <4>1. To(admitted, yes)[sid[p]] \o To(turned_away, no)[sid[p]] = X[p]
          BY <3>3, <3>5 DEF To
        <4>. QED  BY <3>5, <4>1
      <3>. QED  BY <3>1, <3>4, <3>5
    <2>3. Emit([s \in Sid |-> To(admitted, yes)[s] \o To(turned_away, no)[s]])
      BY <1>1 DEF Connected
    <2>4. inbox' = [p \in Page |->
                     IF sid[p] = NoSid THEN inbox[p]
                     ELSE inbox[p] \o [s \in Sid |-> To(admitted, yes)[s] \o To(turned_away, no)[s]][sid[p]]]
      BY <2>3 DEF Emit
    <2> HIDE DEF X, yes, no
    <2>5. \A p \in Page : sid[p] # NoSid => sid[p] \in Sid
      BY DEF IInv, TypeOK
    <2>6. inbox' = [p \in Page |-> inbox[p] \o X[p]]
      BY <2>2, <2>4, <2>5
    <2>. QED  BY <2>1, <2>6 DEF Sends
  <1>6. ASSUME NEW p \in Page  PROVE Fits(p, X[p])
    <2>1. CASE sid[p] \in admitted
      <3>1. Paired(p)' = Connected
        BY <1>1, <1>2, <2>1 DEF Paired
      <3>2. Fits(p, yes)
        BY <3>1, FitsPaired
      <3>. QED  BY <2>1, <3>2
    <2>2. CASE sid[p] \notin admitted
      <3>1. Keeps(p)
        BY <1>1, <1>2, <2>2 DEF Keeps, Due, Paired
      <3>2. Excused(p) => Excused(p)'
        BY <1>1, <1>2, <2>2 DEF Excused
      <3>3. Fits(p, <<>>) /\ Fits(p, no)
        BY <3>1, <3>2, FitsNothing, FitsRefused
      <3>. QED  BY <2>2, <3>3
    <2>. QED  BY <2>1, <2>2
  <1> HIDE DEF X
  <1>. QED  BY <1>1, <1>2, <1>3, <1>5, <1>6, Sent DEF IInv, TypeOK

\* What AgentIsKicked and AgentDisconnect have in common.
LEMMA GoneStep ==
  ASSUME IInv, agent' \in {"off", "kicked"}, allow_multi' \in BOOLEAN,
         browser_agent' \subseteq browser_agent, agent' = "off" => browser_agent' = {},
         Emit(To(browser_agent, <<Status(FALSE)>>)),
         agent # "off",
         UNCHANGED <<pending_browser, browser_auth, work, sid, outbox, shows, asks, lost>>
  PROVE  IInv'
  <1> DEFINE X == [p \in Page |-> IF sid[p] \in browser_agent THEN <<Gone>> ELSE <<>>]
  <1>1. Sends(X)
    BY Answers, EmitSends DEF Gone, IInv, TypeOK
  <1>2. ASSUME NEW p \in Page  PROVE Fits(p, X[p])
    <2>1. Excused(p) => Excused(p)'
      BY DEF Excused
    <2>2. CASE sid[p] \in browser_agent
      <3>1. Due(p)' => Paired(p)' = Gone
        BY <2>2 DEF Due, Paired
      <3>. QED  BY <2>1, <2>2, <3>1, FitsStatus
    <2>3. CASE sid[p] \notin browser_agent
      <3>1. Keeps(p)
        BY <2>3 DEF Keeps, Due, Paired
      <3>. QED  BY <2>1, <2>3, <3>1, FitsNothing
    <2>. QED  BY <2>2, <2>3
  <1> HIDE DEF X
  <1>. QED  BY <1>1, <1>2, Sent DEF IInv, TypeOK

LEMMA AgentIsKickedStep ==
  ASSUME IInv, AgentIsKicked
  PROVE  IInv'
  BY GoneStep DEF AgentIsKicked, IInv, TypeOK

LEMMA AgentDisconnectStep ==
  ASSUME IInv, AgentDisconnect
  PROVE  IInv'
  BY GoneStep DEF AgentDisconnect, IInv, TypeOK

LEMMA AgentResultStep ==
  ASSUME IInv, NEW c \in work, AgentResult(c)
  PROVE  IInv'
  <1>1. /\ work' = work \ {c} /\ UNCHANGED <<server, sid, outbox, shows, asks, lost>>
        /\ c \in Work /\ c.sid \in Sid
    BY DEF AgentResult, IInv, TypeOK, Work
  <1>2. Result(c) \in Message /\ Result(c).type = "result"
    BY <1>1, MessageTypes DEF Result
  <1>3. ASSUME NEW p \in Page  PROVE Keeps(p) /\ (Excused(p) => Excused(p)')
    BY <1>1 DEF Keeps, Due, Paired, Excused, server
  <1>4. ASSUME NEW p \in Page, sid[p] = c.sid  PROVE Owned(p, Result(c))
    BY <1>4 DEF Owned, Result, IInv, CommandsInv, CommandsOf
  <1>5. ASSUME NEW X, Sends(X), \A p \in Page : Fits(p, X[p])  PROVE IInv'
    <2>1. agent' = "off" => browser_agent' = {}
      BY <1>1 DEF IInv, StatusInv, server
    <2>. QED  BY <1>1, <1>5, <2>1, Sent DEF IInv, TypeOK, server
  <1>6. CASE Emit(To({c.sid}, <<Result(c)>>))
    <2> DEFINE X == [p \in Page |-> IF sid[p] \in {c.sid} THEN <<Result(c)>> ELSE <<>>]
    <2>1. Sends(X)
      <3>1. {c.sid} \in SUBSET Sid /\ <<Result(c)>> \in Seq(Message)
        BY <1>1, <1>2
      <3>. QED  BY <1>6, <3>1, EmitSends DEF IInv
    <2>2. \A p \in Page : Fits(p, X[p])
      BY <1>2, <1>3, <1>4, FitsResult, FitsNothing
    <2> HIDE DEF X
    <2>. QED  BY <1>5, <2>1, <2>2
  <1>7. CASE UNCHANGED inbox
    <2> DEFINE X == [p \in Page |-> <<>>]
    <2>1. Sends(X)
      BY <1>7, NothingSent DEF IInv
    <2>2. \A p \in Page : Fits(p, X[p])
      BY <1>3, FitsNothing
    <2> HIDE DEF X
    <2>. QED  BY <1>5, <2>1, <2>2
  <1>. QED  BY <1>6, <1>7 DEF AgentResult

-----------------------------------------------------------------------------
\* What the server takes.

LEMMA Took ==
  ASSUME IInv, NEW p \in Page, NEW type, Takes(p, type)
  PROVE  /\ sid[p] \in Sid /\ \A q \in Page : sid[q] = sid[p] => q = p
         /\ Head(outbox[p]) \in Request /\ Head(outbox[p]) \in Of(outbox[p], type)
         /\ outbox' \in [Page -> Seq(Request)]
         /\ \A q \in Page : Of(outbox'[q], "command") \subseteq Of(outbox[q], "command")
         /\ \A q \in Page : q # p \/ type # "hello" =>
              Of(outbox'[q], "hello") = Of(outbox[q], "hello")
  <1>1. /\ outbox[p] \in Seq(Request) /\ outbox[p] # <<>> /\ Head(outbox[p]).type = type
        /\ outbox \in [Page -> Seq(Request)] /\ sid[p] \in Sid
        /\ outbox' = [outbox EXCEPT ![p] = Tail(outbox[p])]
    BY DEF IInv, TypeOK, Takes
  <1>2. \A q \in Page : sid[q] = sid[p] => q = p
    BY <1>1, RelayAssumption DEF IInv, Unique
  <1>3. Head(outbox[p]) \in Request /\ Head(outbox[p]) \in Of(outbox[p], type)
    <2>1. 1 \in DOMAIN outbox[p] /\ Head(outbox[p]) = outbox[p][1]
      BY <1>1, Taken
    <2>. QED  BY <1>1, <2>1, OfMember
  <1>4. Tail(outbox[p]) \in Seq(Request)
    BY <1>1, Taken
  <1>5. /\ Of(Tail(outbox[p]), "command") \subseteq Of(outbox[p], "command")
        /\ type # "hello" => Of(Tail(outbox[p]), "hello") = Of(outbox[p], "hello")
    BY <1>1, OfTaken
  <1>. QED  BY <1>1, <1>2, <1>3, <1>4, <1>5

\* A page that says hello, asks to be paired or sends a command is answered with
\* ms, which nobody else gets.
LEMMA Answered ==
  ASSUME IInv, NEW p \in Page, NEW type, Takes(p, type),
         NEW ms \in Seq(Message), Emit(To({sid[p]}, ms)) \/ (ms = <<>> /\ UNCHANGED inbox),
         UNCHANGED <<agent, allow_multi, sid, shows, asks, lost>>,
         browser_agent' \in {browser_agent, browser_agent \cup {sid[p]}},
         pending_browser' \in {pending_browser, pending_browser \cup {sid[p]}},
         agent = "off" => browser_agent' = browser_agent,
         browser_auth' \in {browser_auth, browser_auth \cup {sid[p]}},
         type = "hello" => sid[p] \in browser_auth',
         work' \subseteq Work,
         \A c \in work' \ work : c.sid = sid[p] /\ Owned(p, c),
         Fits(p, ms)
  PROVE  IInv'
  <1>1. sid[p] \in Sid /\ (\A q \in Page : sid[q] = sid[p] => q = p)
    BY Took
  <1>2. /\ outbox' \in [Page -> Seq(Request)]
        /\ \A q \in Page : Of(outbox'[q], "command") \subseteq Of(outbox[q], "command")
        /\ \A q \in Page : q # p => Of(outbox'[q], "hello") = Of(outbox[q], "hello")
        /\ Of(outbox'[p], "hello") = Of(outbox[p], "hello") \/ sid[p] \in browser_auth'
    <2>1. /\ outbox' \in [Page -> Seq(Request)]
          /\ \A q \in Page : Of(outbox'[q], "command") \subseteq Of(outbox[q], "command")
      BY Took
    <2>2. ASSUME NEW q \in Page, q # p  PROVE Of(outbox'[q], "hello") = Of(outbox[q], "hello")
      BY <2>2, Took
    <2>3. type # "hello" => Of(outbox'[p], "hello") = Of(outbox[p], "hello")
      BY Took
    <2>. QED  BY <2>1, <2>2, <2>3
  <1>3. \A q \in Page : \A c \in work' \ work : c.sid = sid[q] => Owned(q, c)
    BY <1>1
  <1>4. ASSUME NEW q \in Page, q # p  PROVE Fits(q, <<>>)
    <2>1. Keeps(q)
      <3>1. sid[q] # sid[p] /\ Of(outbox'[q], "hello") = Of(outbox[q], "hello")
        BY <1>1, <1>2, <1>4
      <3>2. sid[q] \in browser_agent' <=> sid[q] \in browser_agent
        BY <3>1
      <3>3. sid' = sid /\ agent' = agent
        OBVIOUS
      <3>. QED  BY <3>1, <3>2, <3>3 DEF Keeps, Due, Paired
    <2>2. Excused(q) => Excused(q)'
      <3>1. pending_browser \subseteq pending_browser' /\ sid' = sid /\ lost' = lost
        OBVIOUS
      <3>. QED  BY <3>1 DEF Excused
    <2>. QED  BY <2>1, <2>2, FitsNothing
  <1>5. agent' = "off" => browser_agent' = {}
    BY DEF IInv, StatusInv
  <1>6. /\ browser_agent' \subseteq Sid /\ pending_browser' \subseteq Sid
        /\ browser_auth' \subseteq Sid /\ browser_auth \subseteq browser_auth'
        /\ agent' \in {"off", "on", "kicked"} /\ allow_multi' \in BOOLEAN /\ lost' \subseteq Page
    BY <1>1 DEF IInv, TypeOK
  <1>7. ASSUME NEW X, Sends(X), \A q \in Page : Fits(q, X[q])  PROVE IInv'
    <2>1. UNCHANGED <<sid, shows, asks>>
      OBVIOUS
    <2>2. \A q \in Page : \/ Of(outbox'[q], "hello") = Of(outbox[q], "hello")
                          \/ sid[q] \in browser_auth'
      BY <1>2
    <2>. QED  BY <1>2, <1>3, <1>5, <1>6, <1>7, <2>1, <2>2, Sent
  <1>8. CASE Emit(To({sid[p]}, ms))
    <2> DEFINE X == [q \in Page |-> IF sid[q] \in {sid[p]} THEN ms ELSE <<>>]
    <2>1. {sid[p]} \in SUBSET Sid
      BY <1>1
    <2>2. Sends(X)
      BY <1>8, <2>1, EmitSends DEF IInv
    <2>3. \A q \in Page : X[q] = IF q = p THEN ms ELSE <<>>
      BY <1>1
    <2> HIDE DEF X
    <2>4. \A q \in Page : Fits(q, X[q])
      BY <1>4, <2>3
    <2>. QED  BY <1>7, <2>2, <2>4
  <1>9. CASE ms = <<>> /\ UNCHANGED inbox
    <2> DEFINE X == [q \in Page |-> <<>>]
    <2>1. Sends(X)
      BY <1>9, NothingSent DEF IInv
    <2>2. \A q \in Page : Fits(q, X[q])
      BY <1>4, <1>9
    <2> HIDE DEF X
    <2>. QED  BY <1>7, <2>1, <2>2
  <1>. QED  BY <1>8, <1>9

LEMMA BrowserHelloStep ==
  ASSUME IInv, NEW p \in Page, BrowserHello(p)
  PROVE  IInv'
  <1> DEFINE ms == <<Paired(p)>>
  <1>1. /\ Takes(p, "hello") /\ browser_auth' = browser_auth \cup {sid[p]}
        /\ UNCHANGED <<agent, allow_multi, browser_agent, pending_browser, work, sid, shows,
                       asks, lost>>
        /\ Emit(To({sid[p]}, <<Status(sid[p] \in browser_agent)>>))
    BY DEF BrowserHello
  <1>2. Status(sid[p] \in browser_agent) = Paired(p)
    <2>1. CASE sid[p] \in browser_agent
      <3>1. (sid[p] \in browser_agent) = TRUE
        BY <2>1
      <3>. QED  BY <2>1, <3>1, Zenon DEF Paired, Connected
    <2>2. CASE sid[p] \notin browser_agent
      <3>1. (sid[p] \in browser_agent) = FALSE
        BY <2>2
      <3>. QED  BY <2>2, <3>1, Zenon DEF Paired, Gone
    <2>. QED  BY <2>1, <2>2
  <1>3. Paired(p) \in {Connected, Gone} /\ Paired(p)' = Paired(p)
    BY <1>1 DEF Paired
  <1>4. Excused(p) => Excused(p)'
    BY <1>1 DEF Excused
  <1>5. ms \in Seq(Message) /\ Fits(p, ms)
    BY <1>3, <1>4, Words, FitsStatus
  <1>6. Emit(To({sid[p]}, ms))
    BY <1>1, <1>2
  <1> HIDE DEF ms
  <1>. QED  BY <1>1, <1>5, <1>6, Answered DEF IInv, TypeOK

LEMMA PairRefusedStep ==
  ASSUME IInv, NEW p \in Page, PairRefused(p)
  PROVE  IInv'
  <1> DEFINE ms == <<PairResult("refused")>>
  <1>1. /\ Takes(p, "pair") /\ UNCHANGED <<server, work, sid, shows, asks, lost>>
        /\ Emit(To({sid[p]}, ms))
    BY DEF PairRefused
  <1>2. Keeps(p)
    BY <1>1, Took DEF Keeps, Due, Paired, server
  <1>3. Excused(p) => Excused(p)'
    BY <1>1 DEF Excused, server
  <1>4. ms \in Seq(Message) /\ Fits(p, ms)
    BY <1>2, <1>3, Answers, FitsRefused
  <1> HIDE DEF ms
  <1>5. /\ UNCHANGED <<agent, allow_multi, browser_agent, pending_browser, browser_auth>>
        /\ work' \subseteq Work
    BY <1>1 DEF server, IInv, TypeOK
  <1>. QED  BY <1>1, <1>4, <1>5, Answered

LEMMA BrowserPairStep ==
  ASSUME IInv, NEW p \in Page, BrowserPair(p)
  PROVE  IInv'
  <1>1. /\ Takes(p, "pair")
        /\ UNCHANGED <<agent, allow_multi, browser_auth, work, sid, shows, asks, lost>>
    BY DEF BrowserPair
  <1>2. /\ \A q \in Page : Of(outbox'[q], "hello") = Of(outbox[q], "hello")
        /\ work' \subseteq Work
    BY <1>1, Took DEF IInv, TypeOK
  <1>3. CASE Emit(To({sid[p]}, <<PairResult("refused")>>)) /\ UNCHANGED <<browser_agent, pending_browser>>
    <2> DEFINE ms == <<PairResult("refused")>>
    <2>1. Keeps(p)
      BY <1>1, <1>2, <1>3 DEF Keeps, Due, Paired
    <2>2. Excused(p) => Excused(p)'
      BY <1>1, <1>3 DEF Excused
    <2>3. ms \in Seq(Message) /\ Fits(p, ms) /\ Emit(To({sid[p]}, ms))
      BY <1>3, <2>1, <2>2, Answers, FitsRefused
    <2> HIDE DEF ms
    <2>. QED  BY <1>1, <1>2, <1>3, <2>3, Answered
  <1>4. CASE /\ pending_browser' = pending_browser \cup {sid[p]} /\ UNCHANGED browser_agent
             /\ Emit(To({sid[p]}, <<PairResult("waiting")>>))
    <2> DEFINE ms == <<PairResult("waiting")>>
    <2>1. Keeps(p)
      BY <1>1, <1>2, <1>4 DEF Keeps, Due, Paired
    <2>2. Excused(p)'
      BY <1>1, <1>4 DEF Excused
    <2>3. ms \in Seq(Message) /\ Fits(p, ms) /\ Emit(To({sid[p]}, ms))
      BY <1>4, <2>1, <2>2, Answers, FitsWaiting
    <2> HIDE DEF ms
    <2>. QED  BY <1>1, <1>2, <1>4, <2>3, Answered
  <1>5. CASE /\ browser_agent' = browser_agent \cup {sid[p]} /\ UNCHANGED pending_browser
             /\ agent # "off" /\ Emit(To({sid[p]}, <<PairResult("connected"), Status(TRUE)>>))
             /\ sid[p] \in browser_auth
    <2> DEFINE ms == <<PairResult("connected"), Connected>>
    <2>1. Paired(p)' = Connected
      BY <1>1, <1>5 DEF Paired
    <2>2. ms \in Seq(Message) /\ Fits(p, ms)
      BY <2>1, Answers, FitsPaired
    <2>3. Emit(To({sid[p]}, ms))
      BY <1>5 DEF Connected
    <2> HIDE DEF ms
    <2>. QED  BY <1>1, <1>2, <1>5, <2>2, <2>3, Answered
  <1>6. CASE /\ browser_agent' = browser_agent \cup {sid[p]} /\ UNCHANGED pending_browser
             /\ agent # "off" /\ Emit(To({sid[p]}, <<>>)) /\ sid[p] \notin browser_auth
    <2> DEFINE none == <<>>
    <2>1. sid[p] # NoSid
      BY <1>1 DEF Takes
    <2>2. Of(outbox[p], "hello") # {}
      BY <1>6, <2>1 DEF IInv, AuthInv, AuthOf
    <2>3. ~Due(p)'
      BY <1>2, <2>2 DEF Due
    <2>4. Excused(p) => Excused(p)'
      BY <1>1, <1>6 DEF Excused
    <2>5. none \in Seq(Message) /\ Fits(p, none) /\ Emit(To({sid[p]}, none))
      BY <1>6, <2>3, <2>4, FitsNothing DEF Keeps
    <2> HIDE DEF none
    <2>. QED  BY <1>1, <1>2, <1>6, <2>5, Answered
  <1>. QED  BY <1>3, <1>4, <1>5, <1>6 DEF BrowserPair

LEMMA OnCommandStep ==
  ASSUME IInv, NEW p \in Page, OnCommand(p)
  PROVE  IInv'
  <1> DEFINE c == Head(outbox[p])
             d == [sid |-> sid[p], id |-> c.id, asker |-> c.asker]
             ms == <<Result(c)>>
  <1>1. /\ Takes(p, "command") /\ UNCHANGED <<server, sid, shows, asks, lost>>
        /\ \/ work' = work \cup {d} /\ UNCHANGED inbox
           \/ Emit(To({sid[p]}, ms)) /\ UNCHANGED work
    BY DEF OnCommand
  <1>2. /\ sid[p] \in Sid /\ c \in Request /\ c \in Of(outbox[p], "command")
        /\ \A q \in Page : Of(outbox'[q], "hello") = Of(outbox[q], "hello")
    BY <1>1, Took
  <1>3. c.type = "command" /\ Owned(p, c)
    BY <1>2 DEF Of, IInv, CommandsInv, CommandsOf
  <1>4. c.id \in Id /\ c.asker \in Page \cup {Nobody}
    BY <1>2, <1>3, CommandParts
  <1>5. Keeps(p) /\ (Excused(p) => Excused(p)')
    BY <1>1, <1>2 DEF Keeps, Due, Paired, Excused, server
  <1> HIDE DEF c
  <1>6. d \in Work /\ Owned(p, d) /\ d.sid = sid[p]
    BY <1>2, <1>3, <1>4 DEF Work, Owned
  <1>7. Result(c) \in Message /\ Result(c).type = "result" /\ Owned(p, Result(c))
    BY <1>3, <1>4 DEF Result, Message, Owned
  <1>8. Fits(p, <<>>) /\ Fits(p, ms) /\ ms \in Seq(Message)
    BY <1>5, <1>7, FitsNothing, FitsResult
  <1> HIDE DEF d, ms
  <1>9. CASE work' = work \cup {d} /\ UNCHANGED inbox
    <2> DEFINE none == <<>>
    <2>1. none \in Seq(Message) /\ Fits(p, none)
      BY <1>8
    <2>2. work' \subseteq Work /\ \A e \in work' \ work : e.sid = sid[p] /\ Owned(p, e)
      BY <1>6, <1>9 DEF IInv, TypeOK
    <2> HIDE DEF none
    <2>3. UNCHANGED <<agent, allow_multi, browser_agent, pending_browser, browser_auth>>
      BY <1>1 DEF server
    <2>4. Emit(To({sid[p]}, none)) \/ (none = <<>> /\ UNCHANGED inbox)
      BY <1>9 DEF none
    <2>5. /\ Takes(p, "command") /\ UNCHANGED <<sid, shows, asks, lost>>
          /\ "command" # "hello"
      BY <1>1
    <2>. QED  BY <2>1, <2>2, <2>3, <2>4, <2>5, Answered
  <1>10. CASE Emit(To({sid[p]}, ms)) /\ UNCHANGED work
    <2>1. work' \subseteq Work
      BY <1>10 DEF IInv, TypeOK
    <2>. QED  BY <1>1, <1>8, <1>10, <2>1, Answered DEF server
  <1>. QED  BY <1>1, <1>9, <1>10

LEMMA BrowserDisconnectStep ==
  ASSUME IInv, NEW s \in Sid, BrowserDisconnect(s)
  PROVE  IInv'
  <1> DEFINE X == [p \in Page |-> <<>>]
  <1>1. /\ \A p \in Page : sid[p] # s
        /\ browser_agent' = browser_agent \ {s} /\ pending_browser' = pending_browser \ {s}
        /\ UNCHANGED <<agent, allow_multi, browser_auth, work, sid, outbox, inbox, shows, asks,
                       lost>>
    BY DEF BrowserDisconnect
  <1>2. Sends(X)
    BY <1>1, NothingSent DEF IInv
  <1>3. ASSUME NEW p \in Page  PROVE Fits(p, X[p])
    <2>1. Keeps(p) /\ (Excused(p) => Excused(p)')
      BY <1>1 DEF Keeps, Due, Paired, Excused
    <2>. QED  BY <2>1, FitsNothing
  <1>4. agent' = "off" => browser_agent' = {}
    BY <1>1 DEF IInv, StatusInv
  <1> HIDE DEF X
  <1>. QED  BY <1>1, <1>2, <1>3, <1>4, Sent DEF IInv, TypeOK

-----------------------------------------------------------------------------
\* Pages.

\* The step is one of page p, and of what is in its queues.
OnlyPage(p) ==
  /\ UNCHANGED <<agent, allow_multi, browser_agent, pending_browser>>
  /\ \A q \in Page \ {p} :
       /\ sid'[q] = sid[q] /\ outbox'[q] = outbox[q] /\ inbox'[q] = inbox[q]
       /\ q \in agentConnected' <=> q \in agentConnected
       /\ q \in overlay' <=> q \in overlay
       /\ q \in step2' <=> q \in step2
       /\ popup'[q] = popup[q]
       /\ sid[q] \in browser_auth => sid[q] \in browser_auth'
       /\ q \in lost' <=> q \in lost

LEMMA PageStep ==
  ASSUME IInv, NEW p \in Page, OnlyPage(p), TypeOK', Unique', CommandsInv', AuthOf(p)',
         Due(p)' => EndsAs(inbox'[p], Shown(p)', Paired(p)'),
         WaitsWell(inbox'[p], Waiting(p)', Shown(p)', Excused(p)')
  PROVE  IInv'
  <1>1. ASSUME NEW q \in Page \ {p}
        PROVE  /\ Due(q)' => EndsAs(inbox'[q], Shown(q)', Paired(q)')
               /\ WaitsWell(inbox'[q], Waiting(q)', Shown(q)', Excused(q)')
    <2>1. sid'[q] = sid[q] /\ outbox'[q] = outbox[q] /\ inbox'[q] = inbox[q]
      BY DEF OnlyPage
    <2>2. Shown(q)' = Shown(q) /\ Paired(q)' = Paired(q) /\ (Due(q)' <=> Due(q))
      BY <2>1 DEF OnlyPage, Shown, Paired, Due
    <2>3. Due(q) => EndsAs(inbox[q], Shown(q), Paired(q))
      BY DEF IInv, StatusInv
    <2>4. (Waiting(q)' <=> Waiting(q)) /\ (Excused(q)' <=> Excused(q))
      BY <2>1 DEF OnlyPage, Waiting, Excused
    <2>5. WaitsWell(inbox[q], Waiting(q), Shown(q), Excused(q))
      BY DEF IInv, WaitInv
    <2>6. WaitsWell(inbox[q], Waiting(q)', Shown(q), Excused(q)')
      BY <2>4, <2>5 DEF WaitsWell
    <2>. QED  BY <2>1, <2>2, <2>3, <2>6
  <1>2. agent' = "off" => browser_agent' = {}
    BY DEF OnlyPage, IInv, StatusInv
  <1>3. AuthInv'
    BY DEF OnlyPage, IInv, AuthInv, AuthOf
  <1>. QED  BY <1>1, <1>2, <1>3 DEF IInv, StatusInv, WaitInv

\* A page's commands when it gives up some and what is under way gets less.
LEMMA CommandsKept ==
  ASSUME IInv, NEW q \in Page, UNCHANGED work, sid'[q] \in {sid[q], NoSid},
         Of(outbox'[q], "command") \subseteq Of(outbox[q], "command"),
         Of(inbox'[q], "result") \subseteq Of(inbox[q], "result"),
         cmdSeq'[q] = cmdSeq[q], pending'[q] \subseteq pending[q]
  PROVE  CommandsOf(q)'
  <1>1. CommandsOf(q) /\ work \subseteq Work
    BY DEF IInv, CommandsInv, TypeOK
  <1>2. \A c : Owned(q, c) => Owned(q, c)'
    BY DEF Owned
  <1>3. \A c \in work : c.sid # NoSid
    BY <1>1, RelayAssumption DEF Work
  <1>. QED  BY <1>1, <1>2, <1>3 DEF CommandsOf

\* A page without anything to handle.
LEMMA NothingToHear ==
  /\ Of(<<>>, "result") = {} /\ Of(<<>>, "command") = {} /\ Of(<<>>, "hello") = {}
  /\ Of(<<>>, "agent_status") = {}
  /\ \A waits, shown, excused : WaitsWell(<<>>, waits, shown, excused) <=> (waits => excused)
  <1>1. DOMAIN <<>> = {}
    OBVIOUS
  <1>2. \A t : Of(<<>>, t) = {}
    BY <1>1 DEF Of
  <1>3. ~Greets(<<>>, 0)
    BY <1>1 DEF Greets
  <1>4. ASSUME NEW waits, NEW shown, NEW excused
        PROVE  WaitsWell(<<>>, waits, shown, excused) <=> (waits => excused)
    BY <1>1, <1>3 DEF WaitsWell
  <1>. QED  BY <1>2, <1>4

\* A page asks for m.
LEMMA Asked ==
  ASSUME IInv, NEW p \in Page, NEW m \in Request,
         outbox' = [outbox EXCEPT ![p] = Append(outbox[p], m)]
  PROVE  /\ outbox' \in [Page -> Seq(Request)]
         /\ \A q \in Page \ {p} : outbox'[q] = outbox[q]
         /\ m.type = "command" =>
              Of(outbox'[p], "command") = Of(outbox[p], "command") \cup {m}
         /\ m.type # "command" => Of(outbox'[p], "command") = Of(outbox[p], "command")
         /\ m.type = "hello" => m \in Of(outbox'[p], "hello")
         /\ m.type # "hello" => Of(outbox'[p], "hello") = Of(outbox[p], "hello")
  <1>1. outbox \in [Page -> Seq(Request)] /\ outbox[p] \in Seq(Request)
    BY DEF IInv, TypeOK
  <1>2. outbox'[p] = Append(outbox[p], m)
    BY <1>1
  <1>3. Append(outbox[p], m) \in Seq(Request)
    BY <1>1
  <1>4. /\ m.type = "command" =>
             Of(Append(outbox[p], m), "command") = Of(outbox[p], "command") \cup {m}
        /\ m.type # "command" => Of(Append(outbox[p], m), "command") = Of(outbox[p], "command")
    BY <1>1, OfAppend
  <1>5. /\ m.type = "hello" => Of(Append(outbox[p], m), "hello") = Of(outbox[p], "hello") \cup {m}
        /\ m.type # "hello" => Of(Append(outbox[p], m), "hello") = Of(outbox[p], "hello")
    BY <1>1, OfAppend
  <1>. QED  BY <1>1, <1>2, <1>3, <1>4, <1>5

LEMMA PageConnectsStep ==
  ASSUME IInv, NEW p \in Page, NEW s \in Sid, PageConnects(p, s)
  PROVE  IInv'
  <1> DEFINE hello == [type |-> "hello"]
  <1>1. /\ sid[p] = NoSid /\ s \notin browser_agent \cup pending_browser
        /\ \A q \in Page : sid[q] # s
        /\ \A c \in work : c.sid # s
        /\ sid' = [sid EXCEPT ![p] = s]
        /\ outbox' = [outbox EXCEPT ![p] = Append(outbox[p], hello)]
        /\ UNCHANGED <<server, work, inbox, shows, asks, lost>>
    BY DEF PageConnects
  <1>2. hello \in Request /\ hello.type = "hello" /\ hello.type # "command"
    BY DEF Request
  <1> HIDE DEF hello
  <1>3. /\ sid'[p] = s
        /\ \A q \in Page \ {p} : sid'[q] = sid[q] /\ outbox'[q] = outbox[q]
    BY <1>1 DEF IInv, TypeOK
  <1>4. /\ outbox' \in [Page -> Seq(Request)]
        /\ Of(outbox'[p], "command") = Of(outbox[p], "command")
        /\ hello \in Of(outbox'[p], "hello")
    <2>1. outbox' = [outbox EXCEPT ![p] = Append(outbox[p], hello)]
      BY <1>1
    <2>. QED  BY <1>2, <2>1, Asked
  <1>5. TypeOK'
    <2>1. sid' \in [Page -> Sid \cup {NoSid}]
      BY <1>1 DEF IInv, TypeOK
    <2>. QED  BY <1>1, <1>4, <2>1 DEF IInv, TypeOK, server, shows, asks
  <1>6. Unique'
    BY <1>1, <1>3 DEF IInv, Unique
  <1>7. ASSUME NEW q \in Page  PROVE CommandsOf(q)'
    <2>1. CASE q = p
      <3>1. \A c : Owned(p, c) => Owned(p, c)'
        BY <1>1 DEF Owned, asks
      <3>. QED  BY <1>1, <1>3, <1>4, <2>1, <3>1 DEF IInv, CommandsInv, CommandsOf
    <2>2. CASE q # p
      BY <1>1, <1>3, <2>2, CommandsKept DEF asks
    <2>. QED  BY <2>1, <2>2
  <1>8. OnlyPage(p)
    BY <1>1, <1>3 DEF OnlyPage, shows, server
  <1>9. ~Due(p)' /\ AuthOf(p)'
    BY <1>4 DEF Due, AuthOf
  <1>10. WaitsWell(inbox'[p], Waiting(p)', Shown(p)', Excused(p)')
    <2>1. WaitsWell(inbox[p], Waiting(p), Shown(p), Excused(p))
      BY DEF IInv, WaitInv
    <2>2. (Waiting(p)' <=> Waiting(p)) /\ Shown(p)' = Shown(p)
      BY <1>1 DEF Waiting, Shown, shows
    <2>3. Excused(p) => Excused(p)'
      BY <1>1, RelayAssumption DEF Excused, IInv, TypeOK, server
    <2>4. inbox' = inbox
      BY <1>1
    <2>5. WaitsWell(inbox[p], Waiting(p)', Shown(p), Excused(p)')
      BY <2>1, <2>2, <2>3 DEF WaitsWell
    <2>. QED  BY <2>2, <2>4, <2>5
  <1>. QED  BY <1>5, <1>6, <1>7, <1>8, <1>9, <1>10, PageStep DEF CommandsInv

\* What PageLosesSocket, PageReloads and Logout have in common.
LEMMA SocketLost ==
  ASSUME IInv, NEW p \in Page, OnlyPage(p), TypeOK', CommandsInv', sid'[p] = NoSid,
         inbox'[p] = <<>>, Waiting(p)' => p \in lost'
  PROVE  IInv'
  <1>1. Unique'
    BY DEF IInv, Unique, OnlyPage
  <1>2. ~Due(p)' /\ AuthOf(p)'
    BY DEF Due, AuthOf
  <1>3. Waiting(p)' => Excused(p)'
    BY DEF Excused
  <1>4. WaitsWell(inbox'[p], Waiting(p)', Shown(p)', Excused(p)')
    BY <1>3, NothingToHear
  <1>. QED  BY <1>1, <1>2, <1>4, PageStep

LEMMA PageLosesSocketStep ==
  ASSUME IInv, NEW p \in Page, PageLosesSocket(p)
  PROVE  IInv'
  <1>1. /\ sid' = [sid EXCEPT ![p] = NoSid] /\ outbox' = [outbox EXCEPT ![p] = <<>>]
        /\ inbox' = [inbox EXCEPT ![p] = <<>>] /\ lost' = lost \cup ({p} \cap step2)
        /\ browser_auth' = browser_auth \ {sid[p]}
        /\ UNCHANGED <<agent, allow_multi, browser_agent, pending_browser, work, shows, asks>>
    BY DEF PageLosesSocket
  <1>2. /\ sid'[p] = NoSid /\ outbox'[p] = <<>> /\ inbox'[p] = <<>>
        /\ \A q \in Page \ {p} : sid'[q] = sid[q] /\ outbox'[q] = outbox[q] /\ inbox'[q] = inbox[q]
    BY <1>1 DEF IInv, TypeOK
  <1>3. TypeOK'
    BY <1>1 DEF IInv, TypeOK, shows, asks
  <1>4. ASSUME NEW q \in Page  PROVE CommandsOf(q)'
    <2>1. /\ Of(outbox'[q], "command") \subseteq Of(outbox[q], "command")
          /\ Of(inbox'[q], "result") \subseteq Of(inbox[q], "result")
          /\ sid'[q] \in {sid[q], NoSid}
      BY <1>2, NothingToHear
    <2>. QED  BY <1>1, <2>1, CommandsKept DEF asks
  <1>5. OnlyPage(p)
    <2>1. \A q \in Page \ {p} : sid[q] \in browser_auth => sid[q] # sid[p]
      BY RelayAssumption DEF IInv, TypeOK, Unique
    <2>. QED  BY <1>1, <1>2, <2>1 DEF OnlyPage, shows
  <1>6. Waiting(p)' => p \in lost'
    BY <1>1 DEF Waiting, shows
  <1>. QED  BY <1>2, <1>3, <1>4, <1>5, <1>6, SocketLost DEF CommandsInv

LEMMA LogoutStep ==
  ASSUME IInv, NEW p \in Page, Logout(p)
  PROVE  IInv'
  <1>1. /\ sid' = [sid EXCEPT ![p] = NoSid]
        /\ outbox' = [outbox EXCEPT ![p] = IF sid[p] = NoSid THEN outbox[p] ELSE <<>>]
        /\ inbox' = [inbox EXCEPT ![p] = <<>>]
        /\ agentConnected' = agentConnected \ {p} /\ overlay' = overlay \cup {p}
        /\ step2' = step2 \ {p} /\ lost' = lost \ {p}
        /\ browser_auth' = browser_auth \ {sid[p]}
        /\ UNCHANGED <<agent, allow_multi, browser_agent, pending_browser, work, popup, asks>>
    BY DEF Logout
  <1>2. /\ sid'[p] = NoSid /\ outbox'[p] \in {outbox[p], <<>>} /\ inbox'[p] = <<>>
        /\ \A q \in Page \ {p} : sid'[q] = sid[q] /\ outbox'[q] = outbox[q] /\ inbox'[q] = inbox[q]
    BY <1>1 DEF IInv, TypeOK
  <1>3. TypeOK'
    BY <1>1 DEF IInv, TypeOK, asks
  <1>4. ASSUME NEW q \in Page  PROVE CommandsOf(q)'
    <2>1. /\ Of(outbox'[q], "command") \subseteq Of(outbox[q], "command")
          /\ Of(inbox'[q], "result") \subseteq Of(inbox[q], "result")
          /\ sid'[q] \in {sid[q], NoSid}
      BY <1>2, NothingToHear
    <2>. QED  BY <1>1, <2>1, CommandsKept DEF asks
  <1>5. OnlyPage(p)
    <2>1. \A q \in Page \ {p} : sid[q] \in browser_auth => sid[q] # sid[p]
      BY RelayAssumption DEF IInv, TypeOK, Unique
    <2>. QED  BY <1>1, <1>2, <2>1 DEF OnlyPage
  <1>6. ~Waiting(p)'
    BY <1>1 DEF Waiting
  <1>. QED  BY <1>2, <1>3, <1>4, <1>5, <1>6, SocketLost DEF CommandsInv

LEMMA PageReloadsStep ==
  ASSUME IInv, NEW p \in Page, PageReloads(p)
  PROVE  IInv'
  <1>1. /\ sid' = [sid EXCEPT ![p] = NoSid] /\ outbox' = [outbox EXCEPT ![p] = <<>>]
        /\ inbox' = [inbox EXCEPT ![p] = <<>>]
        /\ agentConnected' = agentConnected \ {p} /\ overlay' = overlay \cup {p}
        /\ step2' = step2 \ {p} /\ popup' = [popup EXCEPT ![p] = 0]
        /\ cmdSeq' = [cmdSeq EXCEPT ![p] = 0] /\ pending' = [pending EXCEPT ![p] = {}]
        /\ work' = {Forgotten(p, Id, c) : c \in work} /\ lost' = lost \ {p}
        /\ browser_auth' = browser_auth \ {sid[p]}
        /\ UNCHANGED <<agent, allow_multi, browser_agent, pending_browser>>
    BY DEF PageReloads
  <1>2. /\ sid'[p] = NoSid /\ outbox'[p] = <<>> /\ inbox'[p] = <<>>
        /\ \A q \in Page \ {p} :
             /\ sid'[q] = sid[q] /\ outbox'[q] = outbox[q] /\ inbox'[q] = inbox[q]
             /\ cmdSeq'[q] = cmdSeq[q] /\ pending'[q] = pending[q] /\ popup'[q] = popup[q]
    BY <1>1 DEF IInv, TypeOK
  <1>3. ASSUME NEW d \in work'
        PROVE  d \in Work /\ \E c \in work : d.sid = c.sid /\ Loses(p, Id, c, d)
    <2>1. PICK c \in work : d = Forgotten(p, Id, c)
      BY <1>1
    <2>. QED  BY <2>1, ForgottenWork DEF IInv, TypeOK
  <1>4. TypeOK'
    <2>1. cmdSeq' \in [Page -> 0..MaxCommands] /\ pending' \in [Page -> SUBSET Id]
      BY <1>1, RelayAssumption DEF IInv, TypeOK
    <2>2. /\ sid' \in [Page -> Sid \cup {NoSid}] /\ outbox' \in [Page -> Seq(Request)]
          /\ inbox' \in [Page -> Seq(Message)]
      BY <1>1 DEF IInv, TypeOK
    <2>3. popup' \in [Page -> 0..MaxPopups]
      BY <1>1, RelayAssumption DEF IInv, TypeOK
    <2>. QED  BY <1>1, <1>3, <2>1, <2>2, <2>3 DEF IInv, TypeOK
  <1>5. ASSUME NEW q \in Page  PROVE CommandsOf(q)'
    <2>1. CASE q = p
      <3>1. \A d \in work' : d.sid # NoSid
        BY <1>3, RelayAssumption DEF Work
      <3>. QED  BY <1>2, <2>1, <3>1, NothingToHear DEF CommandsOf
    <2>2. CASE q # p
      <3>1. CommandsOf(q)
        BY DEF IInv, CommandsInv
      <3>2. \A c : Owned(q, c) => Owned(q, c)'
        BY <1>2, <2>2 DEF Owned
      <3>3. ASSUME NEW d \in work', d.sid = sid[q]  PROVE Owned(q, d)
        <4>1. PICK c \in work : d.sid = c.sid /\ Loses(p, Id, c, d)
          BY <1>3
        <4>. QED  BY <2>2, <3>1, <3>3, <4>1 DEF CommandsOf, Owned, Loses
      <3>. QED  BY <1>2, <2>2, <3>1, <3>2, <3>3 DEF CommandsOf
    <2>. QED  BY <2>1, <2>2
  <1>6. OnlyPage(p)
    <2>1. \A q \in Page \ {p} : sid[q] \in browser_auth => sid[q] # sid[p]
      BY RelayAssumption DEF IInv, TypeOK, Unique
    <2>. QED  BY <1>1, <1>2, <2>1 DEF OnlyPage
  <1>7. ~Waiting(p)'
    BY <1>1 DEF Waiting
  <1>. QED  BY <1>2, <1>4, <1>5, <1>6, <1>7, SocketLost DEF CommandsInv

LEMMA ConnectStep ==
  ASSUME IInv, NEW p \in Page, Connect(p)
  PROVE  IInv'
  <1> DEFINE pair == [type |-> "pair"]
  <1>1. /\ p \notin step2 /\ outbox' = [outbox EXCEPT ![p] = Append(outbox[p], pair)]
        /\ lost' = IF Welcome(inbox[p]) THEN lost ELSE lost \ {p}
        /\ UNCHANGED <<server, work, sid, inbox, shows, asks>>
    BY DEF Connect
  <1>2. pair \in Request /\ pair.type # "command" /\ pair.type # "hello"
    BY DEF Request
  <1> HIDE DEF pair
  <1>3. /\ outbox' \in [Page -> Seq(Request)]
        /\ \A q \in Page \ {p} : outbox'[q] = outbox[q]
        /\ Of(outbox'[p], "command") = Of(outbox[p], "command")
        /\ Of(outbox'[p], "hello") = Of(outbox[p], "hello")
    <2>1. outbox' = [outbox EXCEPT ![p] = Append(outbox[p], pair)]
      BY <1>1
    <2>. QED  BY <1>2, <2>1, Asked
  <1>4. TypeOK' /\ Unique'
    BY <1>1, <1>3 DEF IInv, TypeOK, Unique, server, shows, asks
  <1>5. ASSUME NEW q \in Page  PROVE CommandsOf(q)'
    <2>1. Of(outbox'[q], "command") \subseteq Of(outbox[q], "command")
      BY <1>3
    <2>. QED  BY <1>1, <2>1, CommandsKept DEF asks
  <1>6. OnlyPage(p) /\ AuthOf(p)'
    BY <1>1, <1>3 DEF OnlyPage, shows, server, AuthOf, AuthInv, IInv
  <1>7. Due(p)' => EndsAs(inbox'[p], Shown(p)', Paired(p)')
    <2>1. /\ Due(p)' => Due(p)
          /\ inbox'[p] = inbox[p] /\ Shown(p)' = Shown(p) /\ Paired(p)' = Paired(p)
      BY <1>1, <1>3 DEF Due, Shown, Paired, server, shows
    <2>. QED  BY <2>1 DEF IInv, StatusInv
  <1>8. WaitsWell(inbox'[p], Waiting(p)', Shown(p)', Excused(p)')
    <2>1. inbox'[p] = inbox[p] /\ ~Waiting(p)' /\ Shown(p)' = Shown(p)
      BY <1>1 DEF Waiting, Shown, shows
    <2>2. WaitsWell(inbox[p], Waiting(p), Shown(p), Excused(p))
      BY DEF IInv, WaitInv
    <2>3. CASE Welcome(inbox[p])
      <3>1. Excused(p)' <=> Excused(p)
        BY <1>1, <2>3 DEF Excused, server
      <3>. QED  BY <2>1, <2>2, <3>1 DEF WaitsWell
    <2>4. CASE ~Welcome(inbox[p])
      <3>1. \A i \in DOMAIN inbox[p] : inbox[p][i] # PairResult("waiting")
        BY <2>4 DEF Welcome
      <3>. QED  BY <2>1, <2>2, <3>1 DEF WaitsWell
    <2>. QED  BY <2>3, <2>4
  <1>. QED  BY <1>4, <1>5, <1>6, <1>7, <1>8, PageStep DEF CommandsInv

LEMMA SendCommandStep ==
  ASSUME IInv, NEW p \in Page, SendCommand(p)
  PROVE  IInv'
  <1> DEFINE id == cmdSeq[p] + 1
  <1>1. PICK m : m = [type |-> "command", id |-> id, asker |-> p]
    OBVIOUS
  <1>2. /\ cmdSeq[p] < MaxCommands
        /\ cmdSeq' = [cmdSeq EXCEPT ![p] = id]
        /\ pending' = [pending EXCEPT ![p] = pending[p] \cup {id}]
        /\ outbox' = [outbox EXCEPT ![p] = Append(outbox[p], m)]
        /\ UNCHANGED <<server, work, sid, inbox, shows, lost>>
    BY <1>1 DEF SendCommand
  <1>3. /\ cmdSeq[p] \in 0..MaxCommands /\ id \in Id /\ id \in 0..MaxCommands
        /\ id \in Nat /\ id <= id
    BY <1>2, RelayAssumption DEF IInv, TypeOK, Id
  <1>4. /\ cmdSeq'[p] = id /\ pending'[p] = pending[p] \cup {id}
        /\ \A q \in Page \ {p} : cmdSeq'[q] = cmdSeq[q] /\ pending'[q] = pending[q]
        /\ cmdSeq' \in [Page -> 0..MaxCommands] /\ pending' \in [Page -> SUBSET Id]
    BY <1>2, <1>3 DEF IInv, TypeOK
  <1>5. ASSUME NEW c, c.id \in Nat, Owned(p, c)  PROVE Owned(p, c)'
    BY <1>3, <1>4, <1>5 DEF Owned
  <1>6. m \in Request /\ m.type = "command" /\ m.id = id /\ m.asker = p
    BY <1>1, <1>3 DEF Request
  <1>7. Owned(p, m)'
    BY <1>3, <1>4, <1>6 DEF Owned
  <1> HIDE DEF id
  <1>8. /\ outbox' \in [Page -> Seq(Request)]
        /\ \A q \in Page \ {p} : outbox'[q] = outbox[q]
        /\ Of(outbox'[p], "command") = Of(outbox[p], "command") \cup {m}
        /\ Of(outbox'[p], "hello") = Of(outbox[p], "hello")
    <2>1. outbox' = [outbox EXCEPT ![p] = Append(outbox[p], m)]
      BY <1>2
    <2>2. m \in Request /\ m.type = "command" /\ m.type # "hello"
      BY <1>6
    <2>. QED  BY <2>1, <2>2, Asked
  <1>9. TypeOK' /\ Unique'
    BY <1>2, <1>4, <1>8 DEF IInv, TypeOK, Unique, server, shows
  <1>10. ASSUME NEW q \in Page  PROVE CommandsOf(q)'
    <2>1. CASE q = p
      <3>1. \A c \in Of(outbox[p], "command") : c.id \in Nat
        BY CommandParts DEF IInv, TypeOK, Of, Id
      <3>2. \A c \in Of(inbox[p], "result") : c.id \in Nat
        BY CommandParts DEF IInv, TypeOK, Of, Id
      <3>3. \A c \in work : c.id \in Nat
        BY DEF IInv, TypeOK, Work, Id
      <3>4. CommandsOf(p)
        BY DEF IInv, CommandsInv
      <3>5. \A c \in work : c.sid = sid[p] => Owned(p, c)'
        BY <1>5, <3>3, <3>4 DEF CommandsOf
      <3>6. \A c \in Of(outbox'[p], "command") : Owned(p, c)'
        BY <1>5, <1>7, <1>8, <3>1, <3>4 DEF CommandsOf
      <3>7. \A c \in Of(inbox[p], "result") : Owned(p, c)'
        BY <1>5, <3>2, <3>4 DEF CommandsOf
      <3>. QED  BY <1>2, <2>1, <3>5, <3>6, <3>7 DEF CommandsOf
    <2>2. CASE q # p
      BY <1>2, <1>4, <1>8, <2>2, CommandsKept
    <2>. QED  BY <2>1, <2>2
  <1>11. OnlyPage(p) /\ AuthOf(p)'
    BY <1>2, <1>8 DEF OnlyPage, shows, server, AuthOf, AuthInv, IInv
  <1>12. Due(p)' => EndsAs(inbox'[p], Shown(p)', Paired(p)')
    <2>1. /\ Due(p)' => Due(p)
          /\ inbox'[p] = inbox[p] /\ Shown(p)' = Shown(p) /\ Paired(p)' = Paired(p)
      BY <1>2, <1>8 DEF Due, Shown, Paired, server, shows
    <2>. QED  BY <2>1 DEF IInv, StatusInv
  <1>13. WaitsWell(inbox'[p], Waiting(p)', Shown(p)', Excused(p)')
    <2>1. /\ inbox'[p] = inbox[p] /\ Shown(p)' = Shown(p)
          /\ (Waiting(p)' <=> Waiting(p)) /\ (Excused(p)' <=> Excused(p))
      BY <1>2 DEF Waiting, Shown, Excused, server, shows
    <2>. QED  BY <2>1 DEF WaitsWell, IInv, WaitInv
  <1>. QED  BY <1>9, <1>10, <1>11, <1>12, <1>13, PageStep DEF CommandsInv

LEMMA SixtySecondsStep ==
  ASSUME IInv, NEW p \in Page, NEW id \in Id, SixtySeconds(p, id)
  PROVE  IInv'
  <1> DEFINE ids == {id}
             out == ForgottenIn(p, ids, outbox[p])
             in  == ForgottenIn(p, ids, inbox[p])
  <1>1. /\ pending' = [pending EXCEPT ![p] = pending[p] \ ids]
        /\ work' = {Forgotten(p, ids, c) : c \in work}
        /\ outbox' = [outbox EXCEPT ![p] = out] /\ inbox' = [inbox EXCEPT ![p] = in]
        /\ UNCHANGED <<server, sid, shows, cmdSeq, lost>>
    BY DEF SixtySeconds
  <1> HIDE DEF ids
  <1>2. outbox[p] \in Seq(Request) /\ inbox[p] \in Seq(Message)
    BY DEF IInv, TypeOK
  <1>3. /\ out \in Seq(Request) /\ Of(out, "hello") = Of(outbox[p], "hello")
        /\ \A d \in Of(out, "command") : \E c \in Of(outbox[p], "command") : Loses(p, ids, c, d)
    BY <1>2, ForgottenQueue, OfForgotten
  <1>4. /\ in \in Seq(Message) /\ DOMAIN in = DOMAIN inbox[p]
        /\ Of(in, "agent_status") = Of(inbox[p], "agent_status")
        /\ \A d \in Of(in, "result") : \E c \in Of(inbox[p], "result") : Loses(p, ids, c, d)
        /\ \A i \in DOMAIN in : /\ in[i].type = inbox[p][i].type
                                /\ in[i].type # "result" => in[i] = inbox[p][i]
    <2>1. /\ DOMAIN in = DOMAIN inbox[p]
          /\ \A i \in DOMAIN inbox[p] :
               /\ in[i].type = inbox[p][i].type
               /\ in[i].type \notin {"command", "result"} => in[i] = inbox[p][i]
      BY <1>2, ForgottenQueue
    <2>2. \A i \in DOMAIN inbox[p] : inbox[p][i] \in Message
      BY <1>2
    <2>3. \A i \in DOMAIN inbox[p] : inbox[p][i].type # "command"
      BY <2>2, CommandParts
    <2>4. in \in Seq(Message)
      BY <1>2, ForgottenQueue
    <2>5. /\ Of(in, "agent_status") = Of(inbox[p], "agent_status")
          /\ \A d \in Of(in, "result") : \E c \in Of(inbox[p], "result") : Loses(p, ids, c, d)
      BY <1>2, OfForgotten
    <2>. QED  BY <2>1, <2>3, <2>4, <2>5
  <1> HIDE DEF out, in
  <1>5. /\ outbox'[p] = out /\ inbox'[p] = in /\ pending'[p] = pending[p] \ ids
        /\ \A q \in Page \ {p} :
             outbox'[q] = outbox[q] /\ inbox'[q] = inbox[q] /\ pending'[q] = pending[q]
    BY <1>1 DEF IInv, TypeOK
  <1>6. ASSUME NEW d \in work'
        PROVE  d \in Work /\ \E c \in work : d.sid = c.sid /\ Loses(p, ids, c, d)
    <2>1. PICK c \in work : d = Forgotten(p, ids, c)
      BY <1>1
    <2>. QED  BY <2>1, ForgottenWork DEF IInv, TypeOK
  <1>7. TypeOK' /\ Unique'
    <2>1. pending' \in [Page -> SUBSET Id] /\ work' \subseteq Work
      BY <1>1, <1>6 DEF IInv, TypeOK
    <2>2. outbox' \in [Page -> Seq(Request)] /\ inbox' \in [Page -> Seq(Message)]
      BY <1>1, <1>3, <1>4 DEF IInv, TypeOK
    <2>. QED  BY <1>1, <2>1, <2>2 DEF IInv, TypeOK, Unique, server, shows
  <1>8. ASSUME NEW q \in Page  PROVE CommandsOf(q)'
    <2>1. CommandsOf(q)
      BY DEF IInv, CommandsInv
    <2>2. ASSUME NEW c, NEW d, Loses(p, ids, c, d), Owned(q, c)  PROVE Owned(q, d)'
      BY <1>1, <1>5, <2>2 DEF Owned, Loses, ids
    <2>3. \A d \in work' : d.sid = sid[q] => Owned(q, d)'
      BY <1>6, <2>1, <2>2 DEF CommandsOf
    <2>4. /\ \A d \in Of(outbox'[q], "command") : Owned(q, d)'
          /\ \A d \in Of(inbox'[q], "result") : Owned(q, d)'
      <3>1. CASE q = p
        BY <1>3, <1>4, <1>5, <2>1, <2>2, <3>1 DEF CommandsOf
      <3>2. CASE q # p
        BY <1>1, <1>5, <2>1, <3>2 DEF CommandsOf, Owned
      <3>. QED  BY <3>1, <3>2
    <2>. QED  BY <1>1, <2>3, <2>4 DEF CommandsOf
  <1>9. OnlyPage(p) /\ AuthOf(p)'
    BY <1>1, <1>3, <1>5 DEF OnlyPage, shows, server, AuthOf, AuthInv, IInv
  <1>10. Due(p)' => EndsAs(inbox'[p], Shown(p)', Paired(p)')
    <2>1. /\ Due(p)' => Due(p)
          /\ Shown(p)' = Shown(p) /\ Paired(p)' = Paired(p)
      BY <1>1, <1>3, <1>5 DEF Due, Shown, Paired, server, shows
    <2>2. Due(p) => EndsAs(inbox[p], Shown(p), Paired(p))
      BY DEF IInv, StatusInv
    <2>3. ASSUME EndsAs(inbox[p], Shown(p), Paired(p))  PROVE EndsAs(in, Shown(p), Paired(p))
      <3>1. ASSUME NEW i \in DOMAIN in, LastStatus(in, i)  PROVE in[i] = Paired(p)
        <4>1. LastStatus(inbox[p], i) /\ in[i] = inbox[p][i]
          BY <1>4, <3>1 DEF LastStatus
        <4>. QED  BY <1>4, <2>3, <4>1 DEF EndsAs
      <3>. QED  BY <1>4, <2>3, <3>1 DEF EndsAs
    <2>. QED  BY <1>5, <2>1, <2>2, <2>3
  <1>11. WaitsWell(inbox'[p], Waiting(p)', Shown(p)', Excused(p)')
    <2>1. /\ Shown(p)' = Shown(p)
          /\ (Waiting(p)' <=> Waiting(p)) /\ (Excused(p)' <=> Excused(p))
      BY <1>1 DEF Waiting, Shown, Excused, server, shows
    <2>2. WaitsWell(inbox[p], Waiting(p), Shown(p), Excused(p))
      BY DEF IInv, WaitInv
    <2>3. \A i \in DOMAIN in : \A w \in {Connected, PairResult("waiting"), PairResult("connected")} :
            in[i] = w <=> inbox[p][i] = w
      <3>1. \A w \in {Connected, PairResult("waiting"), PairResult("connected")} : w.type # "result"
        BY Words
      <3>. QED  BY <1>4, <3>1
    <2>4. \A i : Greets(in, i) <=> Greets(inbox[p], i)
      BY <1>4, <2>3 DEF Greets
    <2>5. \A i \in DOMAIN in : i > 1 => i - 1 \in DOMAIN in
      BY <1>4
    <2>6. WaitsWell(in, Waiting(p), Shown(p), Excused(p))
      BY <1>4, <2>2, <2>3, <2>4, <2>5 DEF WaitsWell
    <2>7. WaitsWell(in, Waiting(p)', Shown(p), Excused(p)')
      BY <2>1, <2>6 DEF WaitsWell
    <2>. QED  BY <1>5, <2>1, <2>7
  <1>. QED  BY <1>7, <1>8, <1>9, <1>10, <1>11, PageStep DEF CommandsInv

LEMMA ShowTokenOverlayStep ==
  ASSUME IInv, NEW p \in Page, ShowTokenOverlay(p)
  PROVE  IInv'
  <1>1. /\ popup[p] > 0 /\ popup' = [popup EXCEPT ![p] = popup[p] - 1]
        /\ overlay' = overlay \cup {p} /\ step2' = step2 \ {p}
        /\ UNCHANGED <<server, work, sid, outbox, inbox, agentConnected, asks, lost>>
    BY DEF ShowTokenOverlay
  <1>2. TypeOK' /\ Unique'
    <2>1. popup \in [Page -> 0..MaxPopups] /\ popup[p] - 1 \in 0..MaxPopups
      BY <1>1, RelayAssumption DEF IInv, TypeOK
    <2>2. popup' \in [Page -> 0..MaxPopups]
      BY <1>1, <2>1
    <2>. QED  BY <1>1, <2>2 DEF IInv, TypeOK, Unique, server, asks
  <1>3. ASSUME NEW q \in Page  PROVE CommandsOf(q)'
    BY <1>1, CommandsKept DEF asks
  <1>4. OnlyPage(p) /\ AuthOf(p)'
    BY <1>1 DEF OnlyPage, server, AuthOf, AuthInv, IInv, TypeOK
  <1>5. Due(p)' => EndsAs(inbox'[p], Shown(p)', Paired(p)')
    <2>1. /\ Due(p)' => Due(p)
          /\ inbox'[p] = inbox[p] /\ Shown(p)' = Shown(p) /\ Paired(p)' = Paired(p)
      BY <1>1 DEF Due, Shown, Paired, server
    <2>. QED  BY <2>1 DEF IInv, StatusInv
  <1>6. WaitsWell(inbox'[p], Waiting(p)', Shown(p)', Excused(p)')
    <2>1. /\ inbox'[p] = inbox[p] /\ Shown(p)' = Shown(p)
          /\ ~Waiting(p)' /\ (Excused(p)' <=> Excused(p))
      BY <1>1 DEF Waiting, Shown, Excused, server
    <2>. QED  BY <2>1 DEF WaitsWell, IInv, WaitInv
  <1>. QED  BY <1>2, <1>3, <1>4, <1>5, <1>6, PageStep DEF CommandsInv

LEMMA Heard ==
  ASSUME IInv, NEW p \in Page, NEW type, Handles(p, type)
  PROVE  /\ inbox[p] \in Seq(Message) /\ inbox[p] # <<>>
         /\ Head(inbox[p]) \in Message /\ Head(inbox[p]).type = type
         /\ inbox'[p] = Tail(inbox[p]) /\ inbox' \in [Page -> Seq(Message)]
         /\ \A q \in Page \ {p} : inbox'[q] = inbox[q]
         /\ \A q \in Page : Of(inbox'[q], "result") \subseteq Of(inbox[q], "result")
  <1>1. /\ inbox \in [Page -> Seq(Message)] /\ inbox[p] # <<>>
        /\ Head(inbox[p]).type = type /\ inbox' = [inbox EXCEPT ![p] = Tail(inbox[p])]
    BY DEF IInv, TypeOK, Handles
  <1>2. Head(inbox[p]) \in Message /\ Tail(inbox[p]) \in Seq(Message)
    BY <1>1, Taken
  <1>3. Of(Tail(inbox[p]), "result") \subseteq Of(inbox[p], "result")
    BY <1>1, OfTaken
  <1>. QED  BY <1>1, <1>2, <1>3

LEMMA PageHearsStatusStep ==
  ASSUME IInv, NEW p \in Page, PageHearsStatus(p)
  PROVE  IInv'
  <1> DEFINE ms == inbox[p]
  <1>1. /\ Handles(p, "agent_status") /\ UNCHANGED <<server, work, sid, outbox, asks>>
        /\ \/ /\ Head(ms).connected = TRUE
              /\ agentConnected' = agentConnected \cup {p} /\ overlay' = overlay \ {p}
              /\ step2' = step2 \ {p} /\ popup' = popup
              /\ lost' = IF Welcome(ms) THEN lost ELSE lost \ {p}
           \/ /\ Head(ms).connected = FALSE
              /\ agentConnected' = agentConnected \ {p}
              /\ IF p \in agentConnected
                 THEN popup[p] < MaxPopups /\ popup' = [popup EXCEPT ![p] = popup[p] + 1]
                 ELSE popup' = popup
              /\ UNCHANGED <<overlay, step2, lost>>
    <2>1. Handles(p, "agent_status")
      BY DEF PageHearsStatus
    <2>2. Head(ms).connected \in BOOLEAN
      BY <2>1, Heard, CommandParts
    <2>. QED  BY <2>1, <2>2 DEF PageHearsStatus
  <1>2. /\ ms \in Seq(Message) /\ ms # <<>> /\ Head(ms) \in Message
        /\ Head(ms).type = "agent_status" /\ inbox'[p] = Tail(ms)
        /\ inbox' \in [Page -> Seq(Message)]
        /\ \A q \in Page \ {p} : inbox'[q] = inbox[q]
        /\ \A q \in Page : Of(inbox'[q], "result") \subseteq Of(inbox[q], "result")
    BY <1>1, Heard
  <1>3. /\ Head(ms).connected = TRUE => Head(ms) = Connected
        /\ Head(ms).connected = FALSE => Head(ms) = Gone
    BY <1>2 DEF Message, Connected, Gone, Status
  <1>4. TypeOK' /\ Unique'
    <2>1. /\ agentConnected' \subseteq Page /\ overlay' \subseteq Page /\ step2' \subseteq Page
          /\ lost' \subseteq Page
      BY <1>1 DEF IInv, TypeOK
    <2>2. popup' \in [Page -> 0..MaxPopups]
      <3>1. popup \in [Page -> 0..MaxPopups] /\ popup[p] \in 0..MaxPopups
        BY DEF IInv, TypeOK
      <3>2. popup[p] < MaxPopups => popup[p] + 1 \in 0..MaxPopups
        BY <3>1, RelayAssumption
      <3>. QED  BY <1>1, <3>1, <3>2
    <2>. QED  BY <1>1, <1>2, <2>1, <2>2 DEF IInv, TypeOK, Unique, server, asks
  <1>5. ASSUME NEW q \in Page  PROVE CommandsOf(q)'
    BY <1>1, <1>2, CommandsKept DEF asks
  <1>6. OnlyPage(p) /\ AuthOf(p)'
    <2>1. \A q \in Page \ {p} : popup'[q] = popup[q]
      BY <1>1 DEF IInv, TypeOK
    <2>. QED  BY <1>1, <1>2, <2>1 DEF OnlyPage, server, AuthOf, AuthInv, IInv
  <1>7. Shown(p)' = Head(ms)
    BY <1>1, <1>3 DEF Shown
  <1> HIDE DEF ms
  <1>8. Due(p)' => EndsAs(inbox'[p], Shown(p)', Paired(p)')
    <2>1. (Due(p)' => Due(p)) /\ Paired(p)' = Paired(p)
      BY <1>1 DEF Due, Paired, server
    <2>2. Due(p) => EndsAs(ms, Shown(p), Paired(p))
      BY DEF IInv, StatusInv, ms
    <2>3. Due(p) => EndsAs(Tail(ms), Head(ms), Paired(p))
      BY <1>2, <2>2, EndsAsHeard
    <2>. QED  BY <1>2, <1>7, <2>1, <2>3
  <1>9. WaitsWell(inbox'[p], Waiting(p)', Shown(p)', Excused(p)')
    <2>1. WaitsWell(ms, Waiting(p), Shown(p), Excused(p))
      BY DEF IInv, WaitInv, ms
    <2>2. Excused(p) => Excused(p)' \/ (\A i \in DOMAIN ms : ms[i] # PairResult("waiting"))
      BY <1>1 DEF Excused, Welcome, server
    <2>3. ASSUME Waiting(p)'
          PROVE  Waiting(p) /\ Head(ms) # Connected /\ (Excused(p) => Excused(p)')
      <3>1. p \notin agentConnected' /\ popup'[p] = 0 /\ p \in overlay' /\ p \in step2'
        BY <2>3 DEF Waiting
      <3>2. Head(ms).connected = FALSE /\ p \notin agentConnected /\ popup[p] = 0
        <4>1. popup \in [Page -> 0..MaxPopups] /\ popup[p] \in 0..MaxPopups
          BY DEF IInv, TypeOK
        <4>2. popup[p] + 1 # 0
          BY <4>1, RelayAssumption
        <4>. QED  BY <1>1, <3>1, <4>1, <4>2
      <3>3. p \in overlay /\ p \in step2 /\ lost' = lost
        BY <1>1, <3>1, <3>2
      <3>4. Head(ms) # Connected
        BY <1>3, <3>2, Words
      <3>. QED  BY <1>1, <3>2, <3>3, <3>4 DEF Waiting, Excused, server
    <2>4. WaitsWell(Tail(ms), Waiting(p)', Head(ms), Excused(p)')
      BY <1>2, <2>1, <2>2, <2>3, WaitsWellHeard
    <2>. QED  BY <1>2, <1>7, <2>4
  <1>. QED  BY <1>4, <1>5, <1>6, <1>8, <1>9, PageStep DEF CommandsInv

\* What a page that hears another message than agent_status has of the
\* invariant.
LEMMA HeardOther ==
  ASSUME IInv, NEW p \in Page, NEW type \in {"pair_result", "result"}, Handles(p, type),
         UNCHANGED <<server, work, sid, outbox, agentConnected, overlay, popup, cmdSeq, lost>>,
         step2' \subseteq Page, step2' \ {p} = step2 \ {p},
         pending' \in [Page -> SUBSET Id], \A q \in Page : pending'[q] \subseteq pending[q],
         Waiting(p)' => \/ Waiting(p) \/ Head(inbox[p]) = PairResult("waiting")
                        \/ Head(inbox[p]) = PairResult("connected") /\ p \notin agentConnected
  PROVE  IInv'
  <1> DEFINE ms == inbox[p]
  <1>1. /\ ms \in Seq(Message) /\ ms # <<>> /\ Head(ms).type # "agent_status"
        /\ inbox'[p] = Tail(ms) /\ inbox' \in [Page -> Seq(Message)]
        /\ \A q \in Page \ {p} : inbox'[q] = inbox[q]
        /\ \A q \in Page : Of(inbox'[q], "result") \subseteq Of(inbox[q], "result")
    BY Heard
  <1>2. TypeOK' /\ Unique'
    BY <1>1 DEF IInv, TypeOK, Unique, server
  <1>3. ASSUME NEW q \in Page  PROVE CommandsOf(q)'
    BY <1>1, CommandsKept
  <1>4. OnlyPage(p) /\ AuthOf(p)'
    BY <1>1 DEF OnlyPage, server, AuthOf, AuthInv, IInv
  <1> HIDE DEF ms
  <1>5. Shown(p)' = Shown(p) /\ (Excused(p)' <=> Excused(p)) /\ Head(ms) # Connected
    BY <1>1, Words DEF Shown, Excused, server
  <1>6. Due(p)' => EndsAs(inbox'[p], Shown(p)', Paired(p)')
    <2>1. (Due(p)' => Due(p)) /\ Paired(p)' = Paired(p)
      BY DEF Due, Paired, server
    <2>2. Due(p) => EndsAs(ms, Shown(p), Paired(p))
      BY DEF IInv, StatusInv, ms
    <2>3. Due(p) => EndsAs(Tail(ms), Shown(p), Paired(p))
      BY <1>1, <2>2, EndsAsHeard
    <2>. QED  BY <1>1, <1>5, <2>1, <2>3
  <1>7. WaitsWell(inbox'[p], Waiting(p)', Shown(p)', Excused(p)')
    <2>1. WaitsWell(ms, Waiting(p), Shown(p), Excused(p))
      BY DEF IInv, WaitInv, ms
    <2>2. Waiting(p)' => \/ Waiting(p) \/ Head(ms) = PairResult("waiting")
                         \/ Head(ms) = PairResult("connected") /\ Shown(p) # Connected
      BY Words DEF ms, Shown
    <2>3. WaitsWell(Tail(ms), Waiting(p)', Shown(p), Excused(p)')
      BY <1>1, <1>5, <2>1, <2>2, WaitsWellHeard
    <2>. QED  BY <1>1, <1>5, <2>3
  <1>. QED  BY <1>2, <1>3, <1>4, <1>6, <1>7, PageStep DEF CommandsInv

LEMMA PageHearsPairResultStep ==
  ASSUME IInv, NEW p \in Page, PageHearsPairResult(p)
  PROVE  IInv'
  <1>1. /\ Handles(p, "pair_result")
        /\ step2' = IF Head(inbox[p]).result = "refused" \/ p \notin overlay
                     THEN step2 ELSE step2 \cup {p}
        /\ UNCHANGED <<server, work, sid, outbox, agentConnected, overlay, popup, asks, lost>>
    BY DEF PageHearsPairResult
  <1>2. Head(inbox[p]) \in Message /\ Head(inbox[p]).type = "pair_result"
    BY <1>1, Heard
  <1>3. \/ Head(inbox[p]).result = "refused"
        \/ Head(inbox[p]) = PairResult("waiting") \/ Head(inbox[p]) = PairResult("connected")
    BY <1>2 DEF Message, PairResult
  <1>4. Waiting(p)' => \/ Waiting(p) \/ Head(inbox[p]) = PairResult("waiting")
                       \/ Head(inbox[p]) = PairResult("connected") /\ p \notin agentConnected
    BY <1>1, <1>3 DEF Waiting
  <1>5. step2' \subseteq Page /\ step2' \ {p} = step2 \ {p}
    BY <1>1 DEF IInv, TypeOK
  <1>6. pending' = pending /\ cmdSeq' = cmdSeq /\ pending' \in [Page -> SUBSET Id]
    BY <1>1 DEF IInv, TypeOK, asks
  <1>. QED  BY <1>1, <1>4, <1>5, <1>6, HeardOther

LEMMA PageHearsResultStep ==
  ASSUME IInv, NEW p \in Page, PageHearsResult(p)
  PROVE  IInv'
  <1>1. /\ Handles(p, "result")
        /\ pending' = [pending EXCEPT ![p] = pending[p] \ {Head(inbox[p]).id}]
        /\ UNCHANGED <<server, work, sid, outbox, shows, cmdSeq, lost>>
    BY DEF PageHearsResult
  <1>2. /\ pending' \in [Page -> SUBSET Id]
        /\ \A q \in Page : pending'[q] \subseteq pending[q]
    BY <1>1 DEF IInv, TypeOK
  <1>3. Waiting(p)' => Waiting(p)
    BY <1>1 DEF Waiting, shows
  <1>4. step2' \subseteq Page /\ step2' = step2
    BY <1>1 DEF IInv, TypeOK, shows
  <1>. QED  BY <1>1, <1>2, <1>3, <1>4, HeardOther DEF shows

-----------------------------------------------------------------------------
\* The theorems.

LEMMA InitHolds ==
  ASSUME Init
  PROVE  IInv
  <1> USE DEF Init
  <1>1. TypeOK
    <2>1. cmdSeq \in [Page -> 0..MaxCommands]
      BY RelayAssumption
    <2>2. outbox \in [Page -> Seq(Request)] /\ inbox \in [Page -> Seq(Message)]
      OBVIOUS
    <2>3. popup \in [Page -> 0..MaxPopups]
      BY RelayAssumption
    <2>. QED  BY <2>1, <2>2, <2>3 DEF TypeOK
  <1>2. Unique
    BY DEF Unique
  <1>3. CommandsInv
    BY NothingToHear DEF CommandsInv, CommandsOf
  <1>4. AuthInv /\ StatusInv
    BY DEF AuthInv, AuthOf, StatusInv, Due
  <1>5. WaitInv
    <2>1. \A p \in Page : ~Waiting(p) /\ inbox[p] = <<>>
      BY DEF Waiting
    <2>. QED  BY <2>1, NothingToHear DEF WaitInv
  <1>. QED  BY <1>1, <1>2, <1>3, <1>4, <1>5 DEF IInv

LEMMA NextKeeps ==
  ASSUME IInv, [Next]_vars
  PROVE  IInv'
  <1>1. CASE AgentHello
    BY <1>1, AgentHelloStep
  <1>2. CASE AgentIsKicked
    BY <1>2, AgentIsKickedStep
  <1>3. CASE AgentDisconnect
    BY <1>3, AgentDisconnectStep
  <1>4. CASE \E c \in work : AgentResult(c)
    BY <1>4, AgentResultStep
  <1>5. CASE \E s \in Sid : BrowserDisconnect(s)
    BY <1>5, BrowserDisconnectStep
  <1>6. ASSUME NEW p \in Page,
               BrowserHello(p) \/ PairRefused(p) \/ BrowserPair(p) \/ OnCommand(p)
        PROVE  IInv'
    BY <1>6, BrowserHelloStep, PairRefusedStep, BrowserPairStep, OnCommandStep
  <1>7. ASSUME NEW p \in Page, NEW s \in Sid, PageConnects(p, s)  PROVE IInv'
    BY <1>7, PageConnectsStep
  <1>8. ASSUME NEW p \in Page, PageLosesSocket(p) \/ PageReloads(p) \/ Logout(p)
        PROVE  IInv'
    BY <1>8, PageLosesSocketStep, PageReloadsStep, LogoutStep
  <1>9. ASSUME NEW p \in Page, Connect(p) \/ SendCommand(p)  PROVE IInv'
    BY <1>9, ConnectStep, SendCommandStep
  <1>10. ASSUME NEW p \in Page, NEW id \in Id, SixtySeconds(p, id)  PROVE IInv'
    BY <1>10, SixtySecondsStep
  <1>11. ASSUME NEW p \in Page,
                \/ PageHearsStatus(p) \/ ShowTokenOverlay(p)
                \/ PageHearsPairResult(p) \/ PageHearsResult(p)
         PROVE  IInv'
    BY <1>11, PageHearsStatusStep, ShowTokenOverlayStep, PageHearsPairResultStep,
       PageHearsResultStep
  <1>12. CASE UNCHANGED vars
    <2>1. TypeOK' /\ Unique' /\ CommandsInv' /\ AuthInv' /\ StatusInv'
      BY <1>12 DEF IInv, TypeOK, Unique, CommandsInv, CommandsOf, Owned, AuthInv, AuthOf, StatusInv, Due, Shown,
         Paired, vars, server, shows, asks
    <2>2. WaitInv'
      <3>1. ASSUME NEW p \in Page
            PROVE  /\ inbox'[p] = inbox[p] /\ Shown(p)' = Shown(p)
                   /\ (Waiting(p)' <=> Waiting(p)) /\ (Excused(p)' <=> Excused(p))
        BY <1>12 DEF Waiting, Shown, Excused, vars, server, shows
      <3>2. ASSUME NEW p \in Page
            PROVE  WaitsWell(inbox'[p], Waiting(p)', Shown(p)', Excused(p)')
        BY <3>1 DEF WaitsWell, IInv, WaitInv
      <3>. QED  BY <3>2 DEF WaitInv
    <2>. QED  BY <2>1, <2>2 DEF IInv
  <1>. QED  BY <1>1, <1>2, <1>3, <1>4, <1>5, <1>6, <1>7, <1>8, <1>9, <1>10, <1>11, <1>12 DEF Next

\* The inductive invariant holds in every state of CommandRelay.
THEOREM RelayInvariantHolds == Spec => []IInv
  BY InitHolds, NextKeeps, PTL DEF Spec

\* What the server, the agent and the pages keep has its type, and nothing but
\* requests and messages is on its way between them.
THEOREM TypesAreCorrect == Spec => []TypeOK
  <1>1. IInv => TypeOK
    BY DEF IInv
  <1>. QED  BY <1>1, RelayInvariantHolds, PTL

\* No page takes the answer to another's command, or to one it gave up, for the
\* answer to one of its own, although the numbers that match them begin anew
\* with every load: whatever has a number on a page's socket was sent on it.
THEOREM AnswersAreOwn == Spec => []ResultsAreOwn
  <1>1. IInv => ResultsAreOwn
    <2>1. ASSUME IInv, NEW p \in Page, NEW i \in DOMAIN inbox[p],
                 inbox[p][i].type = "result", inbox[p][i].id \in pending[p]
          PROVE  inbox[p][i].asker = p
      <3>1. inbox[p][i] \in Of(inbox[p], "result")
        BY <2>1 DEF Of
      <3>. QED  BY <2>1, <3>1 DEF IInv, CommandsInv, CommandsOf, Owned
    <2>. QED  BY <2>1 DEF ResultsAreOwn
  <1>. QED  BY <1>1, RelayInvariantHolds, PTL

\* A page that has heard all there is shows the agent as connected if and only if
\* the server has paired its socket: the last word on its way is the true one.
THEOREM StatusComesTrue == Spec => []StatusIsTrue
  <1>1. IInv => StatusIsTrue
    <2>1. ASSUME IInv, agent # "kicked", NEW p \in Page, Quiet(p)
          PROVE  p \in agentConnected <=> sid[p] \in browser_agent
      <3>1. inbox[p] = <<>> /\ Due(p)
        BY <2>1, NothingToHear DEF Quiet, Due
      <3>2. EndsAs(<<>>, Shown(p), Paired(p))
        BY <2>1, <3>1 DEF IInv, StatusInv
      <3>3. Shown(p) = Paired(p)
        BY <3>2, NothingToHear DEF EndsAs
      <3>. QED  BY <3>3, Words DEF Shown, Paired
    <2>. QED  BY <2>1 DEF StatusIsTrue
  <1>. QED  BY <1>1, RelayInvariantHolds, PTL

\* A page that says it waits is one of those an agent's hello will pair, but for
\* those whose socket was replaced or that were turned away.
THEOREM WaitsAreRemembered == Spec => []WaitsAreKnown
  <1>1. IInv => WaitsAreKnown
    <2>1. ASSUME IInv, NEW p \in Page, Quiet(p), Waiting(p)
          PROVE  sid[p] \in pending_browser \/ p \in lost
      <3>1. WaitsWell(<<>>, Waiting(p), Shown(p), Excused(p))
        BY <2>1 DEF Quiet, IInv, WaitInv
      <3>2. Excused(p)
        <4>1. Waiting(p) => Greets(<<>>, 0) \/ Excused(p)
          BY <3>1 DEF WaitsWell
        <4>2. ~Greets(<<>>, 0)
          BY DEF Greets
        <4>. QED  BY <2>1, <4>1, <4>2
      <3>. QED  BY <3>2 DEF Excused
    <2>. QED  BY <2>1 DEF WaitsAreKnown
  <1>. QED  BY <1>1, RelayInvariantHolds, PTL
=============================================================================
