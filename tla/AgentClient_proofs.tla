-------------------------- MODULE AgentClient_proofs --------------------------
(***************************************************************************)
(* Proofs that AgentClient keeps its types and that RetriesAreHarmless     *)
(* holds, for any pool of connections, any number of losses, blocks and    *)
(* uses.                                                                   *)
(*                                                                         *)
(* A run of the program has one attempt to spend, and one more for each    *)
(* loss.  The argument is about the moments at which none is left: then    *)
(* the program has been told for good, or a handler that will tell it is   *)
(* waiting, or its connection is sound and what ends it can only come over *)
(* this connection (NoneLeft).  So the Go agent never reaches a pause that *)
(* leads to another attempt: a pause begins after the connection is over   *)
(* and ends after the handlers have run.                                   *)
(***************************************************************************)
EXTENDS AgentClient, TLAPS

\* What ends the program.
Final == {"no good", "kicked"}

HasFinal(w) == \E i \in 1 .. Len(w) : w[i] \in Final
HasOther(w) == \E i \in 1 .. Len(w) : w[i] \notin Final

\* A handler is going to end the program.
Told == \E h \in pending : h.event \in Final

\* The connection is sound, and the end can only come over it.
ToldHere ==
  /\ Connected /\ link
  /\ HasFinal(wire) \/ conn \in (agents \cap sockets) \ closing

\* The server's side: sessions have sockets, and a code whose uses are gone is
\* marked.
ServerInv ==
  /\ agents \subseteq sockets
  /\ used \/ unlimited \/ use_count < MaxUses

\* Apart from the wait for its connection, the Go agent's main loop has none that
\* is read.
LoopInv ==
  /\ ~python /\ main # "wait" => reader = "over"
  /\ main = "ended" => begun = 0 /\ failed = 0
  /\ link => conn \in Conn

\* Before the hello nothing has come over a connection.
HelloInv ==
  hello => /\ wire = <<>>
           /\ conn \notin agents \cup closing
           /\ \A h \in pending : h.of # conn

\* A connection that was turned down for now carries no session and nothing final.
OtherInv ==
  HasOther(wire) \/ (\E h \in pending : h.of = conn /\ h.event \notin Final) =>
    conn \notin agents /\ ~HasFinal(wire)

\* When no attempt is left.
NoneLeft == begun + failed = 1 + breaks => shutdown \/ Told \/ ToldHere

CreditInv ==
  python \/ /\ begun + failed <= 1 + breaks
            /\ main = "dial" \/ hello => begun + failed <= breaks
            /\ NoneLeft

IInv == TypeOK /\ ServerInv /\ LoopInv /\ HelloInv /\ OtherInv /\ CreditInv

-----------------------------------------------------------------------------
\* Facts about messages.

LEMMA Empty == ~HasFinal(<<>>) /\ ~HasOther(<<>>)
  BY DEF HasFinal, HasOther

LEMMA Sending ==
  ASSUME NEW w \in Seq(Event), NEW e \in Event
  PROVE  /\ Append(w, e) \in Seq(Event)
         /\ HasFinal(Append(w, e)) <=> HasFinal(w) \/ e \in Final
         /\ HasOther(Append(w, e)) <=> HasOther(w) \/ e \notin Final
  BY DEF HasFinal, HasOther

LEMMA Reading ==
  ASSUME NEW w \in Seq(Event), w # <<>>
  PROVE  /\ Tail(w) \in Seq(Event) /\ Head(w) \in Event
         /\ HasFinal(w) <=> HasFinal(Tail(w)) \/ Head(w) \in Final
         /\ HasOther(w) <=> HasOther(Tail(w)) \/ Head(w) \notin Final
  <1>1. /\ Len(w) \in Nat /\ Len(w) > 0 /\ Head(w) = w[1] /\ Head(w) \in Event
        /\ Tail(w) \in Seq(Event) /\ Len(Tail(w)) = Len(w) - 1
        /\ \A i \in 1 .. Len(w) - 1 : Tail(w)[i] = w[i + 1]
    OBVIOUS
  <1>2. ASSUME NEW S
        PROVE  (\E i \in 1 .. Len(w) : w[i] \in S) <=>
                 (\E i \in 1 .. Len(Tail(w)) : Tail(w)[i] \in S) \/ Head(w) \in S
    <2>1. ASSUME NEW i \in 1 .. Len(w), w[i] \in S
          PROVE  (\E j \in 1 .. Len(Tail(w)) : Tail(w)[j] \in S) \/ Head(w) \in S
      <3>1. CASE i = 1
        BY <1>1, <2>1, <3>1
      <3>2. CASE i # 1
        <4>1. i - 1 \in 1 .. Len(Tail(w)) /\ Tail(w)[i - 1] = w[i]
          BY <1>1, <3>2
        <4>. QED  BY <2>1, <4>1
      <3>. QED  BY <3>1, <3>2
    <2>2. ASSUME NEW i \in 1 .. Len(Tail(w)), Tail(w)[i] \in S
          PROVE  \E j \in 1 .. Len(w) : w[j] \in S
      <3>1. i + 1 \in 1 .. Len(w) /\ w[i + 1] = Tail(w)[i]
        BY <1>1
      <3>. QED  BY <2>2, <3>1
    <2>3. Head(w) \in S => \E j \in 1 .. Len(w) : w[j] \in S
      <3>1. 1 \in 1 .. Len(w)
        BY <1>1
      <3>. QED  BY <1>1, <3>1
    <2>. QED  BY <2>1, <2>2, <2>3
  <1>3. HasFinal(w) <=> HasFinal(Tail(w)) \/ Head(w) \in Final
    BY <1>2 DEF HasFinal
  <1>4. HasOther(w) <=> HasOther(Tail(w)) \/ Head(w) \notin Final
    <2>1. \A u \in Seq(Event) :
            HasOther(u) <=> \E i \in 1 .. Len(u) : u[i] \in Event \ Final
      BY DEF HasOther
    <2>. QED  BY <1>1, <1>2, <2>1
  <1>. QED  BY <1>1, <1>3, <1>4

-----------------------------------------------------------------------------
\* The types, the truth values apart from the others.
Flags ==
  /\ python \in BOOLEAN /\ shutdown \in BOOLEAN /\ fatalReject \in BOOLEAN
  /\ open \in BOOLEAN /\ hello \in BOOLEAN /\ link \in BOOLEAN
  /\ unlimited \in BOOLEAN /\ in_use \in BOOLEAN /\ used \in BOOLEAN
  /\ expired \in BOOLEAN /\ deaf \in BOOLEAN

Agent ==
  /\ main \in {"dial", "wait", "decide", "pause", "ended"}
  /\ retryDelay \in {"short", "long"}
  /\ conn \in Conn \cup {NoConn}
  /\ reader \in {"top", "read", "over"}
  /\ pending \subseteq [of : Conn, event : Event]
  /\ wire \in Seq(Event)

Others ==
  /\ sockets \subseteq Conn /\ agents \subseteq Conn /\ closing \subseteq Conn
  /\ use_count \in 0 .. MaxUses
  /\ blocks \in 0 .. MaxBlocks
  /\ begun \in Nat /\ failed \in Nat /\ breaks \in Nat
  /\ runs \in 0 .. MaxRuns /\ broken \in 0 .. MaxBreaks

LEMMA TypeParts == TypeOK <=> Flags /\ Agent /\ Others
  BY DEF TypeOK, Flags, Agent, Others

LEMMA TypePartsNext == Flags' /\ Agent' /\ Others' => TypeOK'
  BY TypeParts, PTL

LEMMA InitIInv == Init => IInv
  <1> SUFFICES ASSUME Init  PROVE IInv
    OBVIOUS
  <1>1. Flags
    BY DEF Init, Flags
  <1>2. Agent
    <2>1. <<>> \in Seq(Event)
      OBVIOUS
    <2>. QED  BY <2>1 DEF Init, Agent
  <1>3. Others
    BY ClientAssumption DEF Init, Others
  <1>4. ServerInv /\ LoopInv /\ HelloInv /\ OtherInv /\ CreditInv
    BY ClientAssumption, Empty
    DEF Init, ServerInv, LoopInv, HelloInv, OtherInv, CreditInv, NoneLeft
  <1>. QED  BY <1>1, <1>2, <1>3, <1>4, TypeParts DEF IInv

\* An end of the program leaves the server as it was.
LEMMA ExitIInv ==
  ASSUME IInv, Exit
  PROVE  IInv'
  <1>0. <<>> \in Seq(Event)
    OBVIOUS
  <1>1. TypeOK'
    <2>1. Flags'
      BY TypeParts DEF IInv, Flags, Exit, server, token
    <2>2. Agent'
      BY <1>0, TypeParts DEF IInv, Agent, Exit, server
    <2>3. Others'
      BY TypeParts DEF IInv, Others, Exit, server, token
    <2>. QED  BY <2>1, <2>2, <2>3, TypePartsNext
  <1>2. ServerInv' /\ LoopInv' /\ HelloInv' /\ OtherInv' /\ CreditInv'
    BY Empty, <1>1
    DEF IInv, TypeOK, ServerInv, LoopInv, HelloInv, OtherInv, CreditInv, NoneLeft, Exit, server, token
  <1>. QED  BY <1>1, <1>2 DEF IInv

LEMMA StartProgramIInv ==
  ASSUME IInv, StartProgram
  PROVE  IInv'
  <1>1. TypeOK'
    BY ClientAssumption DEF IInv, TypeOK, StartProgram, flags, socket, net, server, token
  <1>2. ServerInv' /\ LoopInv' /\ HelloInv' /\ OtherInv'
    BY DEF IInv, ServerInv, LoopInv, HelloInv, OtherInv, StartProgram, flags, socket, net,
           server, token
  <1>3. CreditInv'
    BY DEF IInv, TypeOK, LoopInv, CreditInv, NoneLeft, StartProgram
  <1>. QED  BY <1>1, <1>2, <1>3 DEF IInv

LEMMA InterruptIInv ==
  ASSUME IInv, Interrupt
  PROVE  IInv'
  <1>1. TypeOK'
    <2>1. Flags'
      BY TypeParts DEF IInv, Flags, Interrupt, net, server, token
    <2>2. Agent' /\ Others'
      BY TypeParts DEF IInv, Agent, Others, Interrupt, net, server, token
    <2>. QED  BY <2>1, <2>2, TypePartsNext
  <1>2. ServerInv' /\ LoopInv' /\ HelloInv' /\ OtherInv' /\ CreditInv'
    BY DEF IInv, ServerInv, LoopInv, HelloInv, OtherInv, CreditInv, NoneLeft, Interrupt, net,
           server, token
  <1>. QED  BY <1>1, <1>2 DEF IInv

LEMMA DialSucceedsIInv ==
  ASSUME IInv, DialSucceeds
  PROVE  IInv'
  <1>1. conn' \in Fresh
    BY DEF DialSucceeds
  <1>2. /\ conn' \in Conn /\ conn' \notin sockets \cup closing
        /\ \A h \in pending : h.of # conn'
    BY <1>1 DEF Fresh
  <1>3. TypeOK'
    <2>1. Flags'
      BY TypeParts DEF IInv, Flags, DialSucceeds, flags, token, past
    <2>2. Agent'
      <3>1. <<>> \in Seq(Event)
        OBVIOUS
      <3>. QED  BY <1>2, <3>1, TypeParts DEF IInv, Agent, DialSucceeds, flags
    <2>3. Others'
      BY <1>2, TypeParts DEF IInv, Others, DialSucceeds, token, past
    <2>. QED  BY <2>1, <2>2, <2>3, TypePartsNext
  <1>4. ServerInv' /\ LoopInv' /\ HelloInv' /\ OtherInv'
    BY <1>2, Empty
    DEF IInv, ServerInv, LoopInv, HelloInv, OtherInv, DialSucceeds, flags, token, past
  <1>5. CreditInv'
    BY DEF IInv, TypeOK, CreditInv, NoneLeft, DialSucceeds, past
  <1>. QED  BY <1>3, <1>4, <1>5 DEF IInv

LEMMA DialFailsIInv ==
  ASSUME IInv, DialFails
  PROVE  IInv'
  <1>1. TypeOK'
    BY DEF IInv, TypeOK, DialFails, flags, socket, net, server, token, past
  <1>2. ServerInv' /\ LoopInv' /\ HelloInv' /\ OtherInv'
    BY DEF IInv, ServerInv, LoopInv, HelloInv, OtherInv, DialFails, flags, socket, net,
           server, token, past
  <1>3. CreditInv'
    BY DEF IInv, TypeOK, CreditInv, NoneLeft, DialFails, flags, socket, net, server, past
  <1>. QED  BY <1>1, <1>2, <1>3 DEF IInv

\* The main loop.  It dials again only when an attempt is left: the connection
\* is over and no handler waits.
LEMMA MainLoopIInv ==
  ASSUME IInv, MainLoop
  PROVE  IInv'
  <1>1. CASE ConnectionEnds
    <2>1. TypeOK'
      BY <1>1 DEF IInv, TypeOK, ConnectionEnds, flags, socket, net, server, token, past
    <2>2. ServerInv' /\ LoopInv' /\ HelloInv' /\ OtherInv'
      BY <1>1 DEF IInv, ServerInv, LoopInv, HelloInv, OtherInv, ConnectionEnds, flags, socket,
                  net, server, token, past
    <2>3. CreditInv'
      BY <1>1 DEF IInv, CreditInv, NoneLeft, Told, ToldHere, Connected, ConnectionEnds, flags,
                  socket, net, server, past
    <2>. QED  BY <2>1, <2>2, <2>3 DEF IInv
  <1>2. CASE main = "decide" /\ Resume
    <2>1. TypeOK'
      BY <1>2 DEF IInv, TypeOK, Resume, socket, net, server, token, past
    <2>2. ServerInv' /\ LoopInv' /\ HelloInv' /\ OtherInv'
      BY <1>2 DEF IInv, TypeOK, ServerInv, LoopInv, HelloInv, OtherInv, Resume, socket, net,
                  server, token, past
    <2>3. CreditInv'
      BY <1>2 DEF IInv, TypeOK, CreditInv, NoneLeft, Told, ToldHere, Connected, Resume, socket,
                  net, server, past
    <2>. QED  BY <2>1, <2>2, <2>3 DEF IInv
  <1>3. CASE PauseEnds /\ ~shutdown
    <2>1. TypeOK'
      BY <1>3 DEF IInv, TypeOK, PauseEnds, flags, socket, net, server, token, past
    <2>2. ServerInv' /\ LoopInv' /\ HelloInv' /\ OtherInv'
      BY <1>3 DEF IInv, TypeOK, ServerInv, LoopInv, HelloInv, OtherInv, PauseEnds, flags,
                  socket, net, server, token, past
    <2>3. CreditInv'
      <3>1. python \/ reader = "over"
        BY <1>3 DEF IInv, LoopInv, PauseEnds
      <3>2. ~Told
        BY <1>3 DEF Told, PauseEnds
      <3>3. python \/ begun + failed <= breaks
        BY <1>3, <3>1, <3>2 DEF IInv, TypeOK, CreditInv, NoneLeft, ToldHere, Connected
      <3>. QED
        BY <1>3, <3>3 DEF IInv, TypeOK, CreditInv, NoneLeft, PauseEnds, past
    <2>. QED  BY <2>1, <2>2, <2>3 DEF IInv
  <1>. QED  BY <1>1, <1>2, <1>3, ExitIInv DEF MainLoop, Decide, PauseEnds

\* The reader moves a message to its handler, or finds the connection dead.
LEMMA ReaderIInv ==
  ASSUME IInv, Reader
  PROVE  IInv'
  <1>1. CASE ReadAgain
    <2>1. CASE Exit
      BY <2>1, ExitIInv
    <2>2. CASE ~Exit
      <3>1. TypeOK'
        BY <1>1, <2>2 DEF IInv, TypeOK, ReadAgain, flags, net, server, token, past
      <3>2. ServerInv' /\ LoopInv' /\ HelloInv' /\ OtherInv'
        BY <1>1, <2>2 DEF IInv, ServerInv, LoopInv, HelloInv, OtherInv, ReadAgain, flags, net,
                          server, token, past
      <3>3. CreditInv'
        BY <1>1, <2>2 DEF IInv, CreditInv, NoneLeft, Told, ToldHere, Connected, ReadAgain, flags,
                          net, server, past
      <3>. QED  BY <3>1, <3>2, <3>3 DEF IInv
    <2>. QED  BY <2>1, <2>2
  <1>2. CASE ReadMessage
    <2> DEFINE h == [of |-> conn, event |-> Head(wire)]
    <2>1. conn \in Conn
      BY <1>2 DEF IInv, LoopInv, ReadMessage
    <2>2. /\ Head(wire) \in Event /\ Tail(wire) \in Seq(Event)
          /\ HasFinal(wire) <=> HasFinal(wire') \/ Head(wire) \in Final
          /\ HasOther(wire) <=> HasOther(wire') \/ Head(wire) \notin Final
          /\ pending' = pending \cup {h} /\ wire' = Tail(wire) /\ wire # <<>>
      BY <1>2, Reading DEF IInv, TypeOK, ReadMessage
    <2>3. TypeOK'
      <3>1. Flags' /\ Others'
        BY <1>2, TypeParts DEF IInv, Flags, Others, ReadMessage, flags, server, token, past
      <3>2. Agent'
        BY <1>2, <2>1, <2>2, TypeParts DEF IInv, Agent, ReadMessage, flags
      <3>. QED  BY <3>1, <3>2, TypePartsNext
    <2>4. ServerInv' /\ LoopInv' /\ HelloInv'
      BY <1>2, <2>2 DEF IInv, ServerInv, LoopInv, HelloInv, ReadMessage, flags, server, token,
                        past
    <2>5. OtherInv'
      BY <1>2, <2>2 DEF IInv, OtherInv, ReadMessage, server
    <2>6. CreditInv'
      <3>1. Told => Told'
        BY <2>2 DEF Told
      <3>2. Head(wire) \in Final => Told'
        <4>1. h \in pending' /\ h.event = Head(wire)
          BY <2>2
        <4>. QED  BY <4>1 DEF Told
      <3>3. ToldHere => Told' \/ ToldHere'
        BY <1>2, <2>2, <3>2 DEF ToldHere, Connected, ReadMessage, server
      <3> HIDE DEF h
      <3>. QED  BY <1>2, <3>1, <3>3 DEF IInv, CreditInv, NoneLeft, ReadMessage, flags, past
    <2>. QED  BY <2>3, <2>4, <2>5, <2>6 DEF IInv
  <1>3. CASE ReadFails
    <2>1. TypeOK'
      BY <1>3 DEF IInv, TypeOK, ReadFails, flags, net, server, token, past
    <2>2. ServerInv' /\ LoopInv' /\ HelloInv' /\ OtherInv'
      BY <1>3 DEF IInv, ServerInv, LoopInv, HelloInv, OtherInv, ReadFails, flags, net, server,
                  token, past
    <2>3. CreditInv'
      BY <1>3, Empty DEF IInv, CreditInv, NoneLeft, Told, ToldHere, Connected, ReadFails, flags,
                         net, server, past
    <2>. QED  BY <2>1, <2>2, <2>3 DEF IInv
  <1>. QED  BY <1>1, <1>2, <1>3 DEF Reader

\* A handler closes the connection it is about only if it ends the program or the
\* connection carries nothing final.
LEMMA HandlerRunsIInv ==
  ASSUME IInv, NEW h \in pending, HandlerRuns(h)
  PROVE  IInv'
  <1>1. TypeOK'
    <2>1. Flags'
      BY TypeParts DEF IInv, Flags, HandlerRuns, Obeys, net, server, token, past
    <2>2. Agent' /\ Others'
      BY TypeParts DEF IInv, Agent, Others, HandlerRuns, Obeys, net, server, token, past
    <2>. QED  BY <2>1, <2>2, TypePartsNext
  <1>2. ServerInv' /\ LoopInv' /\ HelloInv' /\ OtherInv'
    BY DEF IInv, ServerInv, LoopInv, HelloInv, OtherInv, HandlerRuns, net, server, token, past
  <1>3. CreditInv'
    <2>1. h.event \in Final /\ ~python => shutdown'
      BY DEF Final, HandlerRuns, Obeys
    <2>2. h.event \notin Final => Told' = Told
      BY DEF Told, HandlerRuns
    <2>3. h.event \notin Final /\ ToldHere /\ ~python => ToldHere'
      BY DEF IInv, OtherInv, ToldHere, Connected, HandlerRuns, net, server
    <2>4. shutdown => shutdown'
      BY DEF HandlerRuns, Obeys
    <2>. QED
      BY <2>1, <2>2, <2>3, <2>4 DEF IInv, CreditInv, NoneLeft, HandlerRuns, past
  <1>. QED  BY <1>1, <1>2, <1>3 DEF IInv

-----------------------------------------------------------------------------
\* The server.

\* What is sent to the agent, if it can be reached.
LEMMA SendTypes ==
  ASSUME IInv, NEW c, NEW e \in Event, Send(c, e)
  PROVE  wire' \in Seq(Event)
  BY Sending DEF IInv, TypeOK, Send

LEMMA BurnTypes ==
  ASSUME IInv, BurnToken
  PROVE  /\ in_use' \in BOOLEAN /\ used' \in BOOLEAN /\ use_count' \in 0 .. MaxUses
         /\ used' \/ unlimited \/ use_count' < MaxUses
  <1>1. CASE in_use /\ ~used
    <2>1. use_count' \in 0 .. MaxUses
      BY <1>1, ClientAssumption DEF IInv, TypeOK, ServerInv, BurnToken
    <2>2. in_use' = FALSE /\ used' = (~unlimited /\ use_count' >= MaxUses)
      BY <1>1 DEF BurnToken
    <2>3. in_use' \in BOOLEAN /\ used' \in BOOLEAN
      BY <2>2
    <2>4. used' \/ unlimited \/ use_count' < MaxUses
      <3>1. use_count' >= MaxUses \/ use_count' < MaxUses
        BY <2>1, ClientAssumption
      <3>. QED  BY <2>2, <3>1
    <2>. QED  BY <2>1, <2>3, <2>4
  <1>2. CASE ~(in_use /\ ~used)
    BY <1>2 DEF IInv, TypeOK, ServerInv, BurnToken
  <1>. QED  BY <1>1, <1>2

LEMMA HelloRejectedIInv ==
  ASSUME IInv, HelloRejected
  PROVE  IInv'
  <1>1. PICK reason \in Reason :
          /\ CanGreet
          /\ reason \in {"soon", "later"} => blocks' = blocks + 1 /\ blocks < MaxBlocks
          /\ reason \notin {"soon", "later"} => blocks' = blocks
          /\ hello' = FALSE
          /\ Send(conn, reason)
          /\ closing' = closing \cup {conn}
          /\ failed' = IF reason = "no good" THEN failed + 1 ELSE failed
          /\ in_use' = (in_use /\ reason # "no good")
          /\ UNCHANGED <<python, main, flags, conn, open, reader, pending, link, sockets,
                         agents, unlimited, used, use_count, expired, begun, breaks,
                         deaf, runs, broken>>
    BY DEF HelloRejected, IInv, TypeOK
  <1>2. /\ wire = <<>> /\ conn \notin agents \cup closing /\ conn \in Conn
        /\ \A h \in pending : h.of # conn
        /\ link /\ Connected
    BY <1>1, ClientAssumption DEF CanGreet, IInv, TypeOK, HelloInv
  <1>3. /\ wire' = Append(wire, reason) /\ wire' \in Seq(Event)
        /\ HasFinal(wire') <=> reason = "no good"
        /\ HasOther(wire') <=> reason # "no good"
    <2>1. reason \in Event /\ (reason \in Final <=> reason = "no good")
      BY <1>1 DEF Event, Reason, Final
    <2>2. wire' = Append(wire, reason) /\ wire \in Seq(Event)
      BY <1>1, <1>2 DEF Send, IInv, TypeOK
    <2>. QED  BY <1>2, <2>1, <2>2, Sending, Empty
  <1>4. TypeOK'
    <2>1. Flags'
      BY <1>1, TypeParts DEF IInv, Flags, flags
    <2>2. Agent'
      BY <1>1, <1>3, TypeParts DEF IInv, Agent, flags
    <2>3. blocks' \in 0 .. MaxBlocks /\ failed' \in Nat
      <3>1. MaxBlocks \in Nat /\ blocks \in 0 .. MaxBlocks /\ failed \in Nat
        BY TypeParts, ClientAssumption DEF IInv, Others
      <3>2. blocks' = blocks \/ (blocks' = blocks + 1 /\ blocks < MaxBlocks)
        BY <1>1, Zenon
      <3>3. failed' = failed \/ failed' = failed + 1
        BY <1>1, Zenon
      <3>. QED  BY <3>1, <3>2, <3>3
    <2>4. Others'
      BY <1>1, <1>2, <2>3, TypeParts DEF IInv, Others
    <2>. QED  BY <2>1, <2>2, <2>4, TypePartsNext
  <1>5. ServerInv' /\ LoopInv' /\ HelloInv'
    BY <1>1 DEF IInv, ServerInv, LoopInv, HelloInv, CanGreet
  <1>6. OtherInv'
    BY <1>1, <1>2, <1>3 DEF OtherInv
  <1>7. CreditInv'
    <2>1. begun \in Nat /\ failed \in Nat /\ breaks \in Nat
      BY DEF IInv, TypeOK
    <2>2. python \/ begun + failed <= breaks
      BY <1>1 DEF IInv, CreditInv, CanGreet
    <2>3. (python \/ main' # "dial") /\ ~hello'
      BY <1>1 DEF CanGreet, IInv, LoopInv, Connected
    <2>4. reason = "no good" => ToldHere'
      BY <1>1, <1>2, <1>3 DEF ToldHere, Connected
    <2>5. CASE reason = "no good"
      <3>1. failed' = failed + 1 /\ python' = python /\ begun' = begun /\ breaks' = breaks
        BY <1>1, <2>5
      <3>2. python \/ begun' + failed' <= 1 + breaks'
        BY <2>1, <2>2, <3>1
      <3>3. NoneLeft'
        BY <2>4, <2>5 DEF NoneLeft
      <3>. QED  BY <2>3, <3>1, <3>2, <3>3 DEF CreditInv
    <2>6. CASE reason # "no good"
      <3>1. failed' = failed /\ python' = python /\ begun' = begun /\ breaks' = breaks
        BY <1>1, <2>6
      <3>. QED  BY <2>1, <2>2, <2>3, <3>1 DEF CreditInv, NoneLeft
    <2>. QED  BY <2>5, <2>6
  <1>. QED  BY <1>4, <1>5, <1>6, <1>7 DEF IInv

LEMMA HelloAcceptedIInv ==
  ASSUME IInv, HelloAccepted
  PROVE  IInv'
  <1>1. /\ wire = <<>> /\ conn \notin agents \cup closing /\ conn \in Conn \cap sockets
        /\ \A h \in pending : h.of # conn
        /\ link /\ Connected /\ main # "ended" /\ hello
    BY ClientAssumption DEF HelloAccepted, CanGreet, IInv, TypeOK, HelloInv
  <1>2. TypeOK'
    <2>1. Flags /\ Agent /\ Others
      BY TypeParts DEF IInv
    <2>2. Flags'
      <3>1. /\ hello' = FALSE /\ in_use' = TRUE
            /\ UNCHANGED <<python, shutdown, fatalReject, open, link, unlimited, used, expired,
                           deaf>>
        BY DEF HelloAccepted, flags, net
      <3>. QED  BY <2>1, <3>1 DEF Flags
    <2>3. Agent'
      <3>1. UNCHANGED <<main, retryDelay, conn, reader, pending, wire>>
        BY DEF HelloAccepted, flags, net
      <3>. QED  BY <2>1, <3>1 DEF Agent
    <2>4. Others'
      BY <1>1, <2>1 DEF Others, HelloAccepted
    <2>. QED  BY <2>2, <2>3, <2>4, TypePartsNext
  <1>3. ServerInv' /\ LoopInv' /\ HelloInv'
    BY <1>1 DEF IInv, ServerInv, LoopInv, HelloInv, HelloAccepted
  <1>4. OtherInv'
    BY <1>1, Empty DEF OtherInv, HelloAccepted, net
  <1>5. CreditInv'
    <2>1. begun \in Nat /\ failed \in Nat /\ breaks \in Nat
      BY DEF IInv, TypeOK
    <2>2. python \/ begun + failed <= breaks
      BY <1>1 DEF IInv, CreditInv
    <2>3. /\ python \/ main' # "dial"
          /\ ~hello' /\ begun' = begun + 1
          /\ UNCHANGED <<python, failed, breaks>>
      BY <1>1 DEF HelloAccepted, IInv, LoopInv, Connected
    <2>4. ToldHere'
      BY <1>1 DEF ToldHere, Connected, HelloAccepted, net
    <2>. QED  BY <2>1, <2>2, <2>3, <2>4 DEF CreditInv, NoneLeft
  <1>. QED  BY <1>2, <1>3, <1>4, <1>5 DEF IInv

LEMMA ExpelIInv ==
  ASSUME IInv, NEW c \in Conn, Expel(c)
  PROVE  IInv'
  <1>1. /\ wire' \in Seq(Event)
        /\ HasOther(wire') <=> HasOther(wire)
        /\ HasFinal(wire) => HasFinal(wire')
        /\ c = conn /\ link => HasFinal(wire')
        /\ c # conn => wire' = wire
    BY Sending DEF IInv, TypeOK, Expel, Send, Event, Final
  <1>2. TypeOK'
    BY <1>1, BurnTypes
    DEF IInv, TypeOK, Expel, program, flags, socket, past
  <1>3. ServerInv' /\ LoopInv'
    BY BurnTypes DEF IInv, ServerInv, LoopInv, Expel, program, socket, past
  <1>4. HelloInv'
    BY <1>1 DEF IInv, HelloInv, Expel, program, socket
  <1>5. OtherInv'
    BY <1>1 DEF IInv, OtherInv, Expel, program, socket
  <1>6. CreditInv'
    BY <1>1 DEF IInv, CreditInv, NoneLeft, Told, ToldHere, Connected, Expel, program, flags,
                socket, past
  <1>. QED  BY <1>2, <1>3, <1>4, <1>5, <1>6 DEF IInv

\* A socket closes on the server's side while the agent's end is gone, or after
\* what the agent was told.
LEMMA SocketClosesIInv ==
  ASSUME IInv, NEW c \in Conn, DelayedDisconnect(c) \/ AgentGone(c)
  PROVE  IInv'
  <1>1. /\ SocketCloses(c)
        /\ UNCHANGED <<program, net, unlimited, expired, blocks, past>>
        /\ c \in closing \/ c # conn \/ ~Connected \/ ~link \/ main = "ended"
    BY DEF DelayedDisconnect, AgentGone
  <1>2. /\ in_use' \in BOOLEAN /\ used' \in BOOLEAN /\ use_count' \in 0 .. MaxUses
        /\ used' \/ unlimited \/ use_count' < MaxUses
    BY <1>1, BurnTypes DEF SocketCloses, IInv, TypeOK, ServerInv
  <1>3. TypeOK'
    BY <1>1, <1>2 DEF IInv, TypeOK, SocketCloses, program, flags, socket, net, past
  <1>4. ServerInv' /\ LoopInv' /\ HelloInv' /\ OtherInv'
    BY <1>1, <1>2
    DEF IInv, ServerInv, LoopInv, HelloInv, OtherInv, SocketCloses, program, socket, net, past
  <1>5. CreditInv'
    <2>1. ToldHere /\ ~python /\ main # "ended" => ToldHere'
      BY <1>1 DEF ToldHere, Connected, SocketCloses, program, socket, net
    <2>2. main = "ended" => begun + failed # 1 + breaks
      BY DEF IInv, TypeOK, LoopInv
    <2>. QED
      BY <1>1, <2>1, <2>2 DEF IInv, CreditInv, NoneLeft, Told, program, flags, socket, past
  <1>. QED  BY <1>3, <1>4, <1>5 DEF IInv

-----------------------------------------------------------------------------
\* The surroundings.

LEMMA SurroundingsIInv ==
  ASSUME IInv, LinkBreaks \/ ServerRestarts \/ ExpiryPasses
  PROVE  IInv'
  <1>1. CASE ExpiryPasses
    BY <1>1
    DEF ExpiryPasses, IInv, TypeOK, ServerInv, LoopInv, HelloInv, OtherInv, CreditInv, NoneLeft,
        Told, ToldHere, Connected, program, flags, socket, net, past
  <1>2. CASE LinkBreaks \/ ServerRestarts
    <2>1. /\ wire' = <<>> /\ breaks' = breaks + 1 /\ link' = FALSE /\ broken' = broken + 1
          /\ UNCHANGED <<program, begun, failed, deaf, runs>>
          /\ agents' \subseteq agents /\ closing' \subseteq closing
          /\ agents' \subseteq sockets' /\ sockets' \subseteq sockets
          /\ UNCHANGED <<unlimited, used, use_count, expired, blocks>>
          /\ in_use' \in BOOLEAN
      BY <1>2 DEF LinkBreaks, ServerRestarts, LoseConnection, IInv, TypeOK, ServerInv, server,
                  token
    <2>2. broken < MaxBreaks
      BY <1>2 DEF LinkBreaks, ServerRestarts
    <2>3. TypeOK'
      <3>1. Flags'
        BY <2>1, TypeParts DEF IInv, Flags, program, flags, socket
      <3>2. Agent'
        <4>1. <<>> \in Seq(Event)
          OBVIOUS
        <4>. QED  BY <2>1, <4>1, TypeParts DEF IInv, Agent, program, flags, socket
      <3>3. broken' \in 0 .. MaxBreaks /\ breaks' \in Nat
        BY <2>1, <2>2, TypeParts, ClientAssumption DEF IInv, Others
      <3>4. Others'
        BY <2>1, <3>3, TypeParts DEF IInv, Others
      <3>. QED  BY <3>1, <3>2, <3>4, TypePartsNext
    <2>4. ServerInv' /\ LoopInv' /\ HelloInv' /\ OtherInv'
      BY <2>1, Empty DEF IInv, ServerInv, LoopInv, HelloInv, OtherInv, program, socket
    <2>5. CreditInv'
      BY <2>1 DEF IInv, TypeOK, CreditInv, NoneLeft, program, socket
    <2>. QED  BY <2>3, <2>4, <2>5 DEF IInv
  <1>. QED  BY <1>1, <1>2

LEMMA StutterIInv ==
  ASSUME IInv, UNCHANGED vars
  PROVE  IInv'
  BY DEF IInv, TypeOK, ServerInv, LoopInv, HelloInv, OtherInv, CreditInv, NoneLeft, Told, ToldHere,
         Connected, vars, program, flags, socket, net, server, token, past

LEMMA NextIInv == IInv /\ [Next]_vars => IInv'
  BY StartProgramIInv, InterruptIInv, DialSucceedsIInv, DialFailsIInv, MainLoopIInv, ReaderIInv,
     HelloRejectedIInv, HelloAcceptedIInv, HandlerRunsIInv, ExpelIInv, SocketClosesIInv,
     SurroundingsIInv, StutterIInv
  DEF Next, Greeting

THEOREM IInvHolds == Spec => []IInv
  BY InitIInv, NextIInv, PTL DEF Spec

-----------------------------------------------------------------------------
\* The program, the network and the server are well typed.
THEOREM TypesAreCorrect == Spec => []TypeOK
  BY IInvHolds, PTL DEF IInv

\* In one run the Go agent gets a session or is charged with a failure once, and
\* once more for each loss of its connection.
THEOREM RetriesDoNoHarm == Spec => []RetriesAreHarmless
<1>1. IInv => RetriesAreHarmless
  BY DEF IInv, CreditInv, RetriesAreHarmless
<1>. QED  BY <1>1, IInvHolds, PTL
=============================================================================
