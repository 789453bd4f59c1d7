--------------------------- MODULE LogStreams_proofs ---------------------------
(***************************************************************************)
(* Proofs about LogStreams, for any number of threads and streams.         *)
(*                                                                         *)
(* That a stream can be stopped is an invariant that the commands which    *)
(* overlap keep by themselves: they note what they push out of the slot.   *)
(* A command on its own keeps it only because of what it found in the slot *)
(* one step before; AloneInv says what that is at each of its steps.       *)
(* The Go agent's commands are shown to keep the same in the same way; its *)
(* lock makes do with less.                                                *)
(***************************************************************************)
EXTENDS AgentStreams, TLAPS

\* What a handler has made and not yet started is a stream of its own, at rest.
NewInv ==
  \A h \in Handler :
    IF at[h] = "launch"
    THEN /\ new[h] \in Stream
         /\ stage[new[h]] = "none"
         /\ \A g \in Handler \ {h} : new[g] # new[h]
    ELSE new[h] = NoStream

\* A line sent after the Event was set was the last: the thread is about to test
\* the Event.
LateInv ==
  \A s \in Stream : late[s] = 0 \/ (late[s] = 1 /\ s \in is_set /\ stage[s] = "test")

\* What the slot holds at each step of a command that nothing overlapped.
AloneInv ==
  \A h \in alone \cap Busy :
    /\ Busy = {h}
    /\ at[h] = "set" => slot # NoStream
    /\ at[h] = "clear" => slot \in is_set
    /\ at[h] = "register" => slot = NoStream
    /\ at[h] = "launch" => slot = new[h] /\ slot \notin is_set \cup stray

\* Only a start command makes a stream.
StartInv ==
  \A h \in Handler : at[h] \in {"register", "launch"} => command[h] = "start"

IInv == TypeOK /\ NewInv /\ LateInv /\ AloneInv /\ StartInv /\ Stoppable

-----------------------------------------------------------------------------
LEMMA InitIInv == Init => IInv
  BY StreamAssumption
  DEF Init, IInv, TypeOK, Command, Stage, NewInv, LateInv, AloneInv, StartInv, Stoppable,
      Unstopped, Running, Busy

\* A step that moves one handler on, from one place to another.
LEMMA OthersStay ==
  ASSUME TypeOK, NEW h \in Handler, NEW where, Goto(h, where)
  PROVE  /\ at'[h] = where
         /\ \A g \in Handler \ {h} : at'[g] = at[g]
  BY DEF TypeOK, Goto

LEMMA BeginIInv ==
  ASSUME IInv, NEW h \in Handler, NEW cmd \in Command, Begin(h, cmd)
  PROVE  IInv'
  <1>1. at'[h] = "test" /\ \A g \in Handler \ {h} : at'[g] = at[g]
    BY OthersStay DEF IInv, Begin
  <1>2. TypeOK'
    BY DEF IInv, TypeOK, Begin, Goto, threads
  <1>3. NewInv' /\ StartInv'
    BY <1>1 DEF IInv, TypeOK, NewInv, StartInv, Begin, Busy, threads
  <1>4. LateInv' /\ Stoppable'
    BY DEF IInv, LateInv, Stoppable, Unstopped, Running, Begin, threads
  <1>5. AloneInv'
    BY <1>1 DEF AloneInv, Begin, Busy
  <1>. QED  BY <1>2, <1>3, <1>4, <1>5 DEF IInv

LEMMA TestIInv ==
  ASSUME IInv, NEW h \in Handler, Test(h)
  PROVE  IInv'
  <1>1. /\ at'[h] = IF slot # NoStream THEN "set"
                    ELSE IF command[h] = "start" THEN "register" ELSE "idle"
        /\ \A g \in Handler \ {h} : at'[g] = at[g]
    BY OthersStay DEF IInv, Test
  <1>2. TypeOK'
    BY DEF IInv, TypeOK, Test, Goto, threads
  <1>3. NewInv' /\ StartInv'
    BY <1>1 DEF IInv, TypeOK, NewInv, StartInv, Test, threads
  <1>4. LateInv' /\ Stoppable'
    BY DEF IInv, LateInv, Stoppable, Unstopped, Running, Test, threads
  <1>5. AloneInv'
    BY <1>1 DEF IInv, AloneInv, Test, Busy
  <1>. QED  BY <1>2, <1>3, <1>4, <1>5 DEF IInv

LEMMA SetEventIInv ==
  ASSUME IInv, NEW h \in Handler, SetEvent(h)
  PROVE  IInv'
  <1>1. /\ at'[h] = IF slot = NoStream THEN "idle" ELSE "clear"
        /\ \A g \in Handler \ {h} : at'[g] = at[g]
    BY OthersStay DEF IInv, SetEvent
  <1>2. TypeOK'
    BY DEF IInv, TypeOK, SetEvent, Goto, threads
  <1>3. NewInv' /\ StartInv'
    BY <1>1 DEF IInv, TypeOK, NewInv, StartInv, SetEvent, threads
  <1>4. is_set \subseteq is_set'
    BY DEF SetEvent
  <1>5. LateInv' /\ Stoppable'
    BY <1>4 DEF IInv, LateInv, Stoppable, Unstopped, Running, SetEvent, threads
  <1>6. AloneInv'
    BY <1>1 DEF IInv, AloneInv, SetEvent, Busy
  <1>. QED  BY <1>2, <1>3, <1>5, <1>6 DEF IInv

LEMMA ClearIInv ==
  ASSUME IInv, NEW h \in Handler, Clear(h)
  PROVE  IInv'
  <1>1. /\ at'[h] = IF command[h] = "start" THEN "register" ELSE "idle"
        /\ \A g \in Handler \ {h} : at'[g] = at[g]
    BY OthersStay DEF IInv, Clear
  <1>2. TypeOK'
    BY DEF IInv, TypeOK, Clear, Goto, Write, threads, Unstopped
  <1>3. NewInv' /\ StartInv' /\ LateInv'
    BY <1>1 DEF IInv, TypeOK, NewInv, StartInv, LateInv, Clear, threads
  <1>4. AloneInv'
    BY <1>1 DEF IInv, AloneInv, Clear, Write, Busy
  <1>5. Stoppable'
    <2>1. Unstopped' = Unstopped
      BY DEF Unstopped, Running, Clear, threads
    <2>2. h \in alone => slot \notin Unstopped
      BY DEF IInv, AloneInv, Busy, Clear, Unstopped
    <2>3. slot \in Unstopped => slot \in stray'
      BY <2>2, StreamAssumption DEF Clear, Write, Unstopped
    <2>4. stray \subseteq stray' \cup {NoStream}
      BY DEF Clear, Write
    <2>. QED  BY <2>1, <2>3, <2>4, StreamAssumption DEF IInv, Stoppable, Unstopped
  <1>. QED  BY <1>2, <1>3, <1>4, <1>5 DEF IInv

LEMMA RegisterIInv ==
  ASSUME IInv, NEW h \in Handler, NEW s \in Stream, Register(h, s)
  PROVE  IInv'
  <1>1. /\ at'[h] = "launch" /\ at[h] = "register"
        /\ \A g \in Handler \ {h} : at'[g] = at[g]
    BY OthersStay DEF IInv, Register
  <1>2. /\ new'[h] = s /\ \A g \in Handler \ {h} : new'[g] = new[g]
        /\ stage'[s] = "none" /\ \A r \in Stream \ {s} : stage'[r] = stage[r]
        /\ late'[s] = 0 /\ \A r \in Stream \ {s} : late'[r] = late[r]
        /\ slot' = s /\ is_set' = is_set \ {s}
        /\ command' = command /\ alone' = alone
        /\ \A g \in Handler : new[g] # s
    BY DEF IInv, TypeOK, Register, Write, Unknown
  <1>3. TypeOK'
    BY DEF IInv, TypeOK, Register, Goto, Write, Unstopped, Stage
  <1>4. NewInv'
    <2>1. SUFFICES ASSUME NEW g \in Handler
                   PROVE  IF at'[g] = "launch"
                          THEN /\ new'[g] \in Stream
                               /\ stage'[new'[g]] = "none"
                               /\ \A f \in Handler \ {g} : new'[f] # new'[g]
                          ELSE new'[g] = NoStream
      BY DEF NewInv
    <2>2. CASE g = h
      BY <1>1, <1>2, <2>2
    <2>3. CASE g # h
      BY <1>1, <1>2, <2>3 DEF IInv, NewInv
    <2>. QED  BY <2>2, <2>3
  <1>5. LateInv'
    BY <1>2 DEF IInv, LateInv
  <1>6. StartInv'
    BY <1>1, <1>2 DEF IInv, StartInv
  <1>7. AloneInv'
    <2>1. s \notin stray'
      BY DEF Register, Write
    <2>2. Busy' = Busy
      BY <1>1 DEF Busy
    <2>. QED  BY <1>1, <1>2, <2>1, <2>2 DEF IInv, AloneInv, Busy
  <1>8. Stoppable'
    <2>1. Unstopped' \subseteq Unstopped /\ s \notin Unstopped'
      BY <1>2 DEF Unstopped, Running
    <2>2. h \in alone => slot \notin Unstopped
      BY <1>1, StreamAssumption DEF IInv, AloneInv, Busy, Unstopped
    <2>3. slot \in Unstopped => slot \in stray' \cup {s}
      BY <2>2 DEF Register, Write
    <2>4. stray \subseteq stray' \cup {s}
      BY DEF Register, Write
    <2>. QED  BY <2>1, <2>3, <2>4 DEF IInv, Stoppable
  <1>. QED  BY <1>3, <1>4, <1>5, <1>6, <1>7, <1>8 DEF IInv

LEMMA LaunchIInv ==
  ASSUME IInv, NEW h \in Handler, Launch(h)
  PROVE  IInv'
  <1> DEFINE n == new[h]
  <1>1. /\ at[h] = "launch" /\ at'[h] = "idle"
        /\ \A g \in Handler \ {h} : at'[g] = at[g]
    BY OthersStay DEF IInv, Launch
  <1>2. n \in Stream /\ stage[n] = "none" /\ \A g \in Handler \ {h} : new[g] # n
    BY <1>1 DEF IInv, NewInv
  <1>3. /\ new'[h] = NoStream /\ \A g \in Handler \ {h} : new'[g] = new[g]
        /\ stage'[n] = "launched" /\ \A r \in Stream \ {n} : stage'[r] = stage[r]
        /\ slot' = slot /\ is_set' = is_set /\ late' = late
        /\ command' = command /\ alone' = alone
    BY <1>2 DEF IInv, TypeOK, Launch
  <1>4. TypeOK'
    BY <1>2 DEF IInv, TypeOK, Launch, Goto, Stage
  <1>5. NewInv'
    BY <1>1, <1>2, <1>3, StreamAssumption DEF IInv, NewInv
  <1>6. LateInv'
    BY <1>2, <1>3 DEF IInv, LateInv
  <1>7. StartInv'
    BY <1>1, <1>3 DEF IInv, StartInv
  <1>8. AloneInv'
    BY <1>1, <1>3 DEF IInv, AloneInv, Busy
  <1>9. Stoppable'
    <2>1. Unstopped' \subseteq Unstopped \cup {n}
      BY <1>3 DEF Unstopped, Running
    <2>2. stray \subseteq stray' /\ (n \in Unstopped' => n = slot \/ n \in stray')
      BY <1>3 DEF Unstopped, Launch
    <2>. QED  BY <1>3, <2>1, <2>2 DEF IInv, Stoppable
  <1>. QED  BY <1>4, <1>5, <1>6, <1>7, <1>8, <1>9 DEF IInv

\* What a stream's thread and its process do: the slot and the commands are left
\* alone, and no stream starts.
LEMMA ThreadIInv ==
  ASSUME IInv, NEW s \in Stream,
         Spawn(s) \/ TestEvent(s) \/ ReadLine(s) \/ Emit(s) \/ AdbDies(s)
  PROVE  IInv'
  <1>1. UNCHANGED <<slots, is_set, connected>>
    BY DEF Spawn, TestEvent, ReadLine, Emit, AdbDies
  <1>2. /\ \A r \in Stream \ {s} : stage'[r] = stage[r] /\ late'[r] = late[r]
        /\ stage[s] = "none" => stage'[s] = "none"
        /\ Running(s)' => Running(s)
    BY DEF IInv, TypeOK, Running, Spawn, TestEvent, ReadLine, Emit, AdbDies, End
  <1>3. TypeOK'
    BY <1>1 DEF IInv, TypeOK, Stage, slots, Spawn, TestEvent, ReadLine, Emit, AdbDies, End
  <1>4. NewInv'
    BY <1>1, <1>2 DEF IInv, NewInv, slots
  <1>5. LateInv'
    <2>1. late'[s] = 0 \/ (late'[s] = 1 /\ s \in is_set /\ stage'[s] = "test")
      BY DEF IInv, TypeOK, LateInv, Spawn, TestEvent, ReadLine, Emit, AdbDies, End
    <2>. QED  BY <1>1, <1>2, <2>1 DEF IInv, LateInv
  <1>6. StartInv' /\ AloneInv'
    BY <1>1 DEF IInv, StartInv, AloneInv, Busy, slots
  <1>7. Stoppable'
    <2>1. Unstopped' \subseteq Unstopped
      BY <1>1, <1>2 DEF Unstopped, Running
    <2>. QED  BY <1>1, <2>1 DEF IInv, Stoppable, slots
  <1>. QED  BY <1>3, <1>4, <1>5, <1>6, <1>7 DEF IInv

LEMMA NextIInv == IInv /\ [Next]_vars => IInv'
  <1> SUFFICES ASSUME IInv, [Next]_vars  PROVE IInv'
    OBVIOUS
  <1>1. ASSUME NEW h \in Handler, Handle(h)  PROVE IInv'
    BY <1>1, TestIInv, SetEventIInv, ClearIInv, LaunchIInv, RegisterIInv DEF Handle
  <1>2. ASSUME Connection \/ UNCHANGED vars  PROVE IInv'
    <2>1. UNCHANGED <<slots, threads, is_set>> /\ connected' \in BOOLEAN
      BY <1>2 DEF Connection, vars, slots, threads, IInv, TypeOK
    <2>2. TypeOK'
      BY <2>1 DEF IInv, TypeOK, slots, threads
    <2>3. NewInv' /\ LateInv' /\ StartInv'
      BY <2>1 DEF IInv, NewInv, LateInv, StartInv, slots, threads
    <2>4. AloneInv' /\ Stoppable'
      BY <2>1 DEF IInv, AloneInv, Stoppable, Unstopped, Running, Busy, slots, threads
    <2>. QED  BY <2>2, <2>3, <2>4 DEF IInv
  <1>. QED  BY <1>1, <1>2, BeginIInv, ThreadIInv DEF Next, Thread

THEOREM IInvHolds == Spec => []IInv
  BY InitIInv, NextIInv, PTL DEF Spec

-----------------------------------------------------------------------------
\* The slots, handlers and streams are well typed.
THEOREM TypesAreCorrect == Spec => []TypeOK
  BY IInvHolds, PTL DEF IInv

\* A running stream that was not told to stop is in the slot, unless commands
\* that overlapped pushed it out.
THEOREM StreamsAreStoppable == Spec => []Stoppable
  BY IInvHolds, PTL DEF IInv

\* A stream sends one line at most after its Event was set.
THEOREM OneLineIsLate == Spec => []OneMoreLine
<1>1. IInv => OneMoreLine
  BY DEF IInv, LateInv, OneMoreLine
<1>. QED  BY <1>1, IInvHolds, PTL

-----------------------------------------------------------------------------
\* A command on its own does what its name says.
Works(h) ==
  at'[h] = "idle" =>
    /\ at[h] # "set"
    /\ {s \in Unstopped' : s \notin stray'} = IF command[h] = "start" THEN {slot'} ELSE {}
    /\ command[h] = "stop" => slot' = NoStream

LEMMA AloneEnds ==
  ASSUME IInv, IInv', NEW h \in alone \cap Busy, [Next]_vars, at'[h] = "idle"
  PROVE  Test(h) \/ Clear(h) \/ Launch(h)
  <1>1. h \in Handler /\ at[h] # "idle" /\ at'[h] # at[h]
    BY DEF Busy
  <1>2. ASSUME NEW g \in Handler, NEW cmd \in Command, Begin(g, cmd)  PROVE FALSE
    BY <1>1, <1>2, OthersStay DEF IInv, Begin, Busy
  <1>3. ASSUME NEW g \in Handler, Handle(g)
        PROVE  Test(h) \/ Clear(h) \/ Launch(h)
    <2>1. g = h
      BY <1>1, <1>3, OthersStay
      DEF IInv, Handle, Test, SetEvent, Clear, Launch, Register
    <2>2. ~SetEvent(h)
      BY <1>1, OthersStay DEF IInv, AloneInv, SetEvent
    <2>3. \A s \in Stream : ~Register(h, s)
      BY <1>1, OthersStay DEF IInv, Register
    <2>. QED  BY <1>3, <2>1, <2>2, <2>3 DEF Handle
  <1>4. ASSUME NEW s \in Stream, Thread(s) \/ ReadLine(s) \/ AdbDies(s)  PROVE FALSE
    BY <1>1, <1>4 DEF Thread, Spawn, TestEvent, Emit, ReadLine, AdbDies, slots
  <1>5. ~(Connection \/ UNCHANGED vars)
    BY <1>1 DEF Connection, vars, slots
  <1>. QED  BY <1>2, <1>3, <1>4, <1>5 DEF Next

LEMMA AloneWorks ==
  ASSUME IInv, IInv', NEW h \in alone \cap Busy, [Next]_vars
  PROVE  Works(h)
  <1> SUFFICES ASSUME at'[h] = "idle"  PROVE Works(h)
    BY DEF Works
  <1>1. h \in Handler /\ command[h] \in Command
    BY DEF IInv, TypeOK, Busy
  <1>2. {s \in Unstopped' : s \notin stray'} \subseteq {slot'}
    BY DEF IInv, Stoppable
  <1>3. CASE Test(h)
    <2>1. at[h] = "test" /\ slot' = NoStream /\ command[h] # "start"
      BY <1>1, <1>3, OthersStay DEF IInv, Test
    <2>2. {s \in Unstopped' : s \notin stray'} = {}
      BY <1>2, <2>1, StreamAssumption DEF Unstopped
    <2>. QED  BY <2>1, <2>2 DEF Works
  <1>4. CASE Clear(h)
    <2>1. at[h] = "clear" /\ slot' = NoStream /\ command[h] # "start"
      BY <1>1, <1>4, OthersStay DEF IInv, Clear, Write
    <2>2. {s \in Unstopped' : s \notin stray'} = {}
      BY <1>2, <2>1, StreamAssumption DEF Unstopped
    <2>. QED  BY <2>1, <2>2 DEF Works
  <1>5. CASE Launch(h)
    <2>1. /\ at[h] = "launch" /\ command[h] = "start"
          /\ slot = new[h] /\ slot \in Stream /\ slot \notin is_set \cup stray
      BY <1>1, <1>5 DEF IInv, AloneInv, NewInv, StartInv, Launch
    <2>2. slot' = slot /\ is_set' = is_set /\ stray' = stray /\ stage'[slot] = "launched"
      BY <1>5, <2>1 DEF IInv, TypeOK, Launch
    <2>3. slot' \in Unstopped' /\ slot' \notin stray'
      BY <2>1, <2>2 DEF Unstopped, Running
    <2>. QED  BY <1>2, <2>1, <2>3 DEF Works
  <1>. QED  BY <1>3, <1>4, <1>5, AloneEnds

\* A command that nothing overlaps does not fail; a stop leaves nothing in the
\* slot, a start its own stream and no other that is not astray.
THEOREM AloneCommandsDoWork == Spec => AloneCommandsWork
<1>1. IInv /\ IInv' /\ [Next]_vars =>
        [\A h \in alone \cap Busy : Works(h)]_vars
  BY AloneWorks
<1>2. Spec => [][\A h \in alone \cap Busy : Works(h)]_vars
  BY <1>1, IInvHolds, PTL DEF Spec
<1>. QED  BY <1>2 DEF AloneCommandsWork, Works

-----------------------------------------------------------------------------
\* The Go agent.

\* What a command has made and not yet put into the slot is a stream of its own
\* that nothing has stopped.
GoNewInv ==
  \A h \in Handler :
    IF go_at[h] = "store"
    THEN /\ go_new[h] \in GoStream \ closed
         /\ go_new[h] # go_slot
         /\ \A g \in Handler \ {h} : go_new[g] # go_new[h]
    ELSE go_new[h] = NoStream

\* Only a start goes on after the kill, and without others it finds the slot
\* empty.
GoAloneInv ==
  /\ \A h \in Handler : go_at[h] \in {"spawn", "store"} => go_command[h] = "start"
  /\ \A h \in go_alone \cap Go!Busy :
       /\ Go!Busy = {h}
       /\ go_at[h] \in {"spawn", "store"} => go_slot = NoStream

GoInv == GoStreamsAreStoppable /\ GoNewInv /\ GoAloneInv

LEMMA GoInitInv ==
  ASSUME Go!Init
  PROVE  GoInv
  BY GoStreamAssumption
  DEF Go!Init, GoInv, GoStreamsAreStoppable, Go!TypeOK, Go!Command, Go!ClosedOnce,
      Go!Stoppable, Go!Unstopped, Go!Busy, GoNewInv, GoAloneInv

LEMMA GoOthersStay ==
  ASSUME Go!TypeOK, NEW h \in Handler, NEW where, Go!Goto(h, where)
  PROVE  /\ go_at'[h] = where
         /\ \A g \in Handler \ {h} : go_at'[g] = go_at[g]
  BY DEF Go!TypeOK, Go!Goto

LEMMA GoBeginInv ==
  ASSUME GoInv, NEW h \in Handler, NEW cmd \in Go!Command, Go!Begin(h, cmd)
  PROVE  GoInv'
  <1> USE DEF GoInv, GoStreamsAreStoppable
  <1>1. go_at'[h] = "kill" /\ \A g \in Handler \ {h} : go_at'[g] = go_at[g]
    BY GoOthersStay DEF Go!Begin
  <1>2. Go!TypeOK'
    BY DEF Go!TypeOK, Go!Begin, Go!Goto
  <1>3. Go!ClosedOnce' /\ Go!Stoppable'
    BY DEF Go!ClosedOnce, Go!Stoppable, Go!Unstopped, Go!Begin
  <1>4. GoNewInv'
    BY <1>1 DEF GoNewInv, Go!Begin, Go!Busy
  <1>5. GoAloneInv'
    <2>1. \A g \in Handler \ {h} : go_command'[g] = go_command[g]
      BY DEF Go!Begin, Go!TypeOK
    <2>2. Go!Busy' = Go!Busy \cup {h}
      BY <1>1 DEF Go!Busy
    <2>. QED  BY <1>1, <2>1, <2>2 DEF GoAloneInv, Go!Begin
  <1>. QED  BY <1>2, <1>3, <1>4, <1>5

LEMMA GoKillInv ==
  ASSUME GoInv, NEW h \in Handler, Go!Kill(h)
  PROVE  GoInv'
  <1> USE DEF GoInv, GoStreamsAreStoppable
  <1>1. /\ go_at'[h] = IF go_command[h] = "start" THEN "spawn" ELSE "idle"
        /\ \A g \in Handler \ {h} : go_at'[g] = go_at[g]
    BY GoOthersStay DEF Go!Kill
  <1>2. Go!TypeOK'
    BY DEF Go!TypeOK, Go!Kill, Go!Goto
  <1>3. Go!ClosedOnce'
    BY GoStreamAssumption DEF Go!ClosedOnce, Go!TypeOK, Go!Kill
  <1>4. Go!Stoppable'
    <2>1. Go!Unstopped' \subseteq Go!Unstopped \ {go_slot}
      BY DEF Go!Unstopped, Go!Kill
    <2>. QED  BY <2>1 DEF Go!Stoppable, Go!Kill
  <1>5. GoNewInv'
    BY <1>1, GoStreamAssumption DEF GoNewInv, Go!Kill
  <1>6. GoAloneInv'
    <2>1. h \in Go!Busy /\ Go!Busy' \subseteq Go!Busy
      BY <1>1 DEF Go!Busy, Go!Kill
    <2>2. Go!Busy' \in {Go!Busy, Go!Busy \ {h}}
      BY <1>1, <2>1 DEF Go!Busy
    <2>. QED  BY <1>1, <2>1, <2>2 DEF GoAloneInv, Go!Kill, Go!TypeOK
  <1>. QED  BY <1>2, <1>3, <1>4, <1>5, <1>6

LEMMA GoSpawnInv ==
  ASSUME GoInv, NEW h \in Handler, NEW s \in GoStream, Go!Spawn(h, s)
  PROVE  GoInv'
  <1> USE DEF GoInv, GoStreamsAreStoppable
  <1>1. go_at'[h] = "store" /\ \A g \in Handler \ {h} : go_at'[g] = go_at[g]
    BY GoOthersStay DEF Go!Spawn
  <1>2. /\ go_new'[h] = s /\ \A g \in Handler \ {h} : go_new'[g] = go_new[g]
        /\ go_slot # s /\ (\A g \in Handler : go_new[g] # s)
        /\ running' = running \cup {s} /\ closed' = closed \ {s}
        /\ go_stray' = go_stray \ {s} /\ UNCHANGED <<go_slot, go_command, go_alone>>
        /\ go_at[h] = "spawn"
    BY DEF Go!Spawn, Go!Unknown, Go!TypeOK
  <1>3. Go!TypeOK'
    BY DEF Go!TypeOK, Go!Spawn, Go!Goto
  <1>4. Go!ClosedOnce'
    BY <1>2 DEF Go!ClosedOnce
  <1>5. Go!Stoppable'
    <2>1. Go!Unstopped' \subseteq Go!Unstopped \cup {s}
      BY <1>2 DEF Go!Unstopped
    <2>2. ASSUME NEW g \in Handler, go_new[g] \in Go!Unstopped
          PROVE  go_new[g] \in {go_new'[k] : k \in Handler}
      <3>1. go_new[g] # NoStream
        BY <2>2, GoStreamAssumption DEF Go!Unstopped, Go!TypeOK
      <3>2. g # h
        BY <1>2, <3>1 DEF GoNewInv
      <3>. QED  BY <1>2, <3>2
    <2>3. s \in {go_new'[k] : k \in Handler}
      BY <1>2
    <2>4. ASSUME NEW t \in Go!Unstopped' \ go_stray', t # s
          PROVE  t \in {go_slot'} \cup {go_new'[k] : k \in Handler}
      <3>1. t \in {go_slot} \cup {go_new[k] : k \in Handler}
        BY <1>2, <2>1, <2>4 DEF Go!Stoppable
      <3>2. CASE t = go_slot
        BY <1>2, <3>2
      <3>3. CASE t \in {go_new[k] : k \in Handler}
        <4>1. PICK g \in Handler : t = go_new[g]
          BY <3>3
        <4>2. t \in Go!Unstopped
          BY <2>1, <2>4
        <4>. QED  BY <2>2, <4>1, <4>2
      <3>. QED  BY <3>1, <3>2, <3>3
    <2>. QED  BY <2>3, <2>4 DEF Go!Stoppable
  <1>6. GoNewInv'
    BY <1>1, <1>2, GoStreamAssumption DEF GoNewInv
  <1>7. GoAloneInv'
    <2>1. Go!Busy' = Go!Busy /\ h \in Go!Busy
      BY <1>1, <1>2 DEF Go!Busy
    <2>2. \A k \in Handler : go_at'[k] \in {"spawn", "store"} => go_command'[k] = "start"
      BY <1>1, <1>2 DEF GoAloneInv
    <2>3. ASSUME NEW k \in go_alone' \cap Go!Busy'
          PROVE  Go!Busy' = {k} /\ go_slot' = NoStream
      <3>1. k \in go_alone \cap Go!Busy
        BY <1>2, <2>1, <2>3
      <3>2. Go!Busy = {k}
        BY <3>1 DEF GoAloneInv
      <3>3. go_at[k] = "spawn"
        BY <1>2, <2>1, <3>2
      <3>. QED  BY <1>2, <2>1, <3>1, <3>2, <3>3 DEF GoAloneInv
    <2>. QED  BY <2>2, <2>3 DEF GoAloneInv
  <1>. QED  BY <1>3, <1>4, <1>5, <1>6, <1>7

LEMMA GoSpawnFailsInv ==
  ASSUME GoInv, NEW h \in Handler, Go!SpawnFails(h)
  PROVE  GoInv'
  <1> USE DEF GoInv, GoStreamsAreStoppable
  <1>1. go_at'[h] = "idle" /\ \A g \in Handler \ {h} : go_at'[g] = go_at[g]
    BY GoOthersStay DEF Go!SpawnFails
  <1>2. Go!TypeOK'
    BY DEF Go!TypeOK, Go!SpawnFails, Go!Goto
  <1>3. Go!ClosedOnce' /\ Go!Stoppable'
    BY DEF Go!ClosedOnce, Go!Stoppable, Go!Unstopped, Go!SpawnFails
  <1>4. GoNewInv'
    BY <1>1 DEF GoNewInv, Go!SpawnFails
  <1>5. GoAloneInv'
    <2>1. Go!Busy' = Go!Busy \ {h} /\ h \in Go!Busy
      BY <1>1 DEF Go!Busy, Go!SpawnFails
    <2>2. go_alone \cap Go!Busy' = {}
      BY <2>1 DEF GoAloneInv
    <2>3. UNCHANGED <<go_command, go_alone>>
      BY DEF Go!SpawnFails
    <2>. QED  BY <1>1, <2>2, <2>3 DEF GoAloneInv
  <1>. QED  BY <1>2, <1>3, <1>4, <1>5

LEMMA GoStoreInv ==
  ASSUME GoInv, NEW h \in Handler, Go!Store(h)
  PROVE  GoInv'
  <1> USE DEF GoInv, GoStreamsAreStoppable
  <1>1. go_at'[h] = "idle" /\ \A g \in Handler \ {h} : go_at'[g] = go_at[g]
    BY GoOthersStay DEF Go!Store
  <1>2. /\ go_new[h] \in GoStream \ closed /\ go_at[h] = "store" /\ h \in Go!Busy
        /\ \A g \in Handler \ {h} : go_new[g] # go_new[h]
    BY DEF GoNewInv, Go!Store, Go!Busy
  <1>3. /\ go_slot' = go_new[h] /\ go_new'[h] = NoStream
        /\ \A g \in Handler \ {h} : go_new'[g] = go_new[g]
        /\ UNCHANGED <<go_command, go_alone, running, closed>>
    BY DEF Go!Store, Go!TypeOK
  <1>4. Go!TypeOK'
    BY <1>2 DEF Go!TypeOK, Go!Store, Go!Goto, Go!Unstopped
  <1>5. Go!ClosedOnce'
    BY <1>2, <1>3 DEF Go!ClosedOnce
  <1>6. Go!Stoppable'
    <2>1. go_slot \in Go!Unstopped => go_slot \in go_stray'
      <3>1. ASSUME go_slot \in Go!Unstopped  PROVE h \notin go_alone
        <4>1. go_slot # NoStream
          BY <3>1, GoStreamAssumption DEF Go!Unstopped, Go!TypeOK
        <4>. QED  BY <1>2, <4>1 DEF GoAloneInv
      <3>. QED  BY <3>1 DEF Go!Store
    <2>2. go_stray \subseteq go_stray' /\ Go!Unstopped' = Go!Unstopped
      BY <1>3 DEF Go!Store, Go!Unstopped
    <2>. QED  BY <1>3, <2>1, <2>2 DEF Go!Stoppable
  <1>7. GoNewInv'
    BY <1>1, <1>2, <1>3, GoStreamAssumption DEF GoNewInv
  <1>8. GoAloneInv'
    <2>1. Go!Busy' = Go!Busy \ {h}
      BY <1>1 DEF Go!Busy
    <2>. QED  BY <1>1, <1>2, <1>3, <2>1 DEF GoAloneInv
  <1>. QED  BY <1>4, <1>5, <1>6, <1>7, <1>8

\* The readers and their processes leave the commands alone.
LEMMA GoReaderInv ==
  ASSUME GoInv, NEW s \in GoStream, Go!Reads(s) \/ Go!ReadLine(s) \/ Go!ProcessEnds(s)
  PROVE  GoInv'
  <1> USE DEF GoInv, GoStreamsAreStoppable
  <1>1. UNCHANGED <<Go!handlers, closed>> /\ running' \subseteq running
    BY DEF Go!Reads, Go!Select, Go!Emit, Go!ReadEnd, Go!ReadLine, Go!ProcessEnds
  <1>2. Go!TypeOK'
    <2>1. reader' \in [GoStream -> {"none", "scan", "select", "emit", "done"}]
      BY DEF Go!TypeOK, Go!Reads, Go!Select, Go!Emit, Go!ReadEnd, Go!ReadLine, Go!ProcessEnds
    <2>2. go_late' \in [GoStream -> 0..2]
      BY DEF Go!TypeOK, Go!Reads, Go!Select, Go!Emit, Go!ReadEnd, Go!ReadLine, Go!ProcessEnds
    <2>. QED  BY <1>1, <2>1, <2>2 DEF Go!TypeOK, Go!handlers
  <1>3. Go!ClosedOnce' /\ Go!Stoppable'
    BY <1>1 DEF Go!ClosedOnce, Go!Stoppable, Go!Unstopped, Go!handlers
  <1>4. GoNewInv' /\ GoAloneInv'
    BY <1>1 DEF GoNewInv, GoAloneInv, Go!Busy, Go!handlers
  <1>. QED  BY <1>2, <1>3, <1>4

LEMMA GoNextInv ==
  ASSUME GoInv, [Go!Next]_(Go!vars)
  PROVE  GoInv'
  <1>1. ASSUME NEW h \in Handler, Go!Handle(h)  PROVE GoInv'
    BY <1>1, GoKillInv, GoSpawnInv, GoSpawnFailsInv, GoStoreInv DEF Go!Handle
  <1>2. ASSUME NEW h \in Handler, NEW cmd \in Go!Command, Go!Begin(h, cmd)  PROVE GoInv'
    BY <1>2, GoBeginInv
  <1>3. ASSUME NEW s \in GoStream, Go!Reads(s) \/ Go!ReadLine(s) \/ Go!ProcessEnds(s)
        PROVE  GoInv'
    BY <1>3, GoReaderInv
  <1>4. CASE UNCHANGED Go!vars
    BY <1>4 DEF Go!vars, Go!handlers, GoInv, GoStreamsAreStoppable, Go!TypeOK, Go!ClosedOnce,
       Go!Stoppable, Go!Unstopped, GoNewInv, GoAloneInv, Go!Busy
  <1>. QED  BY <1>1, <1>2, <1>3, <1>4 DEF Go!Next

LEMMA GoInvHolds == Go!Spec => []GoInv
  BY GoInitInv, GoNextInv, PTL DEF Go!Spec

\* In the Go agent a stream that runs and was not stopped is in the slot or on its
\* way there, unless commands that overlapped pushed it out, and what is in the
\* slot was never closed: no kill closes a channel twice.
THEOREM GoStreamsCanBeStopped == Go!Spec => []GoStreamsAreStoppable
  BY GoInvHolds, PTL DEF GoInv

\* A Go command on its own does what its name says.
GoWorks(h) ==
  go_at'[h] = "idle" =>
    /\ Go!Unstopped' \ go_stray' \subseteq (IF go_command[h] = "start" THEN {go_slot'} ELSE {})
    /\ go_command[h] = "stop" => go_slot' = NoStream
    /\ go_at[h] = "store" => go_slot' = go_new[h]

LEMMA GoAloneEnds ==
  ASSUME GoInv, NEW h \in go_alone \cap Go!Busy, [Go!Next]_(Go!vars), go_at'[h] = "idle"
  PROVE  Go!Kill(h) \/ Go!SpawnFails(h) \/ Go!Store(h)
  <1>1. h \in Handler /\ go_at[h] # "idle" /\ go_at'[h] # go_at[h] /\ Go!TypeOK
    BY DEF Go!Busy, GoInv, GoStreamsAreStoppable
  <1>2. ASSUME NEW g \in Handler, NEW cmd \in Go!Command, Go!Begin(g, cmd)  PROVE FALSE
    BY <1>1, <1>2, GoOthersStay DEF Go!Begin, Go!Busy
  <1>3. ASSUME NEW g \in Handler, Go!Handle(g)
        PROVE  Go!Kill(h) \/ Go!SpawnFails(h) \/ Go!Store(h)
    <2>1. g = h
      BY <1>1, <1>3, GoOthersStay DEF Go!Handle, Go!Kill, Go!SpawnFails, Go!Store, Go!Spawn
    <2>2. \A s \in GoStream : ~Go!Spawn(h, s)
      BY <1>1, GoOthersStay DEF Go!Spawn
    <2>. QED  BY <1>3, <2>1, <2>2 DEF Go!Handle
  <1>4. ASSUME NEW s \in GoStream, Go!Reads(s) \/ Go!ReadLine(s) \/ Go!ProcessEnds(s)
        PROVE  FALSE
    BY <1>1, <1>4 DEF Go!Reads, Go!Select, Go!Emit, Go!ReadEnd, Go!ReadLine, Go!ProcessEnds,
       Go!handlers
  <1>5. ~(UNCHANGED Go!vars)
    BY <1>1 DEF Go!vars, Go!handlers
  <1>. QED  BY <1>2, <1>3, <1>4, <1>5 DEF Go!Next

LEMMA GoAloneWorks ==
  ASSUME GoInv, NEW h \in go_alone \cap Go!Busy, [Go!Next]_(Go!vars)
  PROVE  GoWorks(h)
  <1> SUFFICES ASSUME go_at'[h] = "idle"  PROVE GoWorks(h)
    BY DEF GoWorks
  <1> USE DEF GoInv, GoStreamsAreStoppable
  <1>1. /\ h \in Handler /\ Go!TypeOK /\ go_command[h] \in {"start", "stop"}
        /\ \A g \in Handler \ {h} : go_new[g] = NoStream
    BY DEF Go!TypeOK, Go!Command, Go!Busy, GoAloneInv, GoNewInv
  <1>2. Go!Unstopped \ go_stray \subseteq {go_slot, go_new[h]} /\ NoStream \notin Go!Unstopped
    BY <1>1, GoStreamAssumption DEF Go!Stoppable, Go!Unstopped, Go!TypeOK
  <1>3. CASE Go!Kill(h)
    <2>1. /\ go_at[h] = "kill" /\ go_slot' = NoStream /\ go_command[h] = "stop"
          /\ go_stray' = go_stray
      BY <1>1, <1>3, GoOthersStay DEF Go!Kill
    <2>2. Go!Unstopped' \subseteq Go!Unstopped \ {go_slot} /\ go_new[h] = NoStream
      BY <1>1, <1>3, <2>1 DEF Go!Unstopped, Go!Kill, GoNewInv
    <2>. QED  BY <1>2, <2>1, <2>2 DEF GoWorks
  <1>4. CASE Go!SpawnFails(h)
    <2>1. /\ go_at[h] = "spawn" /\ go_command[h] = "start" /\ go_new[h] = NoStream
          /\ UNCHANGED <<go_slot, go_stray, running, closed>>
      BY <1>1, <1>4 DEF Go!SpawnFails, GoAloneInv, GoNewInv
    <2>. QED  BY <1>2, <2>1 DEF GoWorks, Go!Unstopped
  <1>5. CASE Go!Store(h)
    <2>1. /\ go_at[h] = "store" /\ go_command[h] = "start" /\ go_slot = NoStream
          /\ go_slot' = go_new[h] /\ go_stray' = go_stray /\ UNCHANGED <<running, closed>>
      BY <1>1, <1>5 DEF Go!Store, GoAloneInv
    <2>. QED  BY <1>2, <2>1 DEF GoWorks, Go!Unstopped
  <1>. QED  BY <1>3, <1>4, <1>5, GoAloneEnds

\* A Go command that nothing overlaps leaves nothing that can be stopped but its
\* own stream, and after a stop an empty slot.
THEOREM GoCommandsDoWork == Go!Spec => Go!AloneCommandsWork
<1>1. GoInv /\ [Go!Next]_(Go!vars) => [\A h \in go_alone \cap Go!Busy : GoWorks(h)]_(Go!vars)
  BY GoAloneWorks
<1>2. Go!Spec => [][\A h \in go_alone \cap Go!Busy : GoWorks(h)]_(Go!vars)
  BY <1>1, GoInvHolds, PTL DEF Go!Spec
<1>. QED  BY <1>2 DEF Go!AloneCommandsWork, GoWorks
=============================================================================
