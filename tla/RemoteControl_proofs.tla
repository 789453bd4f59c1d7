------------------------- MODULE RemoteControl_proofs -------------------------
(***************************************************************************)
(* Proofs that RemoteControl keeps its safety properties for every number  *)
(* of browsers, operators and codes and every MaxLag.                      *)
(*                                                                         *)
(* PairsAreInverse and PairsAreConnected are proved together with the      *)
(* types: a socket that closes clears its own entries, and only because    *)
(* the tables are inverse are those all that name it.  NoStaleActive is    *)
(* not inductive: it speaks of pages whose messages are all in.  What the  *)
(* steps preserve is about the messages on their way, ActiveUntilTold.     *)
(*                                                                         *)
(* Then that the page restores USB modes and selects matched devices, for  *)
(* every number of devices, modes and operations (PortsInv: where a mode   *)
(* may differ from the device's own, and who remembers it, at each step of *)
(* an operation that nothing overlaps), and that its engines show what was *)
(* chosen for the selected device (EngInv).                                *)
(***************************************************************************)
EXTENDS Page, TLAPS

\* What a page shows when an initial part of its messages is in and none of the
\* rest says otherwise, is so.
ActiveUntilTold ==
  \A b \in Browser \cap online :
    /\ ui[b] = "active"
         /\ (\A i \in 1..Len(to_browser[b]) : to_browser[b][i] # "inactive")
       => b \in rc_active
    /\ \A n \in 1..Len(to_browser[b]) :
         /\ to_browser[b][n] = "active"
         /\ \A i \in 1..Len(to_browser[b]) : i > n => to_browser[b][i] # "inactive"
         => b \in rc_active

\* The inductive invariant.
Tables == TypeOK /\ PairsAreInverse /\ PairsAreConnected
IInv == Tables /\ ActiveUntilTold

-----------------------------------------------------------------------------
\* Facts about the steps the handlers share.

\* An operator that is released leaves the tables well formed.
LEMMA ReleaseBrowserKeeps ==
  ASSUME Tables, NEW k \in Controller, ReleaseBrowser(k)
  PROVE  /\ controller_browser' = [controller_browser EXCEPT ![k] = NoBrowser]
         /\ browser_controller' \in [Browser -> Controller \cup {NoController}]
         /\ rc_active' \subseteq rc_active
         /\ to_browser' \in [Browser -> Seq(BrowserMessage)]
         /\ PairsAreInverse'
         /\ \A b \in Browser :
              browser_controller'[b] \in {browser_controller[b], NoController}
         /\ \A b \in Browser : \/ /\ to_browser'[b] = to_browser[b]
                                  /\ b \in rc_active => b \in rc_active'
                               \/ to_browser'[b] = Append(to_browser[b], "inactive")
  <1> USE SidAssumption DEF Tables, TypeOK, PairsAreInverse, partners, BrowserMessage
  <1>1. CASE controller_browser[k] = NoBrowser /\ UNCHANGED <<partners, to_browser>>
    BY <1>1
  <1>2. ASSUME NEW b \in Browser,
               controller_browser[k] = b,
               controller_browser' = [controller_browser EXCEPT ![k] = NoBrowser],
               browser_controller' = [browser_controller EXCEPT ![b] = NoController],
               rc_active' = rc_active \ {b},
               TellBrowser(b, "inactive")
        PROVE  /\ controller_browser' = [controller_browser EXCEPT ![k] = NoBrowser]
               /\ browser_controller' \in [Browser -> Controller \cup {NoController}]
               /\ rc_active' \subseteq rc_active
               /\ to_browser' \in [Browser -> Seq(BrowserMessage)]
               /\ PairsAreInverse'
               /\ \A c \in Browser :
                    browser_controller'[c] \in {browser_controller[c], NoController}
               /\ \A c \in Browser : \/ /\ to_browser'[c] = to_browser[c]
                                        /\ c \in rc_active => c \in rc_active'
                                     \/ to_browser'[c] = Append(to_browser[c], "inactive")
    <2>1. to_browser' = [to_browser EXCEPT ![b] = Append(@, "inactive")]
      BY <1>2 DEF TellBrowser
    <2>2. to_browser' \in [Browser -> Seq(BrowserMessage)]
      BY <2>1
    <2>3. PairsAreInverse'
      BY <1>2
    <2>. QED  BY <1>2, <2>1, <2>2, <2>3
  <1>. QED  BY <1>1, <1>2 DEF ReleaseBrowser

\* So does a browser that is released.
LEMMA ReleaseControllerKeeps ==
  ASSUME Tables, NEW b \in Browser, ReleaseController(b)
  PROVE  /\ controller_browser' \in [Controller -> Browser \cup {NoBrowser}]
         /\ browser_controller' = [browser_controller EXCEPT ![b] = NoController]
         /\ rc_active' = rc_active \ {b}
         /\ to_ctrl' \in [Controller -> Seq(CtrlMessage)]
         /\ PairsAreInverse'
         /\ \A k \in Controller :
              controller_browser'[k] \in {controller_browser[k], NoBrowser}
  <1> USE SidAssumption DEF Tables, TypeOK, PairsAreInverse, CtrlMessage
  <1>1. rc_active' = rc_active \ {b}
    BY DEF ReleaseController
  <1>2. CASE /\ browser_controller[b] = NoController
             /\ UNCHANGED <<browser_controller, controller_browser, to_ctrl>>
    BY <1>1, <1>2
  <1>3. ASSUME NEW k \in Controller,
               browser_controller[b] = k,
               browser_controller' = [browser_controller EXCEPT ![b] = NoController],
               controller_browser' = [controller_browser EXCEPT ![k] = NoBrowser],
               TellCtrl(k, "ended")
        PROVE  /\ controller_browser' \in [Controller -> Browser \cup {NoBrowser}]
               /\ browser_controller' = [browser_controller EXCEPT ![b] = NoController]
               /\ to_ctrl' \in [Controller -> Seq(CtrlMessage)]
               /\ PairsAreInverse'
               /\ \A j \in Controller :
                    controller_browser'[j] \in {controller_browser[j], NoBrowser}
    <2>1. to_ctrl' = [to_ctrl EXCEPT ![k] = Append(@, "ended")]
      BY <1>3 DEF TellCtrl
    <2>2. to_ctrl' \in [Controller -> Seq(CtrlMessage)]
      BY <2>1
    <2>3. PairsAreInverse'
      BY <1>3
    <2>4. /\ controller_browser' \in [Controller -> Browser \cup {NoBrowser}]
          /\ \A j \in Controller :
               controller_browser'[j] \in {controller_browser[j], NoBrowser}
      BY <1>3
    <2>. QED  BY <1>3, <2>2, <2>3, <2>4
  <1>. QED  BY <1>1, <1>2, <1>3 DEF ReleaseController

\* A message that is appended, unless it says "active" of a browser that is not,
\* leaves ActiveUntilTold alone.
LEMMA TellingKeeps ==
  ASSUME Tables, ActiveUntilTold,
         Browser \cap online' \subseteq online,
         \A b \in Browser \cap online' : ui'[b] = "active" => ui[b] = "active",
         \A b \in Browser \cap online' :
           \/ /\ to_browser'[b] = to_browser[b]
              /\ b \in rc_active => b \in rc_active'
           \/ to_browser'[b] = Append(to_browser[b], "inactive")
           \/ /\ to_browser'[b] = Append(to_browser[b], "active")
              /\ b \in rc_active'
           \/ /\ to_browser'[b] = Append(to_browser[b], "cmd")
              /\ b \in rc_active => b \in rc_active'
  PROVE  ActiveUntilTold'
  <1> SUFFICES ASSUME NEW b \in Browser \cap online'
               PROVE  /\ ui'[b] = "active"
                           /\ (\A i \in 1..Len(to_browser'[b]) :
                                 to_browser'[b][i] # "inactive")
                         => b \in rc_active'
                      /\ \A n \in 1..Len(to_browser'[b]) :
                           /\ to_browser'[b][n] = "active"
                           /\ \A i \in 1..Len(to_browser'[b]) :
                                i > n => to_browser'[b][i] # "inactive"
                           => b \in rc_active'
    BY DEF ActiveUntilTold
  <1> DEFINE q == to_browser[b]
  <1>1. q \in Seq(BrowserMessage)
    BY DEF Tables, TypeOK
  <1>2. /\ ui[b] = "active" /\ (\A i \in 1..Len(q) : q[i] # "inactive")
             => b \in rc_active
        /\ \A n \in 1..Len(q) :
             /\ q[n] = "active"
             /\ \A i \in 1..Len(q) : i > n => q[i] # "inactive"
             => b \in rc_active
    BY DEF ActiveUntilTold
  <1>3. CASE to_browser'[b] = q /\ (b \in rc_active => b \in rc_active')
    BY <1>2, <1>3
  <1>4. CASE to_browser'[b] = Append(q, "inactive")
    <2>1. /\ Len(to_browser'[b]) = Len(q) + 1
          /\ Len(q) \in Nat
          /\ to_browser'[b][Len(q) + 1] = "inactive"
      BY <1>1, <1>4
    <2>. QED  BY <2>1
  <1>5. CASE to_browser'[b] = Append(q, "active") /\ b \in rc_active'
    BY <1>5
  <1>6. CASE to_browser'[b] = Append(q, "cmd") /\ (b \in rc_active => b \in rc_active')
    <2>1. /\ Len(to_browser'[b]) = Len(q) + 1
          /\ Len(q) \in Nat
          /\ to_browser'[b][Len(q) + 1] = "cmd"
          /\ \A i \in 1..Len(q) : to_browser'[b][i] = q[i]
      BY <1>1, <1>6
    <2>2. ASSUME ui'[b] = "active",
                 \A i \in 1..Len(to_browser'[b]) : to_browser'[b][i] # "inactive"
          PROVE  b \in rc_active'
      BY <2>1, <2>2, <1>2, <1>6
    <2>3. ASSUME NEW n \in 1..Len(to_browser'[b]),
                 to_browser'[b][n] = "active",
                 \A i \in 1..Len(to_browser'[b]) :
                   i > n => to_browser'[b][i] # "inactive"
          PROVE  b \in rc_active'
      <3>1. n \in 1..Len(q) /\ q[n] = "active"
        BY <2>1, <2>3
      <3>2. \A i \in 1..Len(q) : i > n => q[i] # "inactive"
        BY <2>1, <2>3
      <3>. QED  BY <3>1, <3>2, <1>2, <1>6
    <2>. QED  BY <2>2, <2>3
  <1>. QED  BY <1>3, <1>4, <1>5, <1>6

\* The operator's socket closes.
LEMMA DropControllerKeeps ==
  ASSUME IInv, NEW k \in Controller, DropController(k),
         closing' \subseteq Controller, UNCHANGED <<relay, ui>>
  PROVE  IInv'
  <1> USE SidAssumption DEF IInv
  <1>1. /\ ReleaseBrowser(k)
        /\ watching' = [watching EXCEPT ![k] = NoCode]
        /\ online' = online \ {k}
        /\ cli' = [cli EXCEPT ![k] = "off"]
        /\ request' = request \ {k}
        /\ session_active' = session_active \ {k}
        /\ to_ctrl' = [to_ctrl EXCEPT ![k] = <<>>]
    BY DEF DropController
  <1>2. /\ controller_browser' = [controller_browser EXCEPT ![k] = NoBrowser]
        /\ browser_controller' \in [Browser -> Controller \cup {NoController}]
        /\ rc_active' \subseteq rc_active
        /\ to_browser' \in [Browser -> Seq(BrowserMessage)]
        /\ PairsAreInverse'
        /\ \A b \in Browser :
             browser_controller'[b] \in {browser_controller[b], NoController}
        /\ \A b \in Browser : \/ /\ to_browser'[b] = to_browser[b]
                                 /\ b \in rc_active => b \in rc_active'
                              \/ to_browser'[b] = Append(to_browser[b], "inactive")
    BY <1>1, ReleaseBrowserKeeps
  <1>3. TypeOK'
    BY <1>1, <1>2 DEF Tables, TypeOK, relay, CliState
  <1>4. PairsAreConnected'
    BY <1>1, <1>2 DEF Tables, TypeOK, PairsAreConnected
  <1>5. ActiveUntilTold'
    BY <1>1, <1>2, TellingKeeps
  <1>. QED  BY <1>2, <1>3, <1>4, <1>5 DEF Tables

-----------------------------------------------------------------------------
\* A step that leaves the partners, what is online and the pages alone.
LEMMA BystanderKeeps ==
  ASSUME IInv, TypeOK', UNCHANGED <<watching, partners, ui, to_browser, online>>
  PROVE  IInv'
  <1>1. PairsAreInverse' /\ PairsAreConnected'
    BY DEF IInv, Tables, PairsAreInverse, PairsAreConnected, partners
  <1>2. ActiveUntilTold'
    BY DEF IInv, ActiveUntilTold, partners
  <1>. QED  BY <1>1, <1>2 DEF IInv, Tables

\* Agents and pairings.
LEMMA AgentStepKeeps ==
  ASSUME IInv, NEW c \in Code,
         AgentStarts(c) \/ AgentEnds(c) \/ \E b \in Browser : BrowserPairs(b, c)
  PROVE  IInv'
  <1>1. TypeOK' /\ UNCHANGED <<watching, partners, ui, to_browser, online>>
    BY DEF IInv, Tables, TypeOK, AgentStarts, AgentEnds, BrowserPairs, server, program,
           partners, CliState
  <1>. QED  BY <1>1, BystanderKeeps

\* Everything the browser does but pairing.
LEMMA BrowserStepKeeps ==
  ASSUME IInv, NEW b \in Browser,
         \/ BrowserConnect(b) \/ BrowserDisconnect(b) \/ RequestControl(b)
         \/ StopRequest(b) \/ BrowserEndsControl(b) \/ BrowserReceives(b)
  PROVE  IInv'
  <1> USE SidAssumption DEF IInv
  <1>1. CASE BrowserConnect(b)
    <2>1. /\ TypeOK'
          /\ to_browser' = [to_browser EXCEPT ![b] = Append(@, "inactive")]
          /\ online' = online \cup {b} /\ UNCHANGED <<watching, partners, ui>>
      BY <1>1 DEF BrowserConnect, TellBrowser, Tables, TypeOK, relay, server, program,
                  partners, CliState, BrowserMessage
    <2>2. PairsAreInverse' /\ PairsAreConnected'
      BY <2>1 DEF Tables, PairsAreInverse, PairsAreConnected, partners
    <2>3. /\ to_browser[b] \in Seq(BrowserMessage)
          /\ to_browser'[b] = Append(to_browser[b], "inactive")
      BY <2>1 DEF Tables, TypeOK
    <2>4. /\ Len(to_browser'[b]) = Len(to_browser[b]) + 1
          /\ Len(to_browser[b]) \in Nat
          /\ to_browser'[b][Len(to_browser[b]) + 1] = "inactive"
      BY <2>3
    <2>5. ActiveUntilTold'
      <3>1. ASSUME NEW c \in Browser \cap online', c # b
            PROVE  c \in online /\ to_browser'[c] = to_browser[c]
        BY <2>1, <3>1 DEF Tables, TypeOK
      <3>. QED  BY <2>1, <2>4, <3>1 DEF ActiveUntilTold, partners
    <2>. QED  BY <2>1, <2>2, <2>5 DEF Tables
  <1>2. CASE BrowserDisconnect(b)
    <2>1. /\ b \in online
          /\ online' = online \ {b}
          /\ paired_code' = [paired_code EXCEPT ![b] = NoCode]
          /\ ReleaseController(b)
          /\ to_browser' = [to_browser EXCEPT ![b] = <<>>]
          /\ UNCHANGED <<agents, watching, closing, program, ui>>
      BY <1>2 DEF BrowserDisconnect
    <2>2. /\ controller_browser' \in [Controller -> Browser \cup {NoBrowser}]
          /\ browser_controller' = [browser_controller EXCEPT ![b] = NoController]
          /\ rc_active' = rc_active \ {b}
          /\ to_ctrl' \in [Controller -> Seq(CtrlMessage)]
          /\ PairsAreInverse'
          /\ \A k \in Controller :
               controller_browser'[k] \in {controller_browser[k], NoBrowser}
      BY <2>1, ReleaseControllerKeeps
    <2>3. TypeOK'
      BY <2>1, <2>2 DEF Tables, TypeOK, program, CliState, BrowserMessage
    <2>4. PairsAreConnected'
      BY <2>1, <2>2 DEF Tables, TypeOK, PairsAreConnected
    <2>5. ActiveUntilTold'
      BY <2>1, <2>2, TellingKeeps DEF Tables, TypeOK
    <2>. QED  BY <2>2, <2>3, <2>4, <2>5 DEF Tables
  <1>3. CASE RequestControl(b)
    <2>1. /\ b \in online
          /\ ui' = [ui EXCEPT ![b] = "requesting"]
          /\ UNCHANGED <<relay, online, watching, closing, program, rc_active>>
      BY <1>3 DEF RequestControl, RequestRefused, RequestGranted, partners
    <2>2. CASE RequestRefused(b)
      <3>1. /\ to_browser' = [to_browser EXCEPT ![b] = Append(@, "inactive")]
            /\ UNCHANGED <<partners, to_ctrl>>
        BY <2>2 DEF RequestRefused, TellBrowser
      <3>2. TypeOK'
        BY <2>1, <3>1 DEF Tables, TypeOK, relay, program, partners, CliState,
                          BrowserMessage
      <3>3. PairsAreInverse' /\ PairsAreConnected'
        BY <2>1, <3>1 DEF Tables, PairsAreInverse, PairsAreConnected, partners
      <3>4. ActiveUntilTold'
        BY <2>1, <3>1, TellingKeeps DEF Tables, TypeOK
      <3>. QED  BY <3>2, <3>3, <3>4 DEF Tables
    <2>3. CASE RequestGranted(b)
      <3>1. PICK k \in Controller :
              /\ browser_controller[b] = NoController
              /\ paired_code[b] # NoCode
              /\ watching[k] = paired_code[b]
              /\ controller_browser[k] = NoBrowser
              /\ controller_browser' = [controller_browser EXCEPT ![k] = b]
              /\ browser_controller' = [browser_controller EXCEPT ![b] = k]
              /\ to_ctrl' = [to_ctrl EXCEPT ![k] = Append(@, "request")]
              /\ UNCHANGED to_browser
        BY <2>3 DEF RequestGranted, TellCtrl
      <3>2. TypeOK'
        BY <2>1, <3>1 DEF Tables, TypeOK, relay, program, CliState, CtrlMessage
      <3>3. PairsAreInverse'
        BY <3>1 DEF Tables, TypeOK, PairsAreInverse
      <3>4. PairsAreConnected'
        BY <2>1, <3>1 DEF Tables, TypeOK, PairsAreConnected
      <3>5. ActiveUntilTold'
        BY <2>1, <3>1, TellingKeeps DEF Tables, TypeOK
      <3>. QED  BY <3>2, <3>3, <3>4, <3>5 DEF Tables
    <2>. QED  BY <1>3, <2>2, <2>3 DEF RequestControl
  <1>4. CASE StopRequest(b)
    <2>1. TypeOK' /\ UNCHANGED <<online, watching, partners, to_browser>>
      BY <1>4 DEF StopRequest, Tables, TypeOK, relay, server, program, partners, CliState
    <2>2. PairsAreInverse' /\ PairsAreConnected'
      BY <2>1 DEF Tables, PairsAreInverse, PairsAreConnected, partners
    <2>3. ActiveUntilTold'
      BY <1>4, <2>1, TellingKeeps DEF StopRequest, Tables, TypeOK, partners
    <2>. QED  BY <2>1, <2>2, <2>3 DEF Tables
  <1>5. CASE BrowserEndsControl(b)
    <2>1. /\ ReleaseController(b)
          /\ to_browser' = [to_browser EXCEPT ![b] = Append(@, "inactive")]
          /\ UNCHANGED <<relay, online, watching, closing, program, ui>>
      BY <1>5 DEF BrowserEndsControl, TellBrowser
    <2>2. /\ controller_browser' \in [Controller -> Browser \cup {NoBrowser}]
          /\ browser_controller' = [browser_controller EXCEPT ![b] = NoController]
          /\ rc_active' = rc_active \ {b}
          /\ to_ctrl' \in [Controller -> Seq(CtrlMessage)]
          /\ PairsAreInverse'
          /\ \A k \in Controller :
               controller_browser'[k] \in {controller_browser[k], NoBrowser}
      BY <2>1, ReleaseControllerKeeps
    <2>3. TypeOK'
      BY <2>1, <2>2 DEF Tables, TypeOK, relay, program, CliState, BrowserMessage
    <2>4. PairsAreConnected'
      BY <2>1, <2>2 DEF Tables, TypeOK, PairsAreConnected
    <2>5. ActiveUntilTold'
      BY <2>1, <2>2, TellingKeeps DEF Tables, TypeOK
    <2>. QED  BY <2>2, <2>3, <2>4, <2>5 DEF Tables
  <1>6. CASE BrowserReceives(b)
    <2> DEFINE q == to_browser[b]
    <2>1. /\ q \in Seq(BrowserMessage) /\ q # <<>> /\ b \in online
          /\ to_browser' = [to_browser EXCEPT ![b] = Tail(q)]
          /\ ui' = [ui EXCEPT ![b] = CASE Head(q) = "active"   -> "active"
                                       [] Head(q) = "inactive" -> "idle"
                                       [] OTHER -> ui[b]]
          /\ UNCHANGED <<relay, online, watching, partners, closing, program, to_ctrl>>
      BY <1>6 DEF BrowserReceives, Tables, TypeOK, server
    <2>2. /\ Head(q) = q[1] /\ Len(q) \in Nat /\ 1 \in 1..Len(q)
          /\ Len(Tail(q)) = Len(q) - 1
          /\ \A i \in 1..Len(Tail(q)) : Tail(q)[i] = q[i + 1]
          /\ Tail(q) \in Seq(BrowserMessage)
      BY <2>1
    <2>3. TypeOK'
      BY <2>1, <2>2 DEF Tables, TypeOK, relay, partners, program, CliState
    <2>4. PairsAreInverse' /\ PairsAreConnected'
      BY <2>1 DEF Tables, PairsAreInverse, PairsAreConnected, partners
    <2>5. /\ to_browser'[b] = Tail(q)
          /\ ui'[b] = "active" =>
               q[1] = "active" \/ (ui[b] = "active" /\ q[1] # "inactive")
          /\ \A c \in Browser \ {b} : to_browser'[c] = to_browser[c] /\ ui'[c] = ui[c]
      BY <2>1, <2>2 DEF Tables, TypeOK
    <2>6. /\ ui[b] = "active" /\ (\A i \in 1..Len(q) : q[i] # "inactive")
               => b \in rc_active
          /\ \A n \in 1..Len(q) :
               /\ q[n] = "active"
               /\ \A i \in 1..Len(q) : i > n => q[i] # "inactive"
               => b \in rc_active
      BY <2>1 DEF ActiveUntilTold
    <2>7. ASSUME ui'[b] = "active",
                 \A i \in 1..Len(Tail(q)) : Tail(q)[i] # "inactive"
          PROVE  b \in rc_active
      <3>1. \A i \in 1..Len(q) : i > 1 => q[i] # "inactive"
        <4>1. ASSUME NEW i \in 1..Len(q), i > 1  PROVE q[i] # "inactive"
          <5>1. i - 1 \in 1..Len(Tail(q)) /\ (i - 1) + 1 = i
            BY <2>2, <4>1
          <5>. QED  BY <5>1, <2>2, <2>7
        <4>. QED  BY <4>1
      <3>2. CASE q[1] = "active"
        BY <2>2, <2>6, <3>1, <3>2
      <3>3. CASE ui[b] = "active" /\ q[1] # "inactive"
        <4>1. \A i \in 1..Len(q) : q[i] # "inactive"
          BY <2>2, <3>1, <3>3
        <4>. QED  BY <2>6, <3>3, <4>1
      <3>. QED  BY <2>5, <2>7, <3>2, <3>3
    <2>8. ASSUME NEW n \in 1..Len(Tail(q)), Tail(q)[n] = "active",
                 \A i \in 1..Len(Tail(q)) : i > n => Tail(q)[i] # "inactive"
          PROVE  b \in rc_active
      <3>1. n + 1 \in 1..Len(q) /\ q[n + 1] = "active"
        BY <2>2, <2>8
      <3>2. ASSUME NEW i \in 1..Len(q), i > n + 1  PROVE q[i] # "inactive"
        <4>1. i - 1 \in 1..Len(Tail(q)) /\ i - 1 > n /\ (i - 1) + 1 = i
          BY <2>2, <3>2
        <4>. QED  BY <4>1, <2>2, <2>8
      <3>. QED  BY <3>1, <3>2, <2>6
    <2>9. ActiveUntilTold'
      <3>. SUFFICES ASSUME NEW c \in Browser \cap online'
           PROVE  /\ ui'[c] = "active"
                       /\ (\A i \in 1..Len(to_browser'[c]) :
                             to_browser'[c][i] # "inactive")
                     => c \in rc_active
                  /\ \A n \in 1..Len(to_browser'[c]) :
                       /\ to_browser'[c][n] = "active"
                       /\ \A i \in 1..Len(to_browser'[c]) :
                            i > n => to_browser'[c][i] # "inactive"
                       => c \in rc_active
        BY <2>1 DEF ActiveUntilTold, partners
      <3>1. CASE c # b
        <4>1. to_browser'[c] = to_browser[c] /\ ui'[c] = ui[c] /\ c \in Browser \cap online
          BY <2>1, <2>5, <3>1
        <4>. QED  BY <4>1 DEF ActiveUntilTold
      <3>2. CASE c = b
        <4>1. to_browser'[c] = Tail(q) /\ ui'[c] = ui'[b]
          BY <2>5, <3>2
        <4>2. ASSUME ui'[c] = "active", \A i \in 1..Len(Tail(q)) : Tail(q)[i] # "inactive"
              PROVE  c \in rc_active
          BY <2>7, <3>2, <4>1, <4>2
        <4>3. ASSUME NEW n \in 1..Len(Tail(q)), Tail(q)[n] = "active",
                     \A i \in 1..Len(Tail(q)) : i > n => Tail(q)[i] # "inactive"
              PROVE  c \in rc_active
          BY <2>8, <3>2, <4>3
        <4>. QED  BY <4>1, <4>2, <4>3
      <3>. QED  BY <3>1, <3>2
    <2>. QED  BY <2>3, <2>4, <2>9 DEF Tables
  <1>. QED  BY <1>1, <1>2, <1>3, <1>4, <1>5, <1>6

\* The operator's program, and the server's half second before it closes a socket.
LEMMA ControllerStepKeeps ==
  ASSUME IInv, NEW k \in Controller, ControllerStep(k)
  PROVE  IInv'
  <1> USE SidAssumption DEF IInv
  <1>1. ASSUME NEW c \in Code, ControllerStarts(k, c)
        PROVE  IInv'
    <2>1. /\ k \notin online /\ online' = online \cup {k}
          /\ \/ watching' = watching
             \/ watching' = [watching EXCEPT ![k] = c]
          /\ UNCHANGED <<partners, ui, to_browser>>
      BY <1>1 DEF ControllerStarts
    <2>2. /\ cli' = [cli EXCEPT ![k] = "hello"]
          /\ closing' \subseteq Controller
          /\ \/ to_ctrl' = [to_ctrl EXCEPT ![k] = Append(@, "ready")]
             \/ to_ctrl' = [to_ctrl EXCEPT ![k] = Append(@, "error")]
          /\ UNCHANGED <<relay, request, session_active>>
      BY <1>1 DEF ControllerStarts, TellCtrl, Tables, TypeOK
    <2>6. TypeOK'
      <3>1. to_ctrl' \in [Controller -> Seq(CtrlMessage)]
        <4>1. to_ctrl \in [Controller -> Seq(CtrlMessage)]
          BY DEF Tables, TypeOK
        <4>2. /\ Append(to_ctrl[k], "ready") \in Seq(CtrlMessage)
              /\ Append(to_ctrl[k], "error") \in Seq(CtrlMessage)
          BY <4>1 DEF CtrlMessage
        <4>. QED  BY <2>2, <4>1, <4>2
      <3>2. watching' \in [Controller -> Code \cup {NoCode}]
        <4>1. watching \in [Controller -> Code \cup {NoCode}]
          BY DEF Tables, TypeOK
        <4>. QED  BY <1>1, <2>1, <4>1
      <3>3. cli' \in [Controller -> CliState]
        BY <2>2 DEF Tables, TypeOK, CliState
      <3>4. online' \subseteq Browser \cup Controller
        BY <2>1 DEF Tables, TypeOK
      <3>. QED  BY <2>1, <2>2, <3>1, <3>2, <3>3, <3>4 DEF Tables, TypeOK, relay, partners
    <2>3. PairsAreInverse'
      BY <2>1 DEF Tables, PairsAreInverse, partners
    <2>4. PairsAreConnected'
      BY <2>1 DEF Tables, TypeOK, PairsAreConnected, partners
    <2>5. ActiveUntilTold'
      BY <2>1 DEF ActiveUntilTold, partners
    <2>. QED  BY <2>3, <2>4, <2>5, <2>6 DEF Tables
  <1>2. CASE ControllerReceives(k)
    <2>1. CASE DropController(k) /\ UNCHANGED <<relay, closing, ui>>
      BY <2>1, DropControllerKeeps DEF Tables, TypeOK
    <2>2. CASE /\ to_ctrl[k] # <<>>
               /\ to_ctrl' = [to_ctrl EXCEPT ![k] = Tail(@)]
               /\ cli' = [cli EXCEPT ![k] = "looping"] \/ cli' = cli
               /\ request' = request \cup {k} \/ request' = request
               /\ session_active' = session_active \ {k} \/ session_active' = session_active
               /\ UNCHANGED <<online, watching, partners, to_browser, relay, closing, ui>>
      <3>1. Tail(to_ctrl[k]) \in Seq(CtrlMessage)
        BY <2>2 DEF Tables, TypeOK
      <3>2. TypeOK'
        BY <2>2, <3>1 DEF Tables, TypeOK, relay, partners, CliState
      <3>. QED  BY <2>2, <3>2, BystanderKeeps
    <2>. QED  BY <1>2, <2>1, <2>2 DEF ControllerReceives
  <1>3. CASE \/ LoopTop(k) \/ RequestNoticed(k) \/ OperatorDeclines(k)
             \/ WaitEnds(k) \/ EmptyLine(k)
    <2>1. /\ UNCHANGED <<server, ui, to_browser, to_ctrl, session_active>>
          /\ request' \subseteq request
          /\ \/ cli' = cli
             \/ \E x \in CliState : cli' = [cli EXCEPT ![k] = x]
      BY <1>3 DEF LoopTop, RequestNoticed, OperatorDeclines, WaitEnds, EmptyLine,
                  server, relay, partners, CliState
    <2>2. cli' \in [Controller -> CliState]
      BY <2>1 DEF Tables, TypeOK, CliState
    <2>3. UNCHANGED <<watching, partners, ui, to_browser>>
      BY <2>1 DEF server
    <2>4. UNCHANGED <<relay, online, partners, watching, closing, ui, to_browser, to_ctrl,
                      session_active>>
      BY <1>3, <2>1 DEF LoopTop, RequestNoticed, OperatorDeclines, WaitEnds, EmptyLine, server
    <2>5. request' \subseteq Controller
      BY <2>1 DEF Tables, TypeOK
    <2>6. TypeOK'
      BY <2>2, <2>4, <2>5 DEF Tables, TypeOK, relay, partners
    <2>. QED  BY <2>3, <2>4, <2>6, BystanderKeeps
  <1>4. CASE OperatorAccepts(k)
    <2>1. /\ cli' = [cli EXCEPT ![k] = "busy"]
          /\ session_active' = session_active \cup {k}
          /\ UNCHANGED <<relay, online, watching, request, ui>>
      BY <1>4 DEF OperatorAccepts
    <2>2. CASE UNCHANGED <<partners, closing, to_ctrl, to_browser>>
      <3>1. TypeOK'
        BY <2>1, <2>2 DEF Tables, TypeOK, relay, partners, CliState
      <3>. QED  BY <2>1, <2>2, <3>1, BystanderKeeps
    <2>3. ASSUME NEW b \in Browser \cap rc_active,
                 controller_browser[k] = b,
                 controller_browser' = [controller_browser EXCEPT ![k] = NoBrowser],
                 browser_controller' = [browser_controller EXCEPT ![b] = NoController],
                 closing' = closing \cup {k},
                 TellCtrl(k, "error"),
                 UNCHANGED <<rc_active, to_browser>>
          PROVE  IInv'
      <3>1. TypeOK'
        BY <2>1, <2>3 DEF TellCtrl, Tables, TypeOK, relay, CliState, CtrlMessage
      <3>2. PairsAreInverse'
        BY <2>3 DEF Tables, TypeOK, PairsAreInverse
      <3>3. PairsAreConnected'
        BY <2>1, <2>3 DEF Tables, TypeOK, PairsAreConnected
      <3>4. ActiveUntilTold'
        BY <2>1, <2>3 DEF ActiveUntilTold
      <3>. QED  BY <3>1, <3>2, <3>3, <3>4 DEF Tables
    <2>4. ASSUME NEW b \in Browser \ rc_active,
                 controller_browser[k] = b,
                 rc_active' = rc_active \cup {b},
                 TellBrowser(b, "active"),
                 UNCHANGED <<controller_browser, browser_controller, closing, to_ctrl>>
          PROVE  IInv'
      <3>1. to_browser' = [to_browser EXCEPT ![b] = Append(@, "active")]
        BY <2>4 DEF TellBrowser
      <3>2. TypeOK'
        BY <2>1, <2>4, <3>1 DEF Tables, TypeOK, relay, CliState, BrowserMessage
      <3>3. PairsAreInverse'
        BY <2>4 DEF Tables, PairsAreInverse
      <3>4. browser_controller[b] = k
        BY <2>4 DEF Tables, PairsAreInverse
      <3>5. PairsAreConnected'
        BY <2>1, <2>4, <3>4 DEF Tables, TypeOK, PairsAreConnected
      <3>6. ActiveUntilTold'
        BY <2>1, <2>4, <3>1, TellingKeeps DEF Tables, TypeOK
      <3>. QED  BY <3>2, <3>3, <3>5, <3>6 DEF Tables
    <2>. QED  BY <1>4, <2>2, <2>3, <2>4 DEF OperatorAccepts
  <1>5. CASE OperatorCommands(k)
    <2>1. /\ cli' = [cli EXCEPT ![k] = "busy"]
          /\ UNCHANGED <<relay, online, watching, partners, closing, request,
                         session_active, to_ctrl, ui>>
          /\ \/ \E b \in Browser :
                  to_browser' = [to_browser EXCEPT ![b] = Append(@, "cmd")]
             \/ UNCHANGED to_browser
      BY <1>5 DEF OperatorCommands, TellBrowser, server
    <2>2. TypeOK'
      <3>1. to_browser' \in [Browser -> Seq(BrowserMessage)]
        <4>1. to_browser \in [Browser -> Seq(BrowserMessage)]
          BY DEF Tables, TypeOK
        <4>2. \A b \in Browser : Append(to_browser[b], "cmd") \in Seq(BrowserMessage)
          BY <4>1 DEF BrowserMessage
        <4>. QED  BY <2>1, <4>1, <4>2
      <3>2. cli' \in [Controller -> CliState]
        BY <2>1 DEF Tables, TypeOK, CliState
      <3>. QED  BY <2>1, <3>1, <3>2 DEF Tables, TypeOK, relay, partners
    <2>3. PairsAreInverse' /\ PairsAreConnected'
      BY <2>1 DEF Tables, PairsAreInverse, PairsAreConnected, partners
    <2>4. ActiveUntilTold'
      BY <2>1, TellingKeeps DEF Tables, TypeOK, partners
    <2>. QED  BY <2>2, <2>3, <2>4 DEF Tables
  <1>6. CASE OperatorExits(k)
    <2>1. /\ ReleaseBrowser(k)
          /\ cli' = [cli EXCEPT ![k] = "looping"]
          /\ session_active' = session_active \ {k}
          /\ UNCHANGED <<relay, online, watching, closing, request, to_ctrl, ui>>
      BY <1>6 DEF OperatorExits
    <2>2. /\ controller_browser' = [controller_browser EXCEPT ![k] = NoBrowser]
          /\ browser_controller' \in [Browser -> Controller \cup {NoController}]
          /\ rc_active' \subseteq rc_active
          /\ to_browser' \in [Browser -> Seq(BrowserMessage)]
          /\ PairsAreInverse'
          /\ \A b \in Browser :
               browser_controller'[b] \in {browser_controller[b], NoController}
          /\ \A b \in Browser : \/ /\ to_browser'[b] = to_browser[b]
                                   /\ b \in rc_active => b \in rc_active'
                                \/ to_browser'[b] = Append(to_browser[b], "inactive")
      BY <2>1, ReleaseBrowserKeeps
    <2>3. TypeOK'
      BY <2>1, <2>2 DEF Tables, TypeOK, relay, CliState
    <2>4. PairsAreConnected'
      BY <2>1, <2>2 DEF Tables, TypeOK, PairsAreConnected
    <2>5. ActiveUntilTold'
      BY <2>1, <2>2, TellingKeeps
    <2>. QED  BY <2>2, <2>3, <2>4, <2>5 DEF Tables
  <1>7. CASE ControllerLeaves(k)
    BY <1>7, DropControllerKeeps DEF ControllerLeaves, Tables, TypeOK
  <1>8. CASE DelayedDisconnect(k)
    <2>1. CASE DropController(k)
      BY <1>8, <2>1, DropControllerKeeps DEF DelayedDisconnect, Tables, TypeOK
    <2>2. CASE UNCHANGED <<online, watching, partners, program, to_ctrl, to_browser>>
      <3>1. TypeOK'
        BY <1>8, <2>2 DEF DelayedDisconnect, Tables, TypeOK, relay, partners, program,
                          CliState
      <3>. QED  BY <1>8, <2>2, <3>1, BystanderKeeps DEF DelayedDisconnect
    <2>. QED  BY <1>8, <2>1, <2>2 DEF DelayedDisconnect
  <1>. QED  BY <1>1, <1>2, <1>3, <1>4, <1>5, <1>6, <1>7, <1>8 DEF ControllerStep

LEMMA StepKeeps ==
  ASSUME IInv, [Next]_vars
  PROVE  IInv'
  <1>1. CASE Next
    <2>1. ASSUME NEW c \in Code, AgentStarts(c) \/ AgentEnds(c)
          PROVE  IInv'
      BY <2>1, AgentStepKeeps
    <2>2. ASSUME NEW b \in Browser, BrowserStep(b)
          PROVE  IInv'
      <3>1. ASSUME NEW c \in Code, BrowserPairs(b, c)
            PROVE  IInv'
        BY <3>1, AgentStepKeeps
      <3>. QED  BY <2>2, <3>1, BrowserStepKeeps DEF BrowserStep
    <2>. QED  BY <1>1, <2>1, <2>2, ControllerStepKeeps DEF Next
  <1>2. CASE UNCHANGED vars
    <2>1. UNCHANGED <<relay, online, server, program, to_ctrl, ui, to_browser>>
      BY <1>2 DEF vars
    <2>2. TypeOK'
      <3>1. /\ UNCHANGED <<agents, paired_code, online, watching, controller_browser>>
            /\ UNCHANGED <<browser_controller, rc_active, closing, cli, request>>
            /\ UNCHANGED <<session_active, to_ctrl, ui, to_browser>>
        BY <2>1 DEF relay, server, partners, program
      <3>. QED  BY <3>1 DEF IInv, Tables, TypeOK
    <2>. QED  BY <2>1, <2>2, BystanderKeeps DEF server
  <1>. QED  BY <1>1, <1>2

-----------------------------------------------------------------------------
\* Every reachable state satisfies the inductive invariant.
THEOREM InvariantHolds == Spec => []IInv
  <1>1. Init => IInv
    BY SidAssumption DEF Init, IInv, Tables, TypeOK, PairsAreInverse, PairsAreConnected,
                         ActiveUntilTold, CliState
  <1>2. IInv /\ [Next]_vars => IInv'
    BY StepKeeps
  <1>. QED  BY <1>1, <1>2, PTL DEF Spec

\* The state of server, programs and pages is what Python's tables, the CLI's
\* events and the page's variables can hold.
THEOREM TypesAreCorrect == Spec => []TypeOK
  <1>1. IInv => TypeOK
    BY DEF IInv, Tables
  <1>. QED  BY <1>1, InvariantHolds, PTL

\* _controller_browser and _browser_controller are each other's inverse, and
\* on_disconnect leaves no pair, watch or activation of a closed socket behind.
THEOREM PairsStaySound == Spec => []PairsAreSound
  <1>1. IInv => PairsAreSound
    BY DEF IInv, Tables, PairsAreSound
  <1>. QED  BY <1>1, InvariantHolds, PTL

\* A page whose messages are all in shows remote control as active only while
\* the server has it active.
THEOREM PagesAreRight == Spec => []NoStaleActive
  <1>1. IInv => NoStaleActive
    <2> SUFFICES ASSUME IInv, NEW b \in Browser \cap online,
                        to_browser[b] = <<>>, ui[b] = "active"
                 PROVE  b \in rc_active
      BY DEF NoStaleActive
    <2>1. \A i \in 1..Len(to_browser[b]) : to_browser[b][i] # "inactive"
      OBVIOUS
    <2>. QED  BY <2>1 DEF IInv, ActiveUntilTold
  <1>. QED  BY <1>1, InvariantHolds, PTL

-----------------------------------------------------------------------------
\* The page's ports.

\* Devices outside X are in their own mode.
OwnBut(X) == \A d \in Device \ X : mode[d] = own[d]

\* d's port is the page's; the page remembers d's own mode, and no other device
\* is in another mode than its own.
PortHeld(d) == d \in Device /\ port = d /\ orig = own[d] /\ OwnBut({d})

\* Between operations.
PortSettled ==
  IF port = NoDevice THEN open = {} /\ OwnBut({}) ELSE open \subseteq {port} /\ PortHeld(port)

\* What operation o finds and has found at its step, as long as there was no
\* trouble.
OpeningStage(at, d, to, val, reply) ==
  /\ at \notin {"leaveUnlock", "leaveMode", "leaveClose"}
  /\ at = "open" =>
       /\ d \in Device /\ to = d /\ port = NoDevice /\ OwnBut({})
       /\ open = (IF reply = "ok" THEN {d} ELSE {})
  /\ at \in {"unlock", "query"} =>
       /\ d \in Device /\ to = d /\ port = d /\ OwnBut({}) /\ open \subseteq {d}
       /\ at = "query" /\ reply # "none" => val = own[d]
  /\ at \in {"enable", "match", "openADB", "reopenClose", "reopen", "matchClosed", "rematch"} =>
       PortHeld(d) /\ to = d /\ open \subseteq {d}

ClosingStage(at, d, to, val, reply) ==
  /\ at = "closeMode" =>
       /\ PortSettled /\ d \in Device /\ to = d /\ port \in {NoDevice, d}
       /\ port = d => val = own[d]
       /\ reply # "none" => port = d /\ OwnBut({})
  /\ at \in {"deviceUnlock", "deviceMode"} =>
       PortSettled /\ port \in Device /\ to = port /\ val = own[port]
  /\ at = "outMode" =>
       /\ PortSettled /\ d \in Device /\ to = d /\ port = d /\ val = own[d]
       /\ reply # "none" => OwnBut({})
  /\ at = "close" => PortHeld(d) /\ to = d /\ OwnBut({})
  /\ at = "outClose" => d \in Device /\ to = d /\ port = d /\ OwnBut({})
  /\ at \in {"close", "outClose"} => open = {} \/ (open = {d} /\ reply # "ok")
  /\ at = "outFetch" => port = NoDevice /\ open = {} /\ OwnBut({})

PortStage(o) ==
  /\ ops[o].reply = "fail" => ops[o].at \notin Ports!Decisive
  /\ OpeningStage(ops[o].at, ops[o].dev, ops[o].to, ops[o].val, ops[o].reply)
  /\ ClosingStage(ops[o].at, ops[o].dev, ops[o].to, ops[o].val, ops[o].reply)

\* What the types of the state rest on in an operation.
PortTyped(o) ==
  /\ ops[o].at \in Ports!OpenSteps \cup Ports!CloseSteps \cup Ports!DeviceSteps =>
       ops[o].dev \in Device
  /\ ops[o].at \in {"open", "reopen"} => ops[o].to = ops[o].dev
  /\ ops[o].at \in Ports!Restores \cup {"deviceUnlock"} => ops[o].val \in Mode

PortsInv ==
  /\ Ports!TypeOK
  /\ \A o \in Operation : PortTyped(o)
  /\ trouble = "none" =>
       /\ (\A o \in Operation : ops[o].at = "idle") => PortSettled
       /\ \A o \in Operation : ops[o].at # "idle" =>
            /\ PortStage(o)
            /\ \A q \in Operation \ {o} : ops[q].at = "idle"

Operations == [at : Ports!Steps \cup {"idle"}, dev : Ports!Null, to : Ports!Null,
               val : Mode \cup {NoMode}, reply : {"none", "ok", "fail"}]

LEMMA PortsInitInv ==
  ASSUME Ports!Init
  PROVE  PortsInv
  <1>1. Ports!Idle \in Operations
    BY DEF Ports!Idle, Operations, Ports!Null
  <1>2. Ports!TypeOK
    <2>1. own \in [Device -> Mode]
      BY PageAssumption DEF Ports!Init
    <2>. QED  BY <1>1, <2>1 DEF Ports!Init, Ports!TypeOK, Operations, Ports!Null
  <1>3. \A o \in Operation : ops[o].at = "idle"
    BY DEF Ports!Init, Ports!Idle
  <1>4. PortSettled
    BY DEF Ports!Init, PortSettled, OwnBut
  <1>5. \A o \in Operation : PortTyped(o)
    BY <1>3 DEF PortTyped, Ports!OpenSteps, Ports!CloseSteps, Ports!DeviceSteps, Ports!Restores
  <1>. QED  BY <1>2, <1>3, <1>4, <1>5 DEF PortsInv

\* An operation that goes on.
LEMMA SendDoes ==
  ASSUME Ports!TypeOK, NEW o \in Operation, NEW where \in Ports!Steps, NEW p \in Ports!Null,
         Ports!Send(o, where, p)
  PROVE  /\ ops' \in [Operation -> Operations]
         /\ ops'[o].at = where /\ ops'[o].to = p /\ ops'[o].reply = "none"
         /\ ops'[o].dev = ops[o].dev
         /\ where \in Ports!Restores => ops'[o].val = ops[o].val
         /\ \A q \in Operation \ {o} : ops'[q] = ops[q]
  <1>1. ops \in [Operation -> Operations] /\ ops[o] \in Operations
    BY DEF Ports!TypeOK, Operations
  <1> DEFINE new == [ops[o] EXCEPT !.at = where, !.to = p, !.reply = "none",
                       !.val = IF where \in Ports!Restores THEN @ ELSE NoMode]
  <1>2. new \in Operations /\ new.at = where /\ new.to = p /\ new.reply = "none"
        /\ new.dev = ops[o].dev /\ (where \in Ports!Restores => new.val = ops[o].val)
    BY <1>1 DEF Operations
  <1>3. ops' = [ops EXCEPT ![o] = new]
    BY <1>1 DEF Ports!Send
  <1> HIDE DEF new
  <1>. QED  BY <1>1, <1>2, <1>3

LEMMA DoneDoes ==
  ASSUME Ports!TypeOK, NEW o \in Operation, Ports!Done(o)
  PROVE  /\ ops' \in [Operation -> Operations]
         /\ ops'[o].at = "idle"
         /\ \A q \in Operation \ {o} : ops'[q] = ops[q]
  <1>1. Ports!Idle \in Operations /\ Ports!Idle.at = "idle"
    BY DEF Ports!Idle, Operations, Ports!Null
  <1>2. ops \in [Operation -> Operations]
    BY DEF Ports!TypeOK, Operations
  <1>. QED  BY <1>1, <1>2 DEF Ports!Done

LEMMA BeginDoes ==
  ASSUME Ports!TypeOK, NEW o \in Operation, NEW where \in Ports!Steps, NEW d \in Ports!Null,
         NEW p \in Ports!Null, NEW val \in Mode \cup {NoMode}, Ports!Begin(o, where, d, p, val)
  PROVE  /\ ops' \in [Operation -> Operations]
         /\ ops'[o].at = where /\ ops'[o].to = p /\ ops'[o].reply = "none"
         /\ ops'[o].dev = d /\ ops'[o].val = val
         /\ \A q \in Operation \ {o} : ops'[q] = ops[q]
  <1> DEFINE new == [at |-> where, dev |-> d, to |-> p, val |-> val, reply |-> "none"]
  <1>1. new \in Operations /\ new.at = where /\ new.to = p /\ new.reply = "none"
        /\ new.dev = d /\ new.val = val
    BY DEF Operations
  <1>2. ops \in [Operation -> Operations] /\ ops' = [ops EXCEPT ![o] = new]
    BY DEF Ports!TypeOK, Operations, Ports!Begin
  <1> HIDE DEF new
  <1>. QED  BY <1>1, <1>2

\* What a step of one operation has to establish.
LEMMA OperationStep ==
  ASSUME PortsInv, Ports!TypeOK', NEW o \in Operation, PortTyped(o)',
         \A q \in Operation \ {o} : ops'[q] = ops[q],
         trouble' = "none" =>
           /\ trouble = "none"
           /\ \A q \in Operation \ {o} : ops[q].at = "idle"
           /\ ops'[o].at = "idle" => PortSettled'
           /\ ops'[o].at # "idle" => PortStage(o)'
  PROVE  PortsInv'
  <1>1. \A q \in Operation : PortTyped(q)'
    BY DEF PortsInv, PortTyped
  <1>. QED  BY <1>1 DEF PortsInv

\* The steps at which an operation stays in its stage, and what it may do there.
LEMMA StageOf ==
  ASSUME PortsInv, NEW o \in Operation, ops[o].at # "idle"
  PROVE  /\ ops[o] \in Operations /\ PortTyped(o)
         /\ trouble = "none" => PortStage(o) /\ \A q \in Operation \ {o} : ops[q].at = "idle"
  BY DEF PortsInv, Ports!TypeOK, Operations

\* The agent carries a command out.
LEMMA CarryInv ==
  ASSUME PortsInv, NEW o \in Operation, Ports!Carry(o)
  PROVE  PortsInv'
  <1>1. /\ ops[o].at # "idle" /\ ops[o].reply = "none"
        /\ ops[o].at \in {"open", "reopen", "outFetch"} \/ ops[o].to \in open
        /\ ops' = [ops EXCEPT ![o].reply = "ok",
                              ![o].val = IF ops[o].at = "query" THEN mode[ops[o].to] ELSE @]
        /\ UNCHANGED <<port, serial, orig, matched, list, own, trouble>>
    BY DEF Ports!Carry, Ports!page, Ports!history
  <1>2. open' = CASE ops[o].at \in {"open", "reopen"} -> open \cup {ops[o].to}
                  [] ops[o].at \in {"leaveClose", "close", "outClose", "reopenClose"} -> open \ {ops[o].to}
                  [] OTHER -> open
    BY DEF Ports!Carry
  <1>3. mode' = CASE ops[o].at = "leaveMode" -> [mode EXCEPT ![ops[o].to] = 3]
                  [] ops[o].at = "enable" -> [mode EXCEPT ![ops[o].to] = 0]
                  [] ops[o].at \in Ports!Restores -> [mode EXCEPT ![ops[o].to] = ops[o].val]
                  [] OTHER -> mode
    BY DEF Ports!Carry
  <1>4. /\ ops[o] \in Operations /\ PortTyped(o) /\ Ports!TypeOK
        /\ trouble = "none" => PortStage(o) /\ \A q \in Operation \ {o} : ops[q].at = "idle"
    BY <1>1, StageOf DEF PortsInv
  <1>5. ops[o].at = "query" => mode[ops[o].to] \in Mode
    BY <1>1, <1>4 DEF Ports!TypeOK
  <1>6. /\ ops' \in [Operation -> Operations]
        /\ ops'[o].at = ops[o].at /\ ops'[o].dev = ops[o].dev /\ ops'[o].to = ops[o].to
        /\ ops'[o].reply = "ok"
        /\ ops'[o].val = IF ops[o].at = "query" THEN mode[ops[o].to] ELSE ops[o].val
        /\ \A q \in Operation \ {o} : ops'[q] = ops[q]
    <2> DEFINE new == [ops[o] EXCEPT !.reply = "ok",
                         !.val = IF ops[o].at = "query" THEN mode[ops[o].to] ELSE @]
    <2>1. /\ new \in Operations /\ new.at = ops[o].at /\ new.dev = ops[o].dev /\ new.to = ops[o].to
          /\ new.reply = "ok" /\ new.val = IF ops[o].at = "query" THEN mode[ops[o].to] ELSE ops[o].val
      BY <1>4, <1>5 DEF Operations
    <2>2. ops \in [Operation -> Operations]
      BY <1>4 DEF Ports!TypeOK, Operations
    <2>3. ops' = [ops EXCEPT ![o] = new]
      BY <1>1, <1>4 DEF Operations
    <2> HIDE DEF new
    <2>. QED  BY <2>1, <2>2, <2>3
  <1>7. PortTyped(o)'
    <2>1. "query" \notin Ports!Restores \cup {"deviceUnlock"}
      BY DEF Ports!Restores
    <2>. QED  BY <1>4, <1>6, <2>1 DEF PortTyped
  <1>8. Ports!TypeOK'
    <2>1. open' \subseteq Device
      <3>1. ops[o].at \in {"open", "reopen"} => ops[o].to \in Device
        BY <1>4 DEF PortTyped, Ports!OpenSteps
      <3>. QED  BY <1>2, <1>4, <3>1 DEF Ports!TypeOK
    <2>2. mode' \in [Device -> Mode]
      BY <1>3, <1>4, PageAssumption DEF Ports!TypeOK, PortTyped
    <2>. QED  BY <1>1, <1>4, <1>6, <2>1, <2>2 DEF Ports!TypeOK, Operations
  <1>9. ASSUME trouble = "none"  PROVE PortStage(o)'
    <2>1. PortStage(o)
      BY <1>4, <1>9
    <2>2. /\ OpeningStage(ops[o].at, ops[o].dev, ops[o].to, ops[o].val, "none")
          /\ ClosingStage(ops[o].at, ops[o].dev, ops[o].to, ops[o].val, "none")
      BY <1>1, <2>1 DEF PortStage
    <2> DEFINE at == ops[o].at
               d  == ops[o].dev
               to == ops[o].to
               val == ops[o].val
    <2>3. /\ at # "query" => ops'[o].val = val
          /\ at = "query" => ops'[o].val = mode[to]
      BY <1>6
    <2>4. /\ at \in {"open", "reopen"} => open' = open \cup {to} /\ mode' = mode
          /\ at \in {"unlock", "query", "match", "openADB", "matchClosed", "rematch", "deviceUnlock",
                     "outFetch"} =>
               open' = open /\ mode' = mode
          /\ at \in {"close", "outClose", "reopenClose"} => open' = open \ {to} /\ mode' = mode
          /\ at = "enable" => open' = open /\ \A e \in Device \ {to} : mode'[e] = mode[e]
          /\ at \in Ports!Restores => open' = open /\ mode' = [mode EXCEPT ![to] = val]
      BY <1>2, <1>3, <1>4 DEF Ports!Restores, Ports!TypeOK
    <2>5. /\ OpeningStage(at, d, to, val, "none") /\ ClosingStage(at, d, to, val, "none")
          /\ UNCHANGED <<port, orig, own>> /\ to \in Ports!Null
      BY <1>1, <1>4, <2>2 DEF Operations
    <2>6. at \in {"open", "reopen"} \/ to \in open \/ at = "outFetch"
      BY <1>1
    <2>7. /\ ops'[o].at = at /\ ops'[o].dev = d /\ ops'[o].to = to /\ ops'[o].reply = "ok"
      BY <1>6
    <2> HIDE DEF at, d, to, val
    <2>8. OpeningStage(ops[o].at, ops[o].dev, ops[o].to, ops[o].val, ops[o].reply)'
      BY <2>3, <2>4, <2>5, <2>6, <2>7 DEF OpeningStage, PortHeld, OwnBut, Ports!Restores
    <2>9. ClosingStage(ops[o].at, ops[o].dev, ops[o].to, ops[o].val, ops[o].reply)'
      BY <1>4, <2>3, <2>4, <2>5, <2>6, <2>7
      DEF ClosingStage, PortSettled, PortHeld, OwnBut, Ports!Restores, Ports!TypeOK
    <2>. QED  BY <2>7, <2>8, <2>9 DEF PortStage
  <1>. QED  BY <1>1, <1>4, <1>6, <1>7, <1>8, <1>9, OperationStep

\* A command fails: there is trouble if it is a decisive one.
LEMMA FailInv ==
  ASSUME PortsInv, NEW o \in Operation, Ports!Fail(o)
  PROVE  PortsInv'
  <1>1. /\ ops[o].at # "idle" /\ ops[o].reply = "none"
        /\ ops' = [ops EXCEPT ![o].reply = IF ops[o].at \in Ports!Unheeded THEN "ok" ELSE "fail"]
        /\ trouble' = IF ops[o].at \in Ports!Decisive THEN "failed" ELSE trouble
        /\ UNCHANGED <<port, serial, orig, matched, list, open, mode, own>>
    BY DEF Ports!Fail, Ports!page
  <1>2. /\ ops[o] \in Operations /\ PortTyped(o) /\ Ports!TypeOK
        /\ trouble = "none" => PortStage(o) /\ \A q \in Operation \ {o} : ops[q].at = "idle"
    BY <1>1, StageOf DEF PortsInv
  <1>3. PICK reply \in {"ok", "fail"} : ops' = [ops EXCEPT ![o].reply = reply]
    BY <1>1
  <1>4. /\ ops' \in [Operation -> Operations]
        /\ ops'[o].at = ops[o].at /\ ops'[o].dev = ops[o].dev /\ ops'[o].to = ops[o].to
        /\ ops'[o].reply = reply /\ ops'[o].val = ops[o].val
        /\ \A q \in Operation \ {o} : ops'[q] = ops[q]
    <2> DEFINE new == [ops[o] EXCEPT !.reply = reply]
    <2>1. /\ new \in Operations /\ new.at = ops[o].at /\ new.dev = ops[o].dev /\ new.to = ops[o].to
          /\ new.reply = reply /\ new.val = ops[o].val
      BY <1>2 DEF Operations
    <2>2. ops \in [Operation -> Operations]
      BY <1>2 DEF Ports!TypeOK, Operations
    <2>3. ops' = [ops EXCEPT ![o] = new]
      BY <1>2, <1>3 DEF Operations
    <2> HIDE DEF new
    <2>. QED  BY <2>1, <2>2, <2>3
  <1>5. PortTyped(o)'
    BY <1>2, <1>4 DEF PortTyped
  <1>6. Ports!TypeOK'
    BY <1>1, <1>2, <1>4 DEF Ports!TypeOK, Operations
  <1>7. ASSUME trouble' = "none"  PROVE trouble = "none" /\ PortStage(o)'
    <2>1. /\ trouble = "none" /\ PortStage(o) /\ ops[o].at \notin Ports!Decisive
          /\ UNCHANGED <<port, orig, open, mode, own>>
      BY <1>1, <1>2, <1>7
    <2>2. ops[o].at \notin {"unlock", "query", "outClose", "closeMode", "deviceMode", "outMode"}
      BY <2>1 DEF Ports!Decisive, Ports!Restores
    <2>3. ops[o].at \in {"open", "close"} => reply = "fail"
      BY <1>1, <1>2, <1>4 DEF Ports!Unheeded
    <2>4. /\ OpeningStage(ops[o].at, ops[o].dev, ops[o].to, ops[o].val, "none")
          /\ ClosingStage(ops[o].at, ops[o].dev, ops[o].to, ops[o].val, "none")
      BY <1>1, <2>1 DEF PortStage
    <2>5. OpeningStage(ops[o].at, ops[o].dev, ops[o].to, ops[o].val, reply)'
      BY <1>4, <2>1, <2>2, <2>3, <2>4 DEF OpeningStage, PortHeld, OwnBut
    <2>6. ClosingStage(ops[o].at, ops[o].dev, ops[o].to, ops[o].val, reply)'
      BY <1>4, <2>1, <2>2, <2>3, <2>4 DEF ClosingStage, PortSettled, PortHeld, OwnBut
    <2>. QED  BY <1>4, <2>1, <2>5, <2>6 DEF PortStage, OpeningStage, ClosingStage
  <1>. QED  BY <1>1, <1>2, <1>4, <1>5, <1>6, <1>7, OperationStep

\* The user starts an operation; without trouble it is the only one.
LEMMA BeginsInv ==
  ASSUME PortsInv, NEW o \in Operation, NEW where \in Ports!Steps, NEW d \in Ports!Null,
         NEW p \in Ports!Null, NEW val \in Mode \cup {NoMode}, Ports!Begin(o, where, d, p, val),
         where \in Ports!OpenSteps \cup Ports!CloseSteps \cup Ports!DeviceSteps => d \in Device,
         where \in {"open", "reopen"} => d = p,
         where \in Ports!Restores \cup {"deviceUnlock"} => val \in Mode,
         port' \in Ports!Null, serial' \in Ports!Null, orig' \in Mode \cup {NoMode},
         matched' \subseteq matched, list' \subseteq list, trouble' \in {"none", "again", "failed"},
         UNCHANGED <<open, mode, own>>,
         trouble' = "none" => Ports!Overlap = "none",
         trouble' = "none" /\ PortSettled =>
           /\ OpeningStage(where, d, p, val, "none")'
           /\ ClosingStage(where, d, p, val, "none")'
  PROVE  PortsInv'
  <1>1. /\ ops' \in [Operation -> Operations]
        /\ ops'[o].at = where /\ ops'[o].to = p /\ ops'[o].reply = "none"
        /\ ops'[o].dev = d /\ ops'[o].val = val
        /\ \A q \in Operation \ {o} : ops'[q] = ops[q]
    BY BeginDoes DEF PortsInv
  <1>2. Ports!TypeOK'
    BY <1>1 DEF PortsInv, Ports!TypeOK, Operations, Ports!Null
  <1>3. PortTyped(o)'
    BY <1>1 DEF PortTyped
  <1>4. ASSUME trouble' = "none"
        PROVE  /\ trouble = "none" /\ PortStage(o)' /\ ops'[o].at # "idle"
               /\ \A q \in Operation \ {o} : ops[q].at = "idle"
    <2>1. trouble = "none" /\ \A q \in Operation : ops[q].at = "idle"
      BY <1>4 DEF Ports!Overlap, Ports!Busy
    <2>2. PortSettled
      BY <2>1 DEF PortsInv
    <2>3. ops'[o].at # "idle"
      BY <1>1 DEF Ports!Steps, Ports!OpenSteps, Ports!CloseSteps, Ports!DeviceSteps, Ports!LogoutSteps
    <2>. QED  BY <1>1, <1>4, <2>1, <2>2, <2>3 DEF PortStage
  <1>. QED  BY <1>1, <1>2, <1>3, <1>4, OperationStep

LEMMA OpenPortInv ==
  ASSUME PortsInv, NEW o \in Operation, NEW d \in Device, Ports!OpenPort(o, d)
  PROVE  PortsInv'
  <1>1. /\ port \in Ports!Null /\ d \in Ports!Null /\ NoMode \in Mode \cup {NoMode}
        /\ open \subseteq Device /\ serial \in Ports!Null /\ orig \in Mode \cup {NoMode}
    BY DEF PortsInv, Ports!TypeOK, Ports!Null
  <1>2. /\ trouble' = IF Ports!Overlap = "none" /\ port # NoDevice THEN "again" ELSE Ports!Overlap
        /\ UNCHANGED <<port, serial, orig, matched, list, open, mode, own>>
    BY DEF Ports!OpenPort, Ports!page
  <1>3. trouble' \in {"none", "again", "failed"}
    BY <1>2 DEF PortsInv, Ports!TypeOK, Ports!Overlap
  <1>4. ASSUME trouble' = "none"  PROVE Ports!Overlap = "none" /\ port = NoDevice
    BY <1>2, <1>4
  <1>5. /\ {"leaveUnlock", "open"} \subseteq Ports!Steps
        /\ "open" \notin Ports!Restores \cup {"deviceUnlock"}
        /\ "leaveUnlock" \notin Ports!Restores \cup {"deviceUnlock", "open", "reopen"}
    BY DEF Ports!Steps, Ports!OpenSteps, Ports!Restores
  <1>6. CASE port \notin {NoDevice, d} /\ Ports!Begin(o, "leaveUnlock", d, port, NoMode)
    <2>1. trouble' # "none"
      BY <1>4, <1>6
    <2>. QED  BY <1>1, <1>2, <1>3, <1>4, <1>5, <1>6, <2>1, BeginsInv
  <1>7. CASE port \in {NoDevice, d} /\ Ports!Begin(o, "open", d, d, NoMode)
    <2>1. trouble' = "none" /\ PortSettled =>
            /\ OpeningStage("open", d, d, NoMode, "none")'
            /\ ClosingStage("open", d, d, NoMode, "none")'
      <3>1. ASSUME trouble' = "none", PortSettled  PROVE port = NoDevice /\ open = {} /\ OwnBut({})
        BY <1>1, <1>4, <3>1 DEF PortSettled
      <3>. QED  BY <1>2, <3>1 DEF OpeningStage, ClosingStage, OwnBut
    <2>. QED  BY <1>1, <1>2, <1>3, <1>4, <1>5, <1>7, <2>1, BeginsInv
  <1>. QED  BY <1>6, <1>7 DEF Ports!OpenPort

LEMMA RestoreValIs ==
  ASSUME Ports!TypeOK
  PROVE  /\ Ports!RestoreVal \in Mode
         /\ orig \in Mode => Ports!RestoreVal = orig
  BY PageAssumption DEF Ports!TypeOK, Ports!RestoreVal

\* What a settled port restores is the device's own mode.
LEMMA SettledRestores ==
  ASSUME Ports!TypeOK, PortSettled, port # NoDevice
  PROVE  port \in Device /\ PortHeld(port) /\ Ports!RestoreVal = own[port]
  <1>1. port \in Device /\ PortHeld(port) /\ orig = own[port]
    BY DEF Ports!TypeOK, PortSettled, PortHeld
  <1>2. own[port] \in Mode
    BY <1>1, PageAssumption DEF Ports!TypeOK
  <1>. QED  BY <1>1, <1>2, RestoreValIs

LEMMA ClosePortInv ==
  ASSUME PortsInv, NEW o \in Operation, NEW d \in Device, Ports!ClosePort(o, d)
  PROVE  PortsInv'
  <1>1. /\ Ports!TypeOK /\ d \in Ports!Null /\ Ports!RestoreVal \in Mode
        /\ port \in Ports!Null /\ serial \in Ports!Null /\ orig \in Mode \cup {NoMode}
    BY RestoreValIs DEF PortsInv, Ports!TypeOK, Ports!Null
  <1>2. /\ port \in {NoDevice, d} /\ Ports!Begin(o, "closeMode", d, d, Ports!RestoreVal)
        /\ trouble' = Ports!Overlap
        /\ UNCHANGED <<port, serial, orig, matched, list, open, mode, own>>
    BY DEF Ports!ClosePort, Ports!page
  <1>3. trouble' \in {"none", "again", "failed"}
    BY <1>1, <1>2 DEF Ports!TypeOK, Ports!Overlap
  <1>4. "closeMode" \in Ports!Steps
    BY DEF Ports!Steps, Ports!CloseSteps
  <1> DEFINE val == Ports!RestoreVal
  <1>5. PortSettled => OpeningStage("closeMode", d, d, val, "none")'
    BY DEF OpeningStage
  <1>6. PortSettled => (port = d => val = own[d])
    BY <1>1, PageAssumption, SettledRestores
  <1>7. PICK v \in Mode : v = val
    BY <1>1
  <1> HIDE DEF val
  <1>8. PortSettled =>
          OpeningStage("closeMode", d, d, v, "none")' /\ ClosingStage("closeMode", d, d, v, "none")'
    BY <1>2, <1>6, <1>7 DEF OpeningStage, ClosingStage, PortSettled, PortHeld, OwnBut
  <1>9. Ports!Begin(o, "closeMode", d, d, v)
    BY <1>2, <1>7 DEF val
  <1>. QED  BY <1>1, <1>2, <1>3, <1>4, <1>8, <1>9, BeginsInv

LEMMA CloseDeviceInv ==
  ASSUME PortsInv, NEW o \in Operation, NEW d \in Device, Ports!CloseDevice(o, d)
  PROVE  PortsInv'
  <1>1. /\ Ports!TypeOK /\ d \in Ports!Null /\ Ports!RestoreVal \in Mode
        /\ port \in Ports!Null /\ serial \in Ports!Null /\ orig \in Mode \cup {NoMode}
    BY RestoreValIs DEF PortsInv, Ports!TypeOK, Ports!Null
  <1>2. /\ port # NoDevice /\ Ports!Begin(o, "deviceUnlock", d, port, Ports!RestoreVal)
        /\ trouble' = Ports!Overlap /\ list' = {}
        /\ UNCHANGED <<port, serial, orig, matched, open, mode, own>>
    BY DEF Ports!CloseDevice
  <1>3. trouble' \in {"none", "again", "failed"}
    BY <1>1, <1>2 DEF Ports!TypeOK, Ports!Overlap
  <1>4. "deviceUnlock" \in Ports!Steps
    BY DEF Ports!Steps, Ports!DeviceSteps
  <1>5. PICK v \in Mode : v = Ports!RestoreVal
    BY <1>1
  <1>6. PortSettled => port \in Device /\ v = own[port]
    BY <1>1, <1>2, <1>5, SettledRestores
  <1>7. PortSettled =>
          OpeningStage("deviceUnlock", d, port, v, "none")' /\ ClosingStage("deviceUnlock", d, port, v, "none")'
    BY <1>2, <1>6 DEF OpeningStage, ClosingStage, PortSettled, PortHeld, OwnBut
  <1>8. Ports!Begin(o, "deviceUnlock", d, port, v)
    BY <1>2, <1>5
  <1>. QED  BY <1>1, <1>2, <1>3, <1>4, <1>7, <1>8, BeginsInv

LEMMA LogoutInv ==
  ASSUME PortsInv, NEW o \in Operation, Ports!Logout(o)
  PROVE  PortsInv'
  <1>1. /\ Ports!TypeOK /\ Ports!RestoreVal \in Mode /\ NoMode \in Mode \cup {NoMode}
        /\ port \in Ports!Null /\ NoDevice \in Ports!Null
        /\ serial \in Ports!Null /\ orig \in Mode \cup {NoMode}
    BY RestoreValIs DEF PortsInv, Ports!TypeOK, Ports!Null
  <1>2. trouble' = Ports!Overlap /\ UNCHANGED <<open, mode, own>>
    BY DEF Ports!Logout
  <1>3. trouble' \in {"none", "again", "failed"}
    BY <1>1, <1>2 DEF Ports!TypeOK, Ports!Overlap
  <1>4. CASE port = NoDevice
    <2>1. /\ Ports!Begin(o, "outFetch", NoDevice, NoDevice, NoMode)
          /\ port' = NoDevice /\ serial' = NoDevice /\ orig' = NoMode /\ matched' = {} /\ list' = list
      BY <1>4 DEF Ports!Logout, Ports!ClearAll
    <2>2. /\ "outFetch" \in Ports!Steps
          /\ "outFetch" \notin Ports!OpenSteps \cup Ports!CloseSteps \cup Ports!DeviceSteps
          /\ "outFetch" \notin Ports!Restores \cup {"deviceUnlock"}
      BY DEF Ports!Steps, Ports!OpenSteps, Ports!CloseSteps, Ports!DeviceSteps, Ports!LogoutSteps,
         Ports!Restores
    <2>3. PortSettled => OpeningStage("outFetch", NoDevice, NoDevice, NoMode, "none")'
                         /\ ClosingStage("outFetch", NoDevice, NoDevice, NoMode, "none")'
      BY <1>2, <1>4, <2>1 DEF OpeningStage, ClosingStage, PortSettled, OwnBut
    <2>. QED  BY <1>1, <1>2, <1>3, <2>1, <2>2, <2>3, BeginsInv
  <1>5. CASE port # NoDevice
    <2>1. /\ Ports!Begin(o, "outMode", port, port, Ports!RestoreVal)
          /\ UNCHANGED <<port, serial, orig, matched, list>>
      BY <1>5 DEF Ports!Logout, Ports!page
    <2>2. /\ "outMode" \in Ports!Steps
          /\ "outMode" \notin Ports!OpenSteps \cup Ports!CloseSteps \cup Ports!DeviceSteps
      BY DEF Ports!Steps, Ports!OpenSteps, Ports!CloseSteps, Ports!DeviceSteps, Ports!LogoutSteps
    <2>3. PICK v \in Mode : v = Ports!RestoreVal
      BY <1>1
    <2>4. PICK p \in Ports!Null : p = port
      BY <1>1
    <2>5. PortSettled => p \in Device /\ v = own[p]
      BY <1>1, <1>5, <2>3, <2>4, SettledRestores
    <2>6. PortSettled =>
          OpeningStage("outMode", p, p, v, "none")' /\ ClosingStage("outMode", p, p, v, "none")'
      BY <1>2, <2>1, <2>4, <2>5 DEF OpeningStage, ClosingStage, PortSettled, PortHeld, OwnBut
    <2>7. Ports!Begin(o, "outMode", p, p, v)
      BY <2>1, <2>3, <2>4
    <2>. QED  BY <1>1, <1>2, <1>3, <2>1, <2>2, <2>6, <2>7, BeginsInv
  <1>. QED  BY <1>4, <1>5

\* What an operation changes of the page is well formed.
PageTyped ==
  /\ port \in Ports!Null /\ serial \in Ports!Null /\ orig \in Mode \cup {NoMode}
  /\ matched \subseteq Device /\ list \subseteq Device

\* An operation sends its next command.
LEMMA SendInv ==
  ASSUME PortsInv, NEW o \in Operation, ops[o].at # "idle", PageTyped',
         UNCHANGED <<open, mode, own, trouble>>,
         NEW where \in Ports!Steps, NEW p \in Ports!Null, Ports!Send(o, where, p),
         NEW d, d = ops[o].dev, NEW val, val = ops[o].val,
         where \in Ports!OpenSteps \cup Ports!CloseSteps \cup Ports!DeviceSteps => d \in Device,
         where \in {"open", "reopen"} => d = p,
         where # "deviceUnlock",
         where \in Ports!Restores => val \in Mode,
         trouble = "none" =>
           /\ OpeningStage(where, d, p, val, "none")'
           /\ ClosingStage(where, d, p, val, "none")'
  PROVE  PortsInv'
  <1>1. /\ Ports!TypeOK
        /\ trouble = "none" => \A q \in Operation \ {o} : ops[q].at = "idle"
    BY StageOf DEF PortsInv
  <1>2. /\ ops' \in [Operation -> Operations]
        /\ ops'[o].at = where /\ ops'[o].to = p /\ ops'[o].reply = "none"
        /\ ops'[o].dev = d /\ (where \in Ports!Restores => ops'[o].val = val)
        /\ \A q \in Operation \ {o} : ops'[q] = ops[q]
    BY <1>1, SendDoes
  <1>3. Ports!TypeOK'
    BY <1>1, <1>2 DEF Ports!TypeOK, Operations, PageTyped
  <1>4. PortTyped(o)'
    BY <1>2 DEF PortTyped
  <1>5. ops'[o].at # "idle"
    BY <1>2 DEF Ports!Steps, Ports!OpenSteps, Ports!CloseSteps, Ports!DeviceSteps, Ports!LogoutSteps
  <1>6. ASSUME trouble = "none"  PROVE PortStage(o)'
    <2>1. OpeningStage(where, d, p, val, "none")' /\ ClosingStage(where, d, p, val, "none")'
      BY <1>6
    <2>. QED  BY <1>2, <2>1 DEF PortStage, OpeningStage, ClosingStage, Ports!Restores
  <1>. QED  BY <1>1, <1>2, <1>3, <1>4, <1>5, <1>6, OperationStep

LEMMA DoneInv ==
  ASSUME PortsInv, NEW o \in Operation, ops[o].at # "idle", PageTyped', Ports!Done(o),
         UNCHANGED <<open, mode, own, trouble>>,
         trouble = "none" => PortSettled'
  PROVE  PortsInv'
  <1>1. /\ Ports!TypeOK
        /\ trouble = "none" => \A q \in Operation \ {o} : ops[q].at = "idle"
    BY StageOf DEF PortsInv
  <1>2. /\ ops' \in [Operation -> Operations] /\ ops'[o].at = "idle"
        /\ \A q \in Operation \ {o} : ops'[q] = ops[q]
    BY <1>1, DoneDoes
  <1>3. Ports!TypeOK'
    BY <1>1, <1>2 DEF Ports!TypeOK, Operations, PageTyped
  <1>4. PortTyped(o)'
    BY <1>2 DEF PortTyped, Ports!OpenSteps, Ports!CloseSteps, Ports!DeviceSteps, Ports!Restores
  <1>. QED  BY <1>1, <1>2, <1>3, <1>4, OperationStep

\* What is known before an operation goes on.
LEMMA GoingOn ==
  ASSUME PortsInv, NEW o \in Operation, ops[o].at # "idle"
  PROVE  /\ Ports!TypeOK /\ PageTyped /\ ops[o].dev \in Ports!Null
         /\ ops[o].at \in Ports!OpenSteps \cup Ports!CloseSteps \cup Ports!DeviceSteps =>
              ops[o].dev \in Device
         /\ ops[o].at \in Ports!Restores \cup {"deviceUnlock"} => ops[o].val \in Mode
         /\ trouble = "none" => PortStage(o)
  BY StageOf DEF PortsInv, PageTyped, Ports!TypeOK, Operations, PortTyped

LEMMA LeaveInv ==
  ASSUME PortsInv, NEW o \in Operation, Ports!Leave(o)
  PROVE  PortsInv'
  <1>1. /\ ops[o].at \in {"leaveUnlock", "leaveMode", "leaveClose"}
        /\ UNCHANGED <<open, mode, own, trouble>>
    BY DEF Ports!Leave, Ports!history
  <1>2. /\ Ports!TypeOK /\ PageTyped /\ ops[o].dev \in Device /\ trouble # "none"
        /\ ops[o].dev \in Ports!Null
    BY <1>1, GoingOn DEF PortStage, OpeningStage, Ports!OpenSteps, Ports!Null
  <1>3. PageTyped'
    BY <1>2 DEF Ports!Leave, Ports!Forget, Ports!page, PageTyped, Ports!Null
  <1>4. /\ {"leaveMode", "leaveClose", "open"} \subseteq Ports!Steps
        /\ {"leaveMode", "leaveClose", "open"} \cap Ports!Restores = {}
        /\ "leaveMode" \notin {"open", "reopen"}
    BY DEF Ports!Steps, Ports!OpenSteps, Ports!Restores
  <1>5. \/ Ports!Send(o, "leaveMode", port) \/ Ports!Send(o, "leaveClose", port)
        \/ Ports!Send(o, "open", ops[o].dev)
    BY DEF Ports!Leave
  <1>6. PICK d \in Device : d = ops[o].dev
    BY <1>2
  <1>7. PICK val : val = ops[o].val
    OBVIOUS
  <1>8. PICK p \in Ports!Null : p = port
    BY <1>2 DEF PageTyped
  <1>9. CASE Ports!Send(o, "leaveMode", p)
    BY <1>1, <1>2, <1>3, <1>4, <1>6, <1>7, <1>9, SendInv
  <1>10. CASE Ports!Send(o, "leaveClose", p)
    BY <1>1, <1>2, <1>3, <1>4, <1>6, <1>7, <1>10, SendInv
  <1>11. CASE Ports!Send(o, "open", d)
    BY <1>1, <1>2, <1>3, <1>4, <1>6, <1>7, <1>11, SendInv
  <1>. QED  BY <1>5, <1>6, <1>8, <1>9, <1>10, <1>11

LEMMA OpenedInv ==
  ASSUME PortsInv, NEW o \in Operation, Ports!Opened(o)
  PROVE  PortsInv'
  <1>1. ops[o].at = "open" /\ UNCHANGED <<open, mode, own, trouble>>
    BY DEF Ports!Opened, Ports!history
  <1>2. /\ Ports!TypeOK /\ PageTyped /\ ops[o].dev \in Device
        /\ trouble = "none" => PortStage(o)
    BY <1>1, GoingOn DEF Ports!OpenSteps
  <1>3. PICK d \in Device : d = ops[o].dev
    BY <1>2
  <1>4. PICK val : val = ops[o].val
    OBVIOUS
  <1>5. CASE /\ ops[o].reply = "ok" /\ port' = d /\ list' = {} /\ Ports!Send(o, "unlock", d)
             /\ UNCHANGED <<serial, orig, matched>>
    <2>1. PageTyped'
      BY <1>2, <1>5 DEF PageTyped, Ports!Null
    <2>2. /\ "unlock" \in Ports!Steps /\ "unlock" \notin Ports!Restores /\ d \in Ports!Null
          /\ "unlock" \notin {"open", "reopen"}
      BY DEF Ports!Steps, Ports!OpenSteps, Ports!Restores, Ports!Null
    <2>3. trouble = "none" =>
            OpeningStage("unlock", d, d, val, "none")' /\ ClosingStage("unlock", d, d, val, "none")'
      BY <1>1, <1>2, <1>3, <1>5 DEF PortStage, OpeningStage, ClosingStage, OwnBut
    <2>. QED  BY <1>1, <1>3, <1>4, <1>5, <2>1, <2>2, <2>3, SendInv
  <1>6. CASE ops[o].reply = "fail" /\ Ports!Done(o) /\ UNCHANGED <<port, serial, orig, matched, list>>
    <2>1. PageTyped'
      BY <1>2, <1>6 DEF PageTyped
    <2>2. trouble = "none" => PortSettled'
      BY <1>1, <1>2, <1>6 DEF PortStage, OpeningStage, PortSettled, OwnBut
    <2>. QED  BY <1>1, <1>6, <2>1, <2>2, DoneInv
  <1>. QED  BY <1>3, <1>5, <1>6 DEF Ports!Opened, Ports!page

LEMMA PrepareInv ==
  ASSUME PortsInv, NEW o \in Operation, Ports!Prepare(o)
  PROVE  PortsInv'
  <1>1. /\ ops[o].at \in {"unlock", "query", "enable"} /\ ops[o].reply # "none"
        /\ UNCHANGED <<open, mode, own, trouble>>
    BY DEF Ports!Prepare, Ports!history
  <1>2. /\ Ports!TypeOK /\ PageTyped /\ ops[o] \in Operations /\ ops[o].dev \in Device
        /\ trouble = "none" => PortStage(o)
    BY <1>1, GoingOn, StageOf DEF Ports!OpenSteps
  <1>3. PICK d \in Device : d = ops[o].dev
    BY <1>2
  <1>4. PICK val : val = ops[o].val
    OBVIOUS
  <1>5. /\ {"query", "enable", "match"} \subseteq Ports!Steps
        /\ {"query", "enable", "match"} \cap Ports!Restores = {} /\ d \in Ports!Null
    BY DEF Ports!Steps, Ports!OpenSteps, Ports!Restores, Ports!Null
  <1>6. PageTyped'
    BY <1>2 DEF Ports!Prepare, Ports!Searching, Ports!page, PageTyped, Operations
  <1>7. CASE ops[o].at = "unlock" /\ ops[o].reply = "fail" /\ Ports!Done(o)
    <2>1. trouble # "none"
      BY <1>2, <1>7 DEF PortStage, Ports!Decisive
    <2>. QED  BY <1>1, <1>6, <1>7, <2>1, DoneInv
  <1>8. CASE ops[o].at = "unlock" /\ Ports!Send(o, "query", d) /\ UNCHANGED <<port, orig>>
    <2>1. trouble = "none" =>
            OpeningStage("query", d, d, val, "none")' /\ ClosingStage("query", d, d, val, "none")'
      BY <1>1, <1>2, <1>3, <1>8 DEF PortStage, OpeningStage, ClosingStage, OwnBut
    <2>. QED  BY <1>1, <1>3, <1>4, <1>5, <1>6, <1>8, <2>1, SendInv
  <1>9. CASE ops[o].at = "query"
    <2>1. /\ orig' = (IF ops[o].reply = "ok" THEN ops[o].val ELSE orig) /\ UNCHANGED port
          /\ Ports!Send(o, "enable", d) \/ Ports!Send(o, "match", d)
      BY <1>3, <1>9 DEF Ports!Prepare
    <2>2. ASSUME trouble = "none"  PROVE PortHeld(d)' /\ open' \subseteq {d} /\ d \in Device
      <3>1. /\ ops[o].reply = "ok" /\ val = own[d] /\ port = d /\ open \subseteq {d} /\ OwnBut({})
        BY <1>1, <1>2, <1>3, <1>4, <1>9, <2>2
        DEF PortStage, OpeningStage, Operations, Ports!Decisive
      <3>. QED  BY <1>1, <1>4, <2>1, <3>1 DEF PortHeld, OwnBut
    <2>3. CASE Ports!Send(o, "enable", d)
      <3>1. trouble = "none" =>
              OpeningStage("enable", d, d, val, "none")' /\ ClosingStage("enable", d, d, val, "none")'
        BY <2>2 DEF OpeningStage, ClosingStage
      <3>. QED  BY <1>1, <1>3, <1>4, <1>5, <1>6, <1>9, <2>3, <3>1, SendInv
    <2>4. CASE Ports!Send(o, "match", d)
      <3>1. trouble = "none" =>
              OpeningStage("match", d, d, val, "none")' /\ ClosingStage("match", d, d, val, "none")'
        BY <2>2 DEF OpeningStage, ClosingStage
      <3>. QED  BY <1>1, <1>3, <1>4, <1>5, <1>6, <1>9, <2>4, <3>1, SendInv
    <2>. QED  BY <2>1, <2>3, <2>4
  <1>10. CASE ops[o].at = "enable" /\ Ports!Send(o, "match", d) /\ UNCHANGED <<port, orig>>
    <2>1. trouble = "none" =>
            OpeningStage("match", d, d, val, "none")' /\ ClosingStage("match", d, d, val, "none")'
      BY <1>1, <1>2, <1>3, <1>10 DEF PortStage, OpeningStage, ClosingStage, PortHeld, OwnBut
    <2>. QED  BY <1>1, <1>3, <1>4, <1>5, <1>6, <1>10, <2>1, SendInv
  <1>. QED  BY <1>3, <1>7, <1>8, <1>9, <1>10 DEF Ports!Prepare, Ports!Searching, Ports!page

LEMMA MatchInv ==
  ASSUME PortsInv, NEW o \in Operation, Ports!Match(o)
  PROVE  PortsInv'
  <1>1. /\ ops[o].at \in {"match", "matchClosed", "rematch"} /\ Ports!Done(o)
        /\ matched' = matched \cup {ops[o].dev}
        /\ UNCHANGED <<port, orig, open, mode, own, trouble>>
    BY DEF Ports!Match, Ports!history
  <1>2. /\ Ports!TypeOK /\ PageTyped /\ ops[o].dev \in Device
        /\ trouble = "none" => PortStage(o)
    BY <1>1, GoingOn DEF Ports!OpenSteps
  <1>3. PICK d \in Device : d = ops[o].dev
    BY <1>2
  <1>4. serial' \in Ports!Null /\ list' \subseteq Device
    BY <1>1, <1>2 DEF Ports!Match, Ports!ApplyDeviceList, PageTyped, Ports!Null
  <1>5. PageTyped'
    BY <1>1, <1>2, <1>4 DEF PageTyped
  <1>6. trouble = "none" => PortHeld(d)' /\ open' \subseteq {d}
    BY <1>1, <1>2, <1>3 DEF PortStage, OpeningStage, PortHeld, OwnBut
  <1>7. trouble = "none" => PortSettled'
    BY <1>6, PageAssumption DEF PortHeld, PortSettled
  <1>. QED  BY <1>1, <1>5, <1>7, DoneInv

LEMMA RetryInv ==
  ASSUME PortsInv, NEW o \in Operation, Ports!Retry(o)
  PROVE  PortsInv'
  <1>1. /\ ops[o].at \in {"match", "openADB", "rematch", "matchClosed"} /\ ops[o].reply # "none"
        /\ list' = {} /\ UNCHANGED <<port, serial, orig, matched, open, mode, own, trouble>>
    BY DEF Ports!Retry, Ports!Searching, Ports!history
  <1>2. /\ Ports!TypeOK /\ PageTyped /\ ops[o].dev \in Device
        /\ trouble = "none" => PortStage(o)
    BY <1>1, GoingOn DEF Ports!OpenSteps
  <1>3. PICK d \in Device : d = ops[o].dev
    BY <1>2
  <1>4. PICK val : val = ops[o].val
    OBVIOUS
  <1>5. PageTyped'
    BY <1>1, <1>2 DEF PageTyped
  <1>6. trouble = "none" => PortHeld(d)' /\ open' \subseteq {d}
    BY <1>1, <1>2, <1>3 DEF PortStage, OpeningStage, PortHeld, OwnBut
  <1>7. CASE Ports!Done(o)
    <2>1. trouble = "none" => PortSettled'
      BY <1>6, PageAssumption DEF PortHeld, PortSettled
    <2>. QED  BY <1>1, <1>5, <1>7, <2>1, DoneInv
  <1>8. ASSUME NEW where \in {"match", "openADB", "reopenClose", "rematch"}, Ports!Send(o, where, d)
        PROVE  PortsInv'
    <2>1. /\ where \in Ports!Steps /\ where \notin Ports!Restores /\ d \in Ports!Null
          /\ where \notin {"open", "reopen", "deviceUnlock"}
      BY DEF Ports!Steps, Ports!OpenSteps, Ports!Restores, Ports!Null
    <2>2. trouble = "none" =>
            OpeningStage(where, d, d, val, "none")' /\ ClosingStage(where, d, d, val, "none")'
      BY <1>6 DEF OpeningStage, ClosingStage
    <2>. QED  BY <1>1, <1>3, <1>4, <1>5, <1>8, <2>1, <2>2, SendInv
  <1>. QED  BY <1>3, <1>7, <1>8 DEF Ports!Retry

LEMMA ReopenInv ==
  ASSUME PortsInv, NEW o \in Operation, Ports!Reopen(o)
  PROVE  PortsInv'
  <1>1. /\ ops[o].at \in {"reopenClose", "reopen"}
        /\ UNCHANGED <<port, serial, orig, matched, list, open, mode, own, trouble>>
    BY DEF Ports!Reopen, Ports!page, Ports!history
  <1>2. /\ Ports!TypeOK /\ PageTyped /\ ops[o].dev \in Device
        /\ trouble = "none" => PortStage(o)
    BY <1>1, GoingOn DEF Ports!OpenSteps
  <1>3. PICK d \in Device : d = ops[o].dev
    BY <1>2
  <1>4. PICK val : val = ops[o].val
    OBVIOUS
  <1>5. PageTyped'
    BY <1>1, <1>2 DEF PageTyped
  <1>6. trouble = "none" => PortHeld(d)' /\ open' \subseteq {d}
    BY <1>1, <1>2, <1>3 DEF PortStage, OpeningStage, PortHeld, OwnBut
  <1>7. ASSUME NEW where \in {"reopen", "rematch", "matchClosed"}, Ports!Send(o, where, d)
        PROVE  PortsInv'
    <2>1. /\ where \in Ports!Steps /\ where \notin Ports!Restores /\ d \in Ports!Null
          /\ where # "deviceUnlock"
      BY DEF Ports!Steps, Ports!OpenSteps, Ports!Restores, Ports!Null
    <2>2. trouble = "none" =>
            OpeningStage(where, d, d, val, "none")' /\ ClosingStage(where, d, d, val, "none")'
      BY <1>6 DEF OpeningStage, ClosingStage
    <2>. QED  BY <1>1, <1>3, <1>4, <1>5, <1>7, <2>1, <2>2, SendInv
  <1>. QED  BY <1>3, <1>7 DEF Ports!Reopen

LEMMA ClosingInv ==
  ASSUME PortsInv, NEW o \in Operation, Ports!Closing(o)
  PROVE  PortsInv'
  <1>1. /\ ops[o].at \in {"closeMode", "close"} /\ ops[o].reply # "none"
        /\ UNCHANGED <<open, mode, own, trouble>>
    BY DEF Ports!Closing, Ports!history
  <1>2. /\ Ports!TypeOK /\ PageTyped /\ ops[o] \in Operations /\ ops[o].dev \in Device
        /\ trouble = "none" => PortStage(o)
    BY <1>1, GoingOn, StageOf DEF Ports!CloseSteps
  <1>3. PICK d \in Device : d = ops[o].dev
    BY <1>2
  <1>4. PICK val : val = ops[o].val
    OBVIOUS
  <1>5. PageTyped'
    BY <1>2 DEF Ports!Closing, Ports!Forget, Ports!page, PageTyped, Ports!Null
  <1>6. CASE ops[o].at = "closeMode" /\ Ports!Send(o, "close", d) /\ UNCHANGED <<port, orig>>
    <2>1. /\ "close" \in Ports!Steps /\ "close" \notin Ports!Restores /\ d \in Ports!Null
      BY DEF Ports!Steps, Ports!CloseSteps, Ports!Restores, Ports!Null
    <2>2. trouble = "none" => PortHeld(d) /\ OwnBut({}) /\ open \subseteq {d}
      BY <1>1, <1>2, <1>3, <1>6, PageAssumption DEF PortStage, ClosingStage, PortSettled
    <2>3. trouble = "none" =>
            OpeningStage("close", d, d, val, "none")' /\ ClosingStage("close", d, d, val, "none")'
      BY <1>1, <1>6, <2>2 DEF OpeningStage, ClosingStage, OwnBut, PortHeld
    <2>. QED  BY <1>1, <1>3, <1>4, <1>5, <1>6, <2>1, <2>3, SendInv
  <1>7. CASE ops[o].at = "close" /\ Ports!Done(o)
    <2>1. ASSUME trouble = "none"  PROVE PortSettled'
      <3>1. /\ PortHeld(d) /\ OwnBut({}) /\ (open = {} \/ (open = {d} /\ ops[o].reply # "ok"))
        BY <1>2, <1>3, <1>7, <2>1 DEF PortStage, ClosingStage
      <3>2. (port' = NoDevice /\ open = {}) \/ UNCHANGED <<port, orig>>
        BY <1>3, <1>7, <3>1 DEF Ports!Closing, Ports!page, PortHeld
      <3>. QED  BY <1>1, <3>1, <3>2, PageAssumption DEF PortSettled, PortHeld, OwnBut
    <2>. QED  BY <1>1, <1>5, <1>7, <2>1, DoneInv
  <1>. QED  BY <1>3, <1>6, <1>7 DEF Ports!Closing, Ports!page

LEMMA ClosingDeviceInv ==
  ASSUME PortsInv, NEW o \in Operation, Ports!ClosingDevice(o)
  PROVE  PortsInv'
  <1>1. /\ ops[o].at \in {"deviceUnlock", "deviceMode"} /\ ops[o].reply # "none"
        /\ UNCHANGED <<port, orig, open, mode, own, trouble>>
    BY DEF Ports!ClosingDevice, Ports!history, Ports!page
  <1>2. /\ Ports!TypeOK /\ PageTyped /\ ops[o].dev \in Device /\ ops[o].val \in Mode
        /\ trouble = "none" => PortStage(o)
    <2>1. ops[o].at # "idle" /\ ops[o].at \in Ports!DeviceSteps
          /\ ops[o].at \in Ports!Restores \cup {"deviceUnlock"}
      BY <1>1 DEF Ports!DeviceSteps, Ports!Restores
    <2>. QED  BY <2>1, GoingOn
  <1>3. PICK d \in Device : d = ops[o].dev
    BY <1>2
  <1>4. PICK val \in Mode : val = ops[o].val
    BY <1>2
  <1>5. PageTyped'
    BY <1>2 DEF Ports!ClosingDevice, Ports!page, PageTyped, Ports!Null
  <1>6. trouble = "none" => PortSettled /\ port \in Device /\ val = own[port]
    BY <1>1, <1>2, <1>4 DEF PortStage, ClosingStage
  <1>7. PortSettled => PortSettled'
    BY <1>1 DEF PortSettled, PortHeld, OwnBut
  <1>8. CASE ops[o].at = "deviceUnlock" /\ Ports!Send(o, "deviceMode", port)
    <2>1. PICK p \in Ports!Null : p = port
      BY <1>2 DEF PageTyped
    <2>2. /\ "deviceMode" \in Ports!Steps /\ "deviceMode" \notin {"open", "reopen", "deviceUnlock"}
      BY DEF Ports!Steps, Ports!DeviceSteps
    <2>3. trouble = "none" =>
            OpeningStage("deviceMode", d, p, val, "none")' /\ ClosingStage("deviceMode", d, p, val, "none")'
      BY <1>1, <1>6, <1>7, <2>1 DEF OpeningStage, ClosingStage
    <2>. QED  BY <1>1, <1>3, <1>4, <1>5, <1>8, <2>1, <2>2, <2>3, SendInv
  <1>9. CASE ops[o].at = "deviceMode" /\ Ports!Done(o)
    BY <1>1, <1>5, <1>6, <1>7, <1>9, DoneInv
  <1>. QED  BY <1>8, <1>9 DEF Ports!ClosingDevice

LEMMA LoggingOutInv ==
  ASSUME PortsInv, NEW o \in Operation, Ports!LoggingOut(o)
  PROVE  PortsInv'
  <1>1. /\ ops[o].at \in {"outMode", "outClose", "outFetch"} /\ ops[o].reply # "none"
        /\ UNCHANGED <<open, mode, own, trouble>>
    BY DEF Ports!LoggingOut, Ports!history
  <1>2. /\ Ports!TypeOK /\ PageTyped /\ ops[o] \in Operations
        /\ trouble = "none" => PortStage(o)
    BY <1>1, GoingOn, StageOf
  <1>3. PICK d \in Ports!Null : d = ops[o].dev
    BY <1>2 DEF Operations
  <1>4. PICK val : val = ops[o].val
    OBVIOUS
  <1>5. PageTyped'
    BY <1>2 DEF Ports!LoggingOut, Ports!ClearAll, Ports!page, PageTyped, Ports!Null
  <1>6. /\ {"outClose", "outFetch"} \subseteq Ports!Steps
        /\ {"outClose", "outFetch"} \cap
             (Ports!Restores \cup Ports!OpenSteps \cup Ports!CloseSteps \cup Ports!DeviceSteps) = {}
        /\ NoDevice \in Ports!Null
    BY DEF Ports!Steps, Ports!OpenSteps, Ports!CloseSteps, Ports!DeviceSteps, Ports!LogoutSteps,
       Ports!Restores, Ports!Null
  <1>7. CASE ops[o].at = "outMode" /\ Ports!Send(o, "outClose", d) /\ UNCHANGED <<port, orig>>
    <2>1. trouble = "none" => d \in Device /\ port = d /\ OwnBut({}) /\ open \subseteq {d}
      BY <1>1, <1>2, <1>3, <1>7, PageAssumption DEF PortStage, ClosingStage, PortSettled
    <2>2. trouble = "none" =>
            OpeningStage("outClose", d, d, val, "none")' /\ ClosingStage("outClose", d, d, val, "none")'
      BY <1>1, <1>7, <2>1 DEF OpeningStage, ClosingStage, OwnBut
    <2>. QED  BY <1>1, <1>3, <1>4, <1>5, <1>6, <1>7, <2>2, SendInv
  <1>8. CASE ops[o].at = "outClose" /\ Ports!Send(o, "outFetch", NoDevice) /\ port' = NoDevice
    <2>1. trouble = "none" => OwnBut({}) /\ open = {}
      BY <1>1, <1>2, <1>8 DEF PortStage, ClosingStage, Operations, Ports!Decisive
    <2>2. trouble = "none" =>
            /\ OpeningStage("outFetch", d, NoDevice, val, "none")'
            /\ ClosingStage("outFetch", d, NoDevice, val, "none")'
      BY <1>1, <1>8, <2>1 DEF OpeningStage, ClosingStage, OwnBut
    <2>. QED  BY <1>1, <1>3, <1>4, <1>5, <1>6, <1>8, <2>2, SendInv
  <1>9. CASE ops[o].at = "outFetch" /\ Ports!Done(o) /\ UNCHANGED port
    <2>1. trouble = "none" => PortSettled'
      BY <1>1, <1>2, <1>9 DEF PortStage, ClosingStage, PortSettled, OwnBut
    <2>. QED  BY <1>1, <1>5, <1>9, <2>1, DoneInv
  <1>. QED  BY <1>3, <1>7, <1>8, <1>9 DEF Ports!LoggingOut, Ports!ClearAll, Ports!page

\* What happens to the device list concerns no operation.
LEMMA ListInv ==
  ASSUME PortsInv,
         \/ \E there, ready \in BOOLEAN : Ports!DeviceList(there, ready)
         \/ \E d \in Device : Ports!SelectDevice(d)
         \/ UNCHANGED Ports!vars
  PROVE  PortsInv'
  <1>1. UNCHANGED <<port, orig, matched, ops, open, mode, own, trouble>>
    BY DEF Ports!DeviceList, Ports!SelectDevice, Ports!vars, Ports!page, Ports!history
  <1>2. serial' \in Ports!Null /\ list' \subseteq Device
    BY DEF PortsInv, Ports!TypeOK, Ports!Null, Ports!DeviceList, Ports!SelectDevice,
       Ports!ApplyDeviceList, Ports!vars, Ports!page
  <1>3. Ports!TypeOK'
    BY <1>1, <1>2 DEF PortsInv, Ports!TypeOK
  <1>. QED  BY <1>1, <1>3 DEF PortsInv, PortTyped, PortStage, OpeningStage, ClosingStage,
            PortSettled, PortHeld, OwnBut

LEMMA PortsNextInv ==
  ASSUME PortsInv, [Ports!Next]_(Ports!vars)
  PROVE  PortsInv'
  <1>1. ASSUME NEW o \in Operation, Ports!GoesOn(o)  PROVE PortsInv'
    BY <1>1, LeaveInv, OpenedInv, PrepareInv, MatchInv, RetryInv, ReopenInv, ClosingInv,
       ClosingDeviceInv, LoggingOutInv DEF Ports!GoesOn
  <1>2. ASSUME NEW o \in Operation, Ports!Carry(o) \/ Ports!Fail(o) \/ Ports!Logout(o)
        PROVE  PortsInv'
    BY <1>2, CarryInv, FailInv, LogoutInv
  <1>3. ASSUME NEW o \in Operation, NEW d \in Device,
               Ports!OpenPort(o, d) \/ Ports!ClosePort(o, d) \/ Ports!CloseDevice(o, d)
        PROVE  PortsInv'
    BY <1>3, OpenPortInv, ClosePortInv, CloseDeviceInv
  <1>. QED  BY <1>1, <1>2, <1>3, ListInv DEF Ports!Next

\* PortsInv's stages say so of every step of an operation: where the device's
\* own mode is before it is changed, and that it is remembered from then until
\* closePort, closeDevice or doLogout has set it.
LEMMA StagesKeepModes ==
  ASSUME PortsInv, trouble = "none"
  PROVE  \A d \in Device : mode[d] # own[d] => port = d /\ orig = own[d]
  <1>1. PortSettled => OwnBut({}) \/ PortHeld(port)
    BY DEF PortSettled
  <1>2. CASE \A o \in Operation : ops[o].at = "idle"
    BY <1>1, <1>2 DEF PortsInv, OwnBut, PortHeld
  <1>3. ASSUME NEW o \in Operation, ops[o].at # "idle"
        PROVE  OwnBut({}) \/ PortHeld(ops[o].dev) \/ PortHeld(port)
    <2>1. PortStage(o) /\ ops[o].at \in Ports!Steps
      BY <1>3, StageOf DEF Operations
    <2>. QED  BY <1>1, <2>1 DEF PortStage, OpeningStage, ClosingStage, Ports!Steps,
              Ports!OpenSteps, Ports!CloseSteps, Ports!DeviceSteps, Ports!LogoutSteps
  <1>. QED  BY <1>2, <1>3 DEF OwnBut, PortHeld

\* At every moment, also in the middle of an operation, a device that is not in its
\* own mode is the selected port's and the page remembers the mode to set back;
\* between operations no port is open that the page has forgotten.  Commands that
\* fail to open, close or reopen a port, to set mode 0, to find or to restart the
\* device are within it; overlapping operations, a port opened while one is
\* selected, and a failing UNLOCK, query, restoring command or logout's close are
\* not.
THEOREM ModesComeBack == Ports!Spec => []ModesAreRestored
  <1>1. PortsInv => ModesAreRestored
    BY StagesKeepModes DEF PortsInv, ModesAreRestored, Ports!RestoredWithoutTrouble, Ports!Busy,
       PortSettled
  <1>. QED  BY <1>1, PortsInitInv, PortsNextInv, PTL DEF Ports!Spec

\* The list shows matched devices only, unless a logout has taken the port away
\* and has not emptied the list yet.
PortsListed == port # NoDevice => list \subseteq matched

\* The step selects no device that is not matched.
SelectsMatched ==
  serial' \in Device \ matched' =>
    \/ serial' = serial /\ serial \notin matched
    \/ port = NoDevice /\ Ports!SelectDevice(serial')

LEMMA ApplyListDoes ==
  ASSUME NEW sel, NEW mapped, mapped \subseteq Device, NEW there \in BOOLEAN,
         NEW ready \in BOOLEAN, Ports!ApplyDeviceList(sel, mapped, there, ready)
  PROVE  /\ list' \subseteq mapped
         /\ serial' \in mapped \cup {NoDevice, sel}
  BY DEF Ports!ApplyDeviceList

LEMMA PortsSelectMatched ==
  ASSUME PortsInv, PortsListed, [Ports!Next]_(Ports!vars)
  PROVE  PortsListed' /\ SelectsMatched
  <1>1. Ports!TypeOK /\ NoDevice \notin Device /\ matched \subseteq Device
    BY PageAssumption DEF PortsInv, Ports!TypeOK
  <1>2. ASSUME UNCHANGED <<serial, matched>>  PROVE SelectsMatched
    BY <1>2 DEF SelectsMatched
  <1>3. ASSUME serial' = NoDevice  PROVE SelectsMatched
    BY <1>1, <1>3 DEF SelectsMatched
  <1>4. ASSUME \/ list' = {} \/ port' = NoDevice
               \/ UNCHANGED <<list, port>> /\ matched \subseteq matched'
        PROVE  PortsListed'
    BY <1>4 DEF PortsListed
  <1>5. ASSUME UNCHANGED Ports!page  PROVE PortsListed' /\ SelectsMatched
    BY <1>2, <1>4, <1>5 DEF Ports!page
  <1>6. ASSUME UNCHANGED <<serial, matched>>, list' = {}  PROVE PortsListed' /\ SelectsMatched
    BY <1>2, <1>4, <1>6
  <1>7. ASSUME NEW o \in Operation, Ports!Leave(o) \/ Ports!Closing(o)
        PROVE  PortsListed' /\ SelectsMatched
    <2>1. UNCHANGED Ports!page \/ (serial' = NoDevice /\ list' = {})
      BY <1>7 DEF Ports!Leave, Ports!Closing, Ports!Forget
    <2>. QED  BY <1>3, <1>4, <1>5, <2>1
  <1>8. ASSUME NEW o \in Operation, Ports!Opened(o) \/ Ports!Retry(o)
        PROVE  PortsListed' /\ SelectsMatched
    BY <1>5, <1>6, <1>8 DEF Ports!Opened, Ports!Retry, Ports!Searching
  <1>9. ASSUME NEW o \in Operation, Ports!Prepare(o)
        PROVE  PortsListed' /\ SelectsMatched
    <2>1. /\ UNCHANGED <<serial, matched, port>>
          /\ list' = {} \/ UNCHANGED list
      BY <1>9 DEF Ports!Prepare, Ports!Searching, Ports!page
    <2>. QED  BY <1>2, <1>4, <2>1
  <1>10. ASSUME NEW o \in Operation, Ports!Match(o)
         PROVE  PortsListed' /\ SelectsMatched
    <2>1. matched' = matched \cup {ops[o].dev} /\ UNCHANGED port /\ ops[o].dev \in Device
      <3>1. ops[o].at # "idle" /\ ops[o].at \in Ports!OpenSteps
        BY <1>10 DEF Ports!Match, Ports!OpenSteps
      <3>. QED  BY <1>10, <3>1, GoingOn DEF Ports!Match
    <2>2. CASE serial' = ops[o].dev /\ UNCHANGED list
      BY <1>4, <2>1, <2>2 DEF SelectsMatched
    <2>3. ASSUME NEW there \in BOOLEAN, NEW ready \in BOOLEAN,
                 Ports!ApplyDeviceList(ops[o].dev, matched', there, ready)
          PROVE  PortsListed' /\ SelectsMatched
      <3>1. list' \subseteq matched' /\ serial' \in matched' \cup {NoDevice}
        BY <1>1, <2>1, <2>3 DEF Ports!ApplyDeviceList
      <3>. QED  BY <1>1, <3>1 DEF PortsListed, SelectsMatched
    <2>. QED  BY <1>10, <2>2, <2>3 DEF Ports!Match
  <1>11. ASSUME NEW o \in Operation,
                Ports!Carry(o) \/ Ports!Fail(o) \/ Ports!Reopen(o)
                  \/ \E d \in Device : Ports!OpenPort(o, d) \/ Ports!ClosePort(o, d)
         PROVE  PortsListed' /\ SelectsMatched
    BY <1>5, <1>11 DEF Ports!Carry, Ports!Fail, Ports!Reopen, Ports!OpenPort, Ports!ClosePort
  <1>12. ASSUME NEW o \in Operation, Ports!ClosingDevice(o)
         PROVE  PortsListed' /\ SelectsMatched
    <2>1. \/ UNCHANGED Ports!page
          \/ /\ serial' = (IF serial = ops[o].dev THEN NoDevice ELSE serial)
             /\ matched' = matched \ {ops[o].dev} /\ list' = {}
      BY <1>12 DEF Ports!ClosingDevice
    <2>2. ASSUME serial' = (IF serial = ops[o].dev THEN NoDevice ELSE serial),
                 matched' = matched \ {ops[o].dev}, list' = {}
          PROVE  PortsListed' /\ SelectsMatched
      BY <1>1, <1>4, <2>2 DEF SelectsMatched
    <2>. QED  BY <1>5, <2>1, <2>2
  <1>13. ASSUME NEW o \in Operation, \E d \in Device : Ports!CloseDevice(o, d)
         PROVE  PortsListed' /\ SelectsMatched
    BY <1>6, <1>13 DEF Ports!CloseDevice
  <1>14. ASSUME NEW o \in Operation, Ports!Logout(o) \/ Ports!LoggingOut(o)
         PROVE  PortsListed' /\ SelectsMatched
    <2>1. \/ UNCHANGED Ports!page
          \/ serial' = NoDevice /\ port' = NoDevice
          \/ UNCHANGED <<serial, matched, port>> /\ (list' = {} \/ UNCHANGED list)
      BY <1>14 DEF Ports!Logout, Ports!LoggingOut, Ports!ClearAll
    <2>. QED  BY <1>2, <1>3, <1>4, <1>5, <2>1
  <1>15. ASSUME NEW there \in BOOLEAN, NEW ready \in BOOLEAN, Ports!DeviceList(there, ready)
         PROVE  PortsListed' /\ SelectsMatched
    <2>1. /\ list' \subseteq matched /\ serial' \in matched \cup {NoDevice, serial}
          /\ UNCHANGED matched
      BY <1>1, <1>15, ApplyListDoes DEF Ports!DeviceList
    <2>. QED  BY <1>1, <2>1 DEF PortsListed, SelectsMatched
  <1>16. ASSUME NEW d \in Device, Ports!SelectDevice(d)
         PROVE  PortsListed' /\ SelectsMatched
    <2>1. d \in list /\ serial' = d /\ UNCHANGED <<port, matched, list>>
      BY <1>16 DEF Ports!SelectDevice
    <2>2. Ports!SelectDevice(serial')
      BY <1>16, <2>1
    <2>. QED  BY <2>1, <2>2 DEF PortsListed, SelectsMatched
  <1>17. CASE UNCHANGED Ports!vars
    BY <1>5, <1>17 DEF Ports!vars
  <1>. QED  BY <1>7, <1>8, <1>9, <1>10, <1>11, <1>12, <1>13, <1>14, <1>15, <1>16, <1>17
            DEF Ports!Next, Ports!GoesOn

\* No step selects a device that the page has not mapped to a port, so that a
\* shell command goes to one it has, except a click on the list that a logout has
\* not emptied yet.
THEOREM SelectionIsMatched == Ports!Spec => SelectedIsMatched
  <1>1. Ports!Init => PortsListed
    BY DEF Ports!Init, PortsListed
  <1>2. PortsInv /\ PortsListed /\ [Ports!Next]_(Ports!vars) =>
          PortsListed' /\ [SelectsMatched]_(Ports!vars)
    BY PortsSelectMatched
  <1>. QED  BY <1>1, <1>2, PortsInitInv, PortsNextInv, PTL
            DEF Ports!Spec, SelectedIsMatched, Ports!SelectedIsMatched, SelectsMatched

-----------------------------------------------------------------------------
\* The page's engines.

\* Whoever is looked at or has a component shows something or will.
EngServedInv ==
  \A e \in Engine :
    tab = e \/ current[e] # NoComponent =>
      content[e] # "blank" \/ \E v \in Visit : visits[e][v].at # "idle"

\* Who is between two readings that did not overlap knows the attributes of the
\* device asked for last, or none, and so does every engine that was not reset
\* while it entered.
EngChosenInv ==
  /\ crossed \/ \A r \in Read : reads[r] \in {asked, NoDevice}
  /\ crossed \/ (\E r \in Read : reads[r] # NoDevice) \/
       /\ attrs \in {asked, NoDevice}
       /\ \A e \in Engine \ overtaken :
            /\ current[e] \in {asked, NoDevice, NoComponent}
            /\ \A v \in Visit : visits[e][v].at = "idle" \/ visits[e][v].model \in {asked, NoDevice}
  /\ \A e \in Engine : content[e] = "component" => current[e] # NoComponent

EngInv == Eng!TypeOK /\ EngServedInv /\ EngChosenInv

LEMMA EngInitInv ==
  ASSUME Eng!Init
  PROVE  EngInv
  <1>1. Eng!TypeOK
    BY DEF Eng!Init, Eng!TypeOK, Eng!Attrs, Eng!Calls, Eng!Idle
  <1>2. EngServedInv
    <2>1. \A e \in Engine : tab # e \/ content[e] # "blank"
      BY PageAssumption DEF Eng!Init
    <2>2. \A e \in Engine : current[e] = NoComponent
      BY DEF Eng!Init
    <2>. QED  BY <2>1, <2>2 DEF EngServedInv
  <1>3. EngChosenInv
    <2>1. /\ \A r \in Read : reads[r] = NoDevice
          /\ attrs = NoDevice
          /\ \A e \in Engine : current[e] = NoComponent /\ content[e] = "blank"
      BY DEF Eng!Init
    <2>2. \A e \in Engine, v \in Visit : visits[e][v].at = "idle"
      BY DEF Eng!Init, Eng!Idle
    <2>. QED  BY <2>1, <2>2 DEF EngChosenInv
  <1>. QED  BY <1>1, <1>2, <1>3 DEF EngInv

\* An engine that enters has one call more under way.
LEMMA EnterDoes ==
  ASSUME Eng!TypeOK, NEW t \in Engine \cup {OtherTab}, NEW cur, NEW a \in Eng!Attrs,
         Eng!Enter(t, cur, a)
  PROVE  /\ visits' \in [Engine -> [Visit -> Eng!Calls]]
         /\ \A e \in Engine, v \in Visit :
              \/ visits'[e][v] = visits[e][v]
              \/ e = t /\ visits'[e][v] = [at |-> "fetch", model |-> a]
         /\ \A e \in Engine, v \in Visit :
              visits[e][v].at # "idle" => visits'[e][v] = visits[e][v]
         /\ t \in Engine /\ cur[t] = NoComponent => \E v \in Visit : visits'[t][v].at # "idle"
  <1>1. CASE UNCHANGED visits /\ ~(t \in Engine /\ cur[t] = NoComponent)
    BY <1>1 DEF Eng!TypeOK
  <1>2. ASSUME t \in Engine, NEW v \in Visit \ Eng!Entering(t),
               visits' = [visits EXCEPT ![t][v] = [at |-> "fetch", model |-> a]]
        PROVE  /\ visits' \in [Engine -> [Visit -> Eng!Calls]]
               /\ \A e \in Engine, w \in Visit :
                    \/ visits'[e][w] = visits[e][w]
                    \/ e = t /\ visits'[e][w] = [at |-> "fetch", model |-> a]
               /\ \A e \in Engine, w \in Visit :
                    visits[e][w].at # "idle" => visits'[e][w] = visits[e][w]
               /\ visits'[t][v].at # "idle"
    <2>1. [at |-> "fetch", model |-> a] \in Eng!Calls
      BY DEF Eng!Calls
    <2>. QED  BY <1>2, <2>1 DEF Eng!TypeOK, Eng!Entering
  <1>. QED  BY <1>1, <1>2 DEF Eng!Enter

\* reset() and the engine of the active tab enters again.
LEMMA RefreshInv ==
  ASSUME EngInv, NEW a \in Eng!Attrs, Eng!Refresh(a), UNCHANGED <<tab, asked, crossed>>,
         device' \in Eng!Attrs, reads' \in [Read -> Eng!Attrs],
         \A r \in Read : reads'[r] \in {reads[r], NoDevice},
         crossed \/ a \in {asked, NoDevice}
  PROVE  EngInv'
  <1> DEFINE none == [e \in Engine |-> NoComponent]
  <1> USE DEF EngInv
  <1>1. /\ attrs' = a /\ current' = none
        /\ content' = [e \in Engine |-> "blank"]
        /\ overtaken' = {e \in Engine : Eng!Entering(e) # {}}
        /\ Eng!Enter(tab, none, a)
    BY DEF Eng!Refresh
  <1>2. tab \in Engine \cup {OtherTab}
    BY DEF Eng!TypeOK
  <1> HIDE DEF none
  <1>3. /\ visits' \in [Engine -> [Visit -> Eng!Calls]]
        /\ \A e \in Engine, v \in Visit :
             \/ visits'[e][v] = visits[e][v]
             \/ e = tab /\ visits'[e][v] = [at |-> "fetch", model |-> a]
        /\ tab \in Engine /\ none[tab] = NoComponent => \E v \in Visit : visits'[tab][v].at # "idle"
    BY <1>1, <1>2, EnterDoes
  <1>4. Eng!TypeOK'
    BY <1>1, <1>3 DEF Eng!TypeOK, none
  <1>5. EngServedInv'
    BY <1>1, <1>3 DEF EngServedInv, none
  <1>6. EngChosenInv'
    <2>1. crossed' \/ \A r \in Read : reads'[r] \in {asked', NoDevice}
      BY DEF EngChosenInv
    <2>2. ASSUME ~crossed, NEW e \in Engine \ overtaken', NEW v \in Visit
          PROVE  visits'[e][v].at = "idle" \/ visits'[e][v].model \in {asked, NoDevice}
      <3>1. visits[e][v].at = "idle"
        BY <1>1, <2>2 DEF Eng!Entering
      <3>. QED  BY <1>3, <2>2, <3>1
    <2>3. \A e \in Engine : current'[e] = NoComponent /\ content'[e] = "blank"
      BY <1>1 DEF none
    <2>. QED  BY <1>1, <2>1, <2>2, <2>3 DEF EngChosenInv
  <1>. QED  BY <1>4, <1>5, <1>6

LEMMA EngTabInv ==
  ASSUME EngInv, NEW t \in Engine \cup {OtherTab}, Eng!SwitchTab(t)
  PROVE  EngInv'
  <1> USE DEF EngInv
  <1>1. /\ tab' = t /\ Eng!Enter(t, current, attrs) /\ attrs \in Eng!Attrs
        /\ UNCHANGED <<device, attrs, reads, asked, crossed, current, content, overtaken>>
    BY DEF Eng!SwitchTab, Eng!TypeOK
  <1>2. /\ visits' \in [Engine -> [Visit -> Eng!Calls]]
        /\ \A e \in Engine, v \in Visit :
             \/ visits'[e][v] = visits[e][v]
             \/ e = t /\ visits'[e][v] = [at |-> "fetch", model |-> attrs]
        /\ \A e \in Engine, v \in Visit :
             visits[e][v].at # "idle" => visits'[e][v] = visits[e][v]
        /\ t \in Engine /\ current[t] = NoComponent => \E v \in Visit : visits'[t][v].at # "idle"
    BY <1>1, EnterDoes
  <1>3. Eng!TypeOK'
    BY <1>1, <1>2 DEF Eng!TypeOK
  <1>4. EngServedInv'
    BY <1>1, <1>2 DEF EngServedInv
  <1>5. EngChosenInv'
    BY <1>1, <1>2 DEF EngChosenInv
  <1>. QED  BY <1>3, <1>4, <1>5

LEMMA EngSelectInv ==
  ASSUME EngInv, NEW d \in Device, NEW r \in Read, Eng!SelectDevice(d, r)
  PROVE  EngInv'
  <1> USE DEF EngInv
  <1>1. /\ device' = d /\ reads' = [reads EXCEPT ![r] = d] /\ asked' = d
        /\ crossed' = (Eng!Reading # {})
        /\ UNCHANGED <<tab, attrs, Eng!engines>>
    BY DEF Eng!SelectDevice
  <1>2. Eng!TypeOK'
    BY <1>1 DEF Eng!TypeOK, Eng!Attrs, Eng!engines
  <1>3. EngServedInv'
    BY <1>1 DEF EngServedInv, Eng!engines
  <1>4. EngChosenInv'
    <2>1. reads'[r] = d /\ d # NoDevice /\ \A q \in Read \ {r} : reads'[q] = reads[q]
      BY <1>1, PageAssumption DEF Eng!TypeOK
    <2>2. crossed' \/ \A q \in Read : reads'[q] \in {asked', NoDevice}
      BY <1>1, <2>1 DEF Eng!Reading
    <2>. QED  BY <1>1, <2>1, <2>2 DEF EngChosenInv, Eng!engines
  <1>. QED  BY <1>2, <1>3, <1>4

LEMMA EngReadInv ==
  ASSUME EngInv, NEW r \in Read, Eng!AttrsRead(r)
  PROVE  EngInv'
  <1>1. PICK a \in {reads[r], NoDevice} : Eng!Refresh(a)
    BY DEF Eng!AttrsRead
  <1>2. a \in Eng!Attrs /\ (crossed \/ a \in {asked, NoDevice})
    BY DEF EngInv, EngChosenInv, Eng!TypeOK, Eng!Attrs
  <1>3. /\ UNCHANGED <<tab, asked, crossed>> /\ device' \in Eng!Attrs
        /\ reads' \in [Read -> Eng!Attrs]
        /\ \A q \in Read : reads'[q] \in {reads[q], NoDevice}
    BY DEF EngInv, Eng!AttrsRead, Eng!TypeOK, Eng!Attrs
  <1>. QED  BY <1>1, <1>2, <1>3, RefreshInv

LEMMA EngLeaveInv ==
  ASSUME EngInv, Eng!CloseDevice \/ Eng!SrsdDisconnect \/ \E d \in Device : Eng!SelectUnready(d)
  PROVE  EngInv'
  <1>1. CASE Eng!SrsdDisconnect
    <2>1. /\ UNCHANGED <<tab, asked, crossed, reads>> /\ device' \in Eng!Attrs
          /\ NoDevice \in Eng!Attrs /\ Eng!Refresh(NoDevice) /\ reads \in [Read -> Eng!Attrs]
      BY <1>1 DEF EngInv, Eng!SrsdDisconnect, Eng!TypeOK, Eng!Attrs
    <2>. QED  BY <2>1, RefreshInv
  <1>2. CASE Eng!CloseDevice \/ \E d \in Device : Eng!SelectUnready(d)
    <2>1. device' \in Eng!Attrs /\ UNCHANGED <<tab, attrs, reads, asked, crossed, Eng!engines>>
      BY <1>2 DEF Eng!CloseDevice, Eng!SelectUnready, Eng!Attrs
    <2>. QED  BY <2>1 DEF EngInv, EngServedInv, EngChosenInv, Eng!TypeOK, Eng!engines
  <1>. QED  BY <1>1, <1>2

LEMMA EngFetchInv ==
  ASSUME EngInv, NEW e \in Engine, NEW v \in Visit, Eng!FetchProfile(e, v)
  PROVE  EngInv'
  <1> USE DEF EngInv
  <1>1. PICK m \in {visits[e][v].model, NoDevice} :
          visits' = [visits EXCEPT ![e][v] = [at |-> "import", model |-> m]]
    BY DEF Eng!FetchProfile
  <1>2. /\ visits[e][v].at = "fetch" /\ content' = [content EXCEPT ![e] = "blank"]
        /\ UNCHANGED <<tab, device, attrs, reads, asked, crossed, current, overtaken>>
    BY DEF Eng!FetchProfile, Eng!page
  <1>3. visits[e][v] \in Eng!Calls
    BY DEF Eng!TypeOK
  <1>4. [at |-> "import", model |-> m] \in Eng!Calls
    BY <1>3 DEF Eng!Calls, Eng!Attrs
  <1>5. /\ visits' \in [Engine -> [Visit -> Eng!Calls]]
        /\ visits'[e][v].at = "import" /\ visits'[e][v].model = m
        /\ \A f \in Engine, w \in Visit : visits'[f][w] = visits[f][w] \/ (f = e /\ w = v)
    BY <1>1, <1>4 DEF Eng!TypeOK
  <1>6. Eng!TypeOK'
    BY <1>2, <1>5 DEF Eng!TypeOK
  <1>7. EngServedInv'
    <2>1. \A f \in Engine \ {e} : content'[f] = content[f]
      BY <1>2 DEF Eng!TypeOK
    <2>. QED  BY <1>2, <1>5, <2>1 DEF EngServedInv
  <1>8. EngChosenInv'
    <2>1. \A f \in Engine : content'[f] \in {content[f], "blank"}
      BY <1>2 DEF Eng!TypeOK
    <2>2. \A f \in Engine : content'[f] = "component" => current'[f] # NoComponent
      BY <1>2, <2>1 DEF EngChosenInv
    <2>3. \A f \in Engine \ {e}, w \in Visit : visits'[f][w] = visits[f][w]
      BY <1>5
    <2>4. \A w \in Visit \ {v} : visits'[e][w] = visits[e][w]
      BY <1>5
    <2>5. visits'[e][v].model \in {visits[e][v].model, NoDevice}
      BY <1>5
    <2>. QED  BY <1>2, <2>2, <2>3, <2>4, <2>5 DEF EngChosenInv
  <1>. QED  BY <1>6, <1>7, <1>8

LEMMA EngMountInv ==
  ASSUME EngInv, NEW e \in Engine, NEW v \in Visit, Eng!Mount(e, v)
  PROVE  EngInv'
  <1> USE DEF EngInv
  <1>1. /\ visits[e][v].at = "import" /\ visits' = [visits EXCEPT ![e][v] = Eng!Idle]
        /\ UNCHANGED <<tab, device, attrs, reads, asked, crossed, overtaken>>
    BY DEF Eng!Mount, Eng!page
  <1>2. PICK shown \in {"component", "error"} : content' = [content EXCEPT ![e] = shown]
    BY DEF Eng!Mount
  <1>3. \/ current' = [current EXCEPT ![e] = visits[e][v].model]
        \/ current' = current /\ shown = "error"
    BY <1>2 DEF Eng!Mount, Eng!TypeOK
  <1>4. visits[e][v] \in Eng!Calls /\ Eng!Idle \in Eng!Calls
    BY DEF Eng!TypeOK, Eng!Calls, Eng!Idle, Eng!Attrs
  <1>5. visits[e][v].model \in Eng!Attrs
    BY <1>4 DEF Eng!Calls
  <1>6. /\ visits' \in [Engine -> [Visit -> Eng!Calls]] /\ visits'[e][v].at = "idle"
        /\ \A f \in Engine, w \in Visit : visits'[f][w] = visits[f][w] \/ (f = e /\ w = v)
    BY <1>1, <1>4 DEF Eng!TypeOK, Eng!Idle
  <1>7. Eng!TypeOK'
    BY <1>1, <1>2, <1>3, <1>5, <1>6 DEF Eng!TypeOK
  <1>8. EngServedInv'
    <2>1. \A f \in Engine \ {e} : content'[f] = content[f] /\ current'[f] = current[f]
      BY <1>2, <1>3 DEF Eng!TypeOK
    <2>2. content'[e] # "blank"
      BY <1>2 DEF Eng!TypeOK
    <2>. QED  BY <1>1, <1>6, <2>1, <2>2 DEF EngServedInv
  <1>9. EngChosenInv'
    <2>1. \A f \in Engine \ {e} : content'[f] = content[f] /\ current'[f] = current[f]
      BY <1>2, <1>3 DEF Eng!TypeOK
    <2>2. /\ content'[e] = shown
          /\ current'[e] = visits[e][v].model \/ (current'[e] = current[e] /\ shown = "error")
      BY <1>2, <1>3 DEF Eng!TypeOK
    <2>3. visits[e][v].model # NoComponent
      BY <1>5, PageAssumption DEF Eng!Attrs
    <2>. QED  BY <1>1, <1>6, <2>1, <2>2, <2>3 DEF EngChosenInv
  <1>. QED  BY <1>7, <1>8, <1>9

LEMMA EngNextInv ==
  ASSUME EngInv, [Eng!Next]_(Eng!vars)
  PROVE  EngInv'
  <1>1. CASE UNCHANGED Eng!vars
    BY <1>1 DEF Eng!vars, Eng!page, Eng!engines, EngInv, EngServedInv, EngChosenInv, Eng!TypeOK
  <1>. QED  BY <1>1, EngTabInv, EngSelectInv, EngReadInv, EngLeaveInv, EngFetchInv, EngMountInv
            DEF Eng!Next, Eng!GoesOn

\* The active tab is not left blank: it has a component or an error, or an enter()
\* that will bring one.  What it shows was chosen for the selected device, if
\* neither two readings of attributes nor a reset and an enter() overlapped.
THEOREM TabsShowTheirDevice == Eng!Spec => []EnginesShow
  <1>1. EngInv => EnginesShow
    BY DEF EngInv, EngServedInv, EngChosenInv, EnginesShow, Eng!TabIsServed, Eng!ShownIsSelected,
       Eng!Entering, Eng!Reading
  <1>. QED  BY <1>1, EngInitInv, EngNextInv, PTL DEF Eng!Spec
=============================================================================
