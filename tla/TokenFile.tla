------------------------------ MODULE TokenFile ------------------------------
(***************************************************************************)
(* tokens.json, the file of access codes, which two programs share without *)
(* a lock: the server (server.py) and the administration program           *)
(* (manage_tokens.py).  Both read the whole file, change their copy and    *)
(* save the whole copy; the administration program waits for its user in   *)
(* between.  write_text first empties the file and then fills it, so a     *)
(* reader may find it empty, which both programs take for "no codes", and  *)
(* a program may die between the two.                                      *)
(*                                                                         *)
(* The server is one process: it reads, saves and changes its memory       *)
(* without giving way to another of its handlers, only the administration  *)
(* program comes in between.  Permissions, dates and addresses of an entry *)
(* are left out, so a change of permissions saves the copy as it was read. *)
(* What the agents do is reduced to how many have a session on a code; the *)
(* tables of the sessions are those of module RelaySessions.               *)
(***************************************************************************)
EXTENDS Naturals, Sequences

CONSTANTS
  Code,       \* access codes _gen_code may draw
  Unlimited,  \* codes that are created with unlimited_uses
  MaxUses,    \* max_uses of the other codes
  Server,     \* the server
  Admin,      \* the administration program
  NoCode,     \* no session is about to start
  NoScreen,   \* the administration program shows its main menu
  Expiring,   \* codes that are created with an expiry date
  MaxStarted, \* code -> bound on its sessions
  MaxCrashes  \* bound on the crashes

ASSUME CodeAssumption ==
  /\ Unlimited \subseteq Code
  /\ MaxUses \in [Code -> Nat \ {0}]
  /\ NoCode \notin Code
  /\ Server # Admin
  /\ Expiring \subseteq Code
  /\ MaxStarted \in [Code -> Nat]
  /\ MaxCrashes \in Nat

VARIABLES
  file,      \* the last content that was written whole
  torn,      \* the file is empty, or two saves got mixed up in it
  expired,   \* codes whose expiry date has passed
  up,        \* the server has started and has cleared the old locks
  live,      \* code -> agents that the server has a session with
  starting,  \* the code whose session starts with the server's last save
  screen,    \* what the administrator looks at: a copy and its overdue codes
  saves,     \* program -> the saves it is about to make, in order
  writing,   \* programs that have emptied the file and not yet filled it
  crashes,
  \* history: what the properties need to know of the past
  unseen,    \* program -> codes that changed since it read its copy
  lost,      \* codes with a change that a save of an older copy undid
  started,   \* code -> sessions that have started since it was created
  released   \* code -> locks dropped without counting a use

disk   == <<file, torn, writing>>
memory == <<up, live, starting>>
past   == <<lost, started, released>>
vars   == <<disk, memory, past, expired, screen, saves, crashes, unseen>>

Program == {Server, Admin}

Entry == [used : BOOLEAN, in_use : BOOLEAN, use_count : Nat]

\* A table has the entries of the codes that are there.
IsTable(t) == DOMAIN t \subseteq Code /\ t \in [DOMAIN t -> Entry]

\* A save writes a table; frees are the locks it drops without counting a use.
IsSave(s) ==
  /\ DOMAIN s = {"table", "frees"}
  /\ IsTable(s.table)
  /\ s.frees \subseteq Code

TypeOK ==
  /\ IsTable(file)
  /\ torn \in BOOLEAN
  /\ expired \subseteq Code
  /\ up \in BOOLEAN
  /\ live \in [Code -> Nat]
  /\ starting \in Code \cup {NoCode}
  /\ screen # NoScreen => IsTable(screen.table) /\ screen.overdue \subseteq Code
  /\ DOMAIN saves = Program
  /\ \A p \in Program : \A i \in 1 .. Len(saves[p]) : IsSave(saves[p][i])
  /\ writing \subseteq Program
  /\ crashes \in 0 .. MaxCrashes
  /\ unseen \in [Program -> SUBSET Code]
  /\ lost \subseteq Code
  /\ started \in [Code -> Nat]
  /\ released \in [Code -> Nat]

NoTable == [c \in {} |-> {}]

Init ==
  /\ file = NoTable
  /\ torn = FALSE
  /\ expired = {}
  /\ up = TRUE
  /\ live = [c \in Code |-> 0]
  /\ starting = NoCode
  /\ screen = NoScreen
  /\ saves = [p \in Program |-> <<>>]
  /\ writing = {}
  /\ crashes = 0
  /\ unseen = [p \in Program |-> {}]
  /\ lost = {}
  /\ started = [c \in Code |-> 0]
  /\ released = [c \in Code |-> 0]

-----------------------------------------------------------------------------
\* Tables.

\* Each definition named Wrong... is a plausible slip in the one after it; the
\* specification does not use it.

Codes(t) == DOMAIN t

Locked(t) == {c \in Codes(t) : t[c].in_use}

\* The entry menu_create writes.
NewEntry == [used |-> FALSE, in_use |-> FALSE, use_count |-> 0]

With(t, c, e) == [d \in Codes(t) \cup {c} |-> IF d = c THEN e ELSE t[d]]

Without(t, C) == [c \in Codes(t) \ C |-> t[c]]

\* The locks of the codes in C are dropped.
Unlock(t, C) == [c \in Codes(t) |->
                   IF c \in C THEN [t[c] EXCEPT !.in_use = FALSE] ELSE t[c]]

Lock(t, c) == [t EXCEPT ![c].in_use = TRUE]

Spend(t, c) == [t EXCEPT ![c].used = TRUE]

\* The use is counted and the lock stays.
WrongBurn(t, c) ==
  LET n == t[c].use_count + 1
  IN  IF c \in Unlimited THEN Unlock(t, {c})
      ELSE With(t, c, [used |-> n >= MaxUses[c], in_use |-> TRUE, use_count |-> n])

\* _burn_token on a code that is locked and not used up.
Burn(t, c) ==
  LET n == t[c].use_count + 1
  IN  IF c \in Unlimited THEN Unlock(t, {c})
      ELSE With(t, c, [used |-> n >= MaxUses[c], in_use |-> FALSE, use_count |-> n])

Exhausted(t, c) == c \notin Unlimited /\ t[c].use_count >= MaxUses[c]

\* _is_unusable
Unusable(t, overdue) ==
  {c \in Codes(t) : t[c].used \/ c \in overdue \/ Exhausted(t, c)}

-----------------------------------------------------------------------------
\* Reading and saving.

\* _load and _load_tokens: what cannot be read counts as no codes at all.
Content == IF torn THEN NoTable ELSE file

\* The program has read Content and is going to save s, a sequence of saves.
ReadThenSave(p, s) ==
  /\ saves' = [saves EXCEPT ![p] = s]
  /\ unseen' = [unseen EXCEPT ![p] = {}]

OneSave(t, frees) == <<[table |-> t, frees |-> frees]>>

\* write_text opens the file, which empties it.
OpenFile(p) ==
  /\ saves[p] # <<>>
  /\ p \notin writing
  /\ writing' = writing \cup {p}
  /\ torn' = TRUE
  /\ UNCHANGED <<file, memory, past, expired, screen, saves, crashes, unseen>>

\* The program has a copy that it may save.
Holds(p) == saves[p] # <<>> \/ (p = Admin /\ screen # NoScreen)

\* Codes whose entries differ in two tables.
Changed(t, u) ==
  {c \in Codes(t) \cup Codes(u) :
     ~(c \in Codes(t) /\ c \in Codes(u) /\ t[c] = u[c])}

\* write_text fills the file and closes it.  A file that is not empty at this
\* moment was filled by the other program after this one had emptied it: the
\* longer of the two texts shows, whole or with the shorter on top of it.
\*
\* With its last save the server has its session.  The other program's copy, if
\* it holds one, has aged by what this one changed.
FillFile(p) ==
  LET s      == Head(saves[p])
      last   == Len(saves[p]) = 1
      begins == IF p = Server /\ last THEN {starting} ELSE {}
      fresh  == IF p = Admin THEN Codes(s.table) \ (Codes(file) \cup unseen[p]) ELSE {}
  IN  /\ p \in writing
      /\ writing' = writing \ {p}
      /\ file' = s.table
      /\ torn' \in (IF torn THEN {FALSE} ELSE BOOLEAN)
      /\ saves' = [saves EXCEPT ![p] = Tail(@)]
      /\ live' = [c \in Code |-> IF c \in begins THEN live[c] + 1 ELSE live[c]]
      /\ starting' = IF p = Server /\ last THEN NoCode ELSE starting
      /\ unseen' = [q \in Program |->
           IF q = p THEN IF last THEN {} ELSE unseen[q]
           ELSE IF Holds(q) THEN unseen[q] \cup Changed(file, s.table) ELSE {}]
      /\ lost' = (lost \ fresh) \cup unseen[p]
      /\ started' = [c \in Code |-> IF c \in fresh THEN 0
                                    ELSE IF c \in begins THEN started[c] + 1
                                    ELSE started[c]]
      /\ released' = [c \in Code |-> IF c \in fresh \cup lost' THEN 0
                                     ELSE IF c \in s.frees THEN released[c] + 1
                                     ELSE released[c]]
      /\ UNCHANGED <<up, expired, screen, crashes>>

\* The program is killed.  What it was writing stays unwritten.
Die(p) ==
  /\ crashes < MaxCrashes
  /\ crashes' = crashes + 1
  /\ writing' = writing \ {p}
  /\ saves' = [saves EXCEPT ![p] = <<>>]
  /\ unseen' = [unseen EXCEPT ![p] = {}]

-----------------------------------------------------------------------------
\* The server.  Its handlers run one at a time and to their end.

ServerReady == up /\ saves[Server] = <<>>

\* A code that was revoked is still good.
WrongMayStart(t, c) == ~Exhausted(t, c) /\ c \notin expired

\* The checks of agent_hello that the file decides.
MayStart(t, c) == ~t[c].used /\ ~Exhausted(t, c) /\ c \notin expired

\* agent_hello that starts a session.  A lock that no agent has is dropped
\* first, with a save of its own.
HelloAccepted(c) ==
  LET t == Content
      free == Unlock(t, {c})
  IN  /\ ServerReady
      /\ started[c] < MaxStarted[c]
      /\ c \in Codes(t)
      /\ MayStart(t, c)
      /\ t[c].in_use => live[c] = 0
      /\ ReadThenSave(Server,
           (IF t[c].in_use THEN OneSave(free, {c}) ELSE <<>>)
             \o OneSave(Lock(free, c), {}))
      /\ starting' = c
      /\ UNCHANGED <<disk, past, up, live, expired, screen, crashes>>

\* agent_hello that turns an agent down and writes: the count is at its limit
\* and the code not yet marked, or a lock is dropped before the expiry date is
\* looked at.
HelloRejected(c) ==
  LET t == Content IN
  /\ ServerReady
  /\ c \in Codes(t)
  /\ ~t[c].used
  /\ IF Exhausted(t, c)
     THEN ReadThenSave(Server, OneSave(Spend(t, c), {}))
     ELSE /\ t[c].in_use /\ live[c] = 0 /\ c \in expired
          /\ ReadThenSave(Server, OneSave(Unlock(t, {c}), {c}))
  /\ UNCHANGED <<disk, memory, past, expired, screen, crashes>>

\* _burn_token: nothing happens to a code that is not locked, or cannot be read.
BurnToken(c) ==
  LET t == Content IN
  ReadThenSave(Server,
    IF c \in Locked(t) /\ ~t[c].used THEN OneSave(Burn(t, c), {}) ELSE <<>>)

\* An agent that has a session disconnects.
SessionEnds(c) ==
  /\ ServerReady
  /\ live[c] > 0
  /\ live' = [live EXCEPT ![c] = @ - 1]
  /\ BurnToken(c)
  /\ UNCHANGED <<disk, past, up, starting, expired, screen, crashes>>

\* _session_timer, of this session or of an earlier one: the use is counted
\* before the agent is gone, if there is one.
SessionTimer(c) ==
  /\ ServerReady
  /\ started[c] > 0
  /\ BurnToken(c)
  /\ UNCHANGED <<disk, memory, past, expired, screen, crashes>>

\* The clean-up saves whether or not it found an orphan.
WrongDropLocks(t, C) == ReadThenSave(Server, OneSave(Unlock(t, C), C))

\* The locks of C are dropped, if there are any.
DropLocks(t, C) ==
  ReadThenSave(Server, IF C = {} THEN <<>> ELSE OneSave(Unlock(t, C), C))

\* Codes that are used up or revoked are passed over, as _burn_token does.
WrongCleanupOrphanedTokens ==
  LET t == Content IN
  /\ ServerReady
  /\ DropLocks(t, {c \in Locked(t) : live[c] = 0 /\ ~t[c].used})
  /\ UNCHANGED <<disk, memory, past, expired, screen, crashes>>

\* One round of _cleanup_orphaned_tokens, which sleeps a minute in between.
CleanupOrphanedTokens ==
  LET t == Content IN
  /\ ServerReady
  /\ DropLocks(t, {c \in Locked(t) : live[c] = 0})
  /\ UNCHANGED <<disk, memory, past, expired, screen, crashes>>

ServerCrash ==
  /\ up
  /\ Die(Server)
  /\ up' = FALSE
  /\ live' = [c \in Code |-> 0]
  /\ starting' = NoCode
  /\ UNCHANGED <<file, torn, past, expired, screen>>

\* _reset_in_use_on_start
ServerStart ==
  LET t == Content IN
  /\ ~up
  /\ up' = TRUE
  /\ DropLocks(t, Locked(t))
  /\ UNCHANGED <<disk, live, starting, past, expired, screen, crashes>>

-----------------------------------------------------------------------------
\* The administration program.

AtMenu == screen = NoScreen /\ saves[Admin] = <<>>

\* Every menu but the creation of a code reads the file and then asks the
\* administrator, with this copy on the screen; an empty copy ends the menu.
OpenMenu ==
  /\ AtMenu
  /\ Codes(Content) # {}
  /\ screen' = [table |-> Content, overdue |-> expired]
  /\ unseen' = [unseen EXCEPT ![Admin] = {}]
  /\ UNCHANGED <<disk, memory, past, expired, saves, crashes>>

\* The answer is no, or a code that is not on the screen; the list of codes.
LeaveMenu ==
  /\ screen # NoScreen
  /\ screen' = NoScreen
  /\ unseen' = [unseen EXCEPT ![Admin] = {}]
  /\ UNCHANGED <<disk, memory, past, expired, saves, crashes>>

\* The copy on the screen, with its changes, is what will be saved.
SaveScreen(t, frees) ==
  /\ screen' = NoScreen
  /\ saves' = [saves EXCEPT ![Admin] = OneSave(t, frees)]
  /\ UNCHANGED <<disk, memory, past, expired, crashes, unseen>>

\* menu_create asks first, and reads and saves at the end, even if it read
\* nothing: then no code of the file is in what it saves.  Out of ten million
\* codes it draws none that was deleted while an agent is still on it.
MenuCreate(c) ==
  /\ AtMenu
  /\ c \notin Codes(Content)
  /\ live[c] = 0 /\ starting # c
  /\ saves' = [saves EXCEPT ![Admin] = OneSave(With(Content, c, NewEntry), {})]
  /\ unseen' = [unseen EXCEPT ![Admin] = Codes(file) \ Codes(Content)]
  /\ UNCHANGED <<disk, memory, past, expired, screen, crashes>>

MenuRevoke(c) ==
  /\ screen # NoScreen
  /\ c \in Codes(screen.table)
  /\ ~screen.table[c].used
  /\ SaveScreen(Spend(screen.table, c), {})

MenuDelete(c) ==
  /\ screen # NoScreen
  /\ c \in Codes(screen.table)
  /\ SaveScreen(Without(screen.table, {c}), {})

\* One of the locked codes, or all of them.
MenuUnlock(C) ==
  /\ screen # NoScreen
  /\ C # {}
  /\ C = Locked(screen.table) \/ \E c \in Locked(screen.table) : C = {c}
  /\ SaveScreen(Unlock(screen.table, C), C)

MenuChangePermissions ==
  /\ screen # NoScreen
  /\ SaveScreen(screen.table, {})

MenuPurge ==
  LET targets == Unusable(screen.table, screen.overdue) IN
  /\ screen # NoScreen
  /\ targets # {}
  /\ SaveScreen(Without(screen.table, targets), {})

MenuDeleteAll ==
  /\ screen # NoScreen
  /\ SaveScreen(NoTable, {})

\* The kick goes through the server, which counts the use; the agent's socket
\* is closed half a second later.
MenuKick(c) ==
  /\ screen # NoScreen
  /\ c \in Locked(screen.table)
  /\ ServerReady
  /\ live[c] > 0
  /\ screen' = NoScreen
  /\ BurnToken(c)
  /\ UNCHANGED <<disk, memory, past, expired, crashes>>

AdminQuits ==
  /\ Die(Admin)
  /\ screen' = NoScreen
  /\ UNCHANGED <<file, torn, memory, past, expired>>

-----------------------------------------------------------------------------
ExpiryPasses(c) ==
  /\ c \in Expiring \ expired
  /\ expired' = expired \cup {c}
  /\ UNCHANGED <<disk, memory, past, screen, saves, crashes, unseen>>

ServerOnCode(c) ==
  HelloAccepted(c) \/ HelloRejected(c) \/ SessionEnds(c) \/ SessionTimer(c)

AdminOnCode(c) ==
  MenuCreate(c) \/ MenuRevoke(c) \/ MenuDelete(c) \/ MenuKick(c)

Next ==
  \/ \E p \in Program : OpenFile(p) \/ FillFile(p)
  \/ \E c \in Code : ServerOnCode(c) \/ AdminOnCode(c) \/ ExpiryPasses(c)
  \/ CleanupOrphanedTokens \/ ServerCrash \/ ServerStart
  \/ OpenMenu \/ LeaveMenu
  \/ \E C \in SUBSET Code : MenuUnlock(C)
  \/ MenuChangePermissions \/ MenuPurge \/ MenuDeleteAll
  \/ AdminQuits

\* A save that was begun goes on by itself, the server is started again, and
\* its clean-up gets a turn as often as there is one to get: the hub of the
\* green threads runs each of them when its minute is over.
Fairness ==
  /\ \A p \in Program : WF_vars(OpenFile(p)) /\ WF_vars(FillFile(p))
  /\ WF_vars(ServerStart)
  /\ SF_vars(CleanupOrphanedTokens)

Spec == Init /\ [][Next]_vars

FairSpec == Spec /\ Fairness

-----------------------------------------------------------------------------
\* Every use is accounted for.  As long as no save undid a change of a code,
\* each session that ever started on it was counted, or still has the code
\* locked, or had its lock dropped by a restart, the clean-up or the
\* administrator: however the two programs and the crashes interleave, and
\* although a session whose end meets an empty file is not counted.
UsesAddUp ==
  \A c \in Codes(file) \ (lost \cup Unlimited) :
    started[c] = file[c].use_count + released[c] + (IF file[c].in_use THEN 1 ELSE 0)

\* A code whose uses are gone carries the mark in every copy there is, the old
\* ones on the administrator's screen included: the mark and the count are
\* always written together (_burn_token), so no program can bring the one back
\* without the other, and the second check of agent_hello finds nothing to do.
ExhaustedIsMarked ==
  LET copies == {file} \cup (IF screen = NoScreen THEN {} ELSE {screen.table})
                  \cup UNION {{saves[p][i].table : i \in 1 .. Len(saves[p])} : p \in Program}
  IN  \A t \in copies : \A c \in Codes(t) : Exhausted(t, c) => t[c].used

\* Whatever the server reads, an empty file in the middle of the other
\* program's save too, its own saves take no code away: only one that came
\* while it was saving can fall victim to it.
ServerKeepsCodes ==
  [][FillFile(Server) => Codes(file) \ unseen[Server] \subseteq Codes(file')]_vars

\* A session starts on a code that the file allows at the moment it is locked:
\* not revoked, used up, locked or deleted meanwhile, unless that very save
\* undid a change.
StartsOnFreeCode ==
  [][\A c \in Code : started'[c] > started[c] =>
       \/ c \in lost'
       \/ c \in Codes(file) /\ ~file[c].used /\ ~file[c].in_use]_vars

\* A lock that no agent has is released again and again, whatever stale copies
\* the administrator saves, unless the file stays unreadable.
LocksReleased ==
  \A c \in Code :
    (<>[]torn) \/ ([]<>(c \in Locked(file) => live[c] > 0))

-----------------------------------------------------------------------------
\* What the code says and does not keep: "max_uses > 0: use_count goes up, and
\* used = True at the limit" (_burn_token, server.py:219).  A code does not serve
\* more sessions than it has uses, but for those whose lock was dropped
\* uncounted.
UseLimitKept ==
  \A c \in Codes(file) \ Unlimited : started[c] <= MaxUses[c] + released[c]
=============================================================================
