--------------------------- MODULE TokenFile_proofs ---------------------------
(***************************************************************************)
(* Proofs about TokenFile, for any codes, uses, sessions and crashes.      *)
(*                                                                         *)
(* A save is made from a copy that may have aged by the time it is         *)
(* written.  The argument follows the copy: unseen has the codes that      *)
(* changed since it was read, and for all others the save that is about to *)
(* be written fits the file as it is now (Fits): what it counts, locks and *)
(* drops is balanced against what the file holds.  The server's saves also *)
(* keep every such code, and the one that starts a session finds its code  *)
(* free (Starts).                                                          *)
(***************************************************************************)
EXTENDS TokenFile, SequenceTheorems, TLAPS

\* Tables in which every exhausted code is marked.
Table == {t \in UNION {[C -> Entry] : C \in SUBSET Code} :
            \A c \in Codes(t) : Exhausted(t, c) => t[c].used}

Save == [table : Table, frees : SUBSET Code]

Types ==
  /\ file \in Table
  /\ torn \in BOOLEAN
  /\ expired \subseteq Code
  /\ up \in BOOLEAN
  /\ live \in [Code -> Nat]
  /\ starting \in Code \cup {NoCode}
  /\ screen # NoScreen => screen.table \in Table /\ screen.overdue \subseteq Code
  /\ saves \in [Program -> Seq(Save)]
  /\ writing \subseteq Program
  /\ crashes \in 0 .. MaxCrashes
  /\ unseen \in [Program -> SUBSET Code]
  /\ lost \subseteq Code
  /\ started \in [Code -> Nat]
  /\ released \in [Code -> Nat]

\* What an entry stands for: the uses counted and the one under way.
Balance(e) == e.use_count + (IF e.in_use THEN 1 ELSE 0)

\* The save s, with which a session on the code begins starts, fits the table
\* base, the codes in old apart.
Fits(p, s, begins, base, old) ==
  /\ \A c \in Codes(s.table) \ (old \cup Unlimited) :
       \/ /\ c \in Codes(base)
          /\ Balance(s.table[c]) + (IF c \in s.frees THEN 1 ELSE 0)
               = Balance(base[c]) + (IF c = begins THEN 1 ELSE 0)
       \/ /\ p = Admin
          /\ c \notin Codes(base) \cup s.frees
          /\ s.table[c] = NewEntry
  /\ p = Server => Codes(base) \ old \subseteq Codes(s.table)

\* The session that begins finds its code free in base, unless it is in old.
Starts(begins, base, old) ==
  begins \notin old \cup {NoCode} =>
    begins \in Codes(base) /\ ~base[begins].used /\ ~base[begins].in_use

\* The server's saves q, one after the other.
ServerFits(q, begins, base, old) ==
  /\ Len(q) \in 0 .. 2
  /\ Len(q) = 0 => begins = NoCode
  /\ Len(q) = 1 => Fits(Server, q[1], begins, base, old) /\ Starts(begins, base, old)
  /\ Len(q) = 2 => /\ Fits(Server, q[1], NoCode, base, old)
                   /\ Fits(Server, q[2], begins, q[1].table, old)
                   /\ Starts(begins, q[1].table, old)

AdminFits(q, base, old) ==
  Len(q) \in 0 .. 1 /\ (Len(q) = 1 => Fits(Admin, q[1], NoCode, base, old))

\* The copy on the screen is the file, the codes in old apart.
Agrees(copy, base, old) ==
  \A c \in Codes(copy) \ old : c \in Codes(base) /\ base[c] = copy[c]

CopiesInv ==
  /\ ServerFits(saves[Server], starting, file, unseen[Server])
  /\ ~up => saves[Server] = <<>>
  /\ AdminFits(saves[Admin], file, unseen[Admin])
  /\ screen # NoScreen => /\ saves[Admin] = <<>>
                          /\ Agrees(screen.table, file, unseen[Admin])
  /\ \A p \in writing : saves[p] # <<>>

IInv == Types /\ CopiesInv /\ UsesAddUp

-----------------------------------------------------------------------------
\* Facts about tables.

LEMMA TableParts ==
  ASSUME NEW t \in Table
  PROVE  /\ Codes(t) \subseteq Code
         /\ \A c \in Codes(t) : /\ t[c] \in Entry
                                /\ t[c].used \in BOOLEAN /\ t[c].in_use \in BOOLEAN
                                /\ t[c].use_count \in Nat
         /\ \A c \in Codes(t) : Exhausted(t, c) => t[c].used
         /\ t = [c \in Codes(t) |-> t[c]]
  BY DEF Table, Codes, Entry

\* What a change of one field of an entry leaves.
LEMMA EntryParts ==
  ASSUME NEW e \in Entry, NEW f, NEW b \in BOOLEAN
  PROVE  /\ f = [e EXCEPT !.in_use = b] =>
              /\ f \in Entry
              /\ f.used = e.used /\ f.use_count = e.use_count /\ f.in_use = b
         /\ f = [e EXCEPT !.used = b] =>
              /\ f \in Entry
              /\ f.used = b /\ f.use_count = e.use_count /\ f.in_use = e.in_use
  BY DEF Entry

\* The balance of an entry.
LEMMA Balances ==
  ASSUME NEW e \in Entry
  PROVE  /\ e.use_count \in Nat /\ e.in_use \in BOOLEAN
         /\ Balance(e) \in Nat
         /\ e.in_use => Balance(e) = e.use_count + 1
         /\ ~e.in_use => Balance(e) = e.use_count
  BY DEF Entry, Balance

LEMMA TableIntro ==
  ASSUME NEW C \in SUBSET Code, NEW t, t = [c \in C |-> t[c]],
         \A c \in C : t[c] \in Entry /\ (Exhausted(t, c) => t[c].used)
  PROVE  t \in Table /\ Codes(t) = C
  <1>1. t \in [C -> Entry]
    OBVIOUS
  <1>2. Codes(t) = C
    BY DEF Codes
  <1>. QED  BY <1>1, <1>2 DEF Table

LEMMA NoTableParts == NoTable \in Table /\ Codes(NoTable) = {}
  BY DEF NoTable, Table, Codes

LEMMA ContentParts ==
  ASSUME Types
  PROVE  /\ Content \in Table
         /\ Codes(Content) # {} => Content = file
         /\ Content = file \/ Codes(Content) = {}
  BY NoTableParts DEF Types, Content

LEMMA UnlockTable ==
  ASSUME NEW t \in Table, NEW C
  PROVE  /\ Unlock(t, C) \in Table
         /\ Codes(Unlock(t, C)) = Codes(t)
         /\ \A c \in Codes(t) \ C : Unlock(t, C)[c] = t[c]
         /\ \A c \in Codes(t) \cap C :
              /\ Unlock(t, C)[c].used = t[c].used
              /\ Unlock(t, C)[c].use_count = t[c].use_count
              /\ Unlock(t, C)[c].in_use = FALSE
  <1> DEFINE u == Unlock(t, C)
  <1>1. u = [c \in Codes(t) |-> IF c \in C THEN [t[c] EXCEPT !.in_use = FALSE] ELSE t[c]]
    BY DEF Unlock
  <1>2. /\ u = [c \in Codes(t) |-> u[c]]
        /\ \A c \in Codes(t) \ C : u[c] = t[c]
        /\ \A c \in Codes(t) \cap C : u[c] = [t[c] EXCEPT !.in_use = FALSE]
    BY <1>1
  <1> HIDE DEF u
  <1>3. ASSUME NEW c \in Codes(t) \cap C
        PROVE  /\ u[c] \in Entry
               /\ u[c].used = t[c].used
               /\ u[c].use_count = t[c].use_count
               /\ u[c].in_use = FALSE
    <2>1. t[c] \in Entry /\ u[c] = [t[c] EXCEPT !.in_use = FALSE]
      BY <1>2, TableParts
    <2>. QED  BY <2>1, EntryParts
  <1>4. \A c \in Codes(t) : u[c] \in Entry /\ (Exhausted(u, c) => u[c].used)
    BY <1>2, <1>3, TableParts DEF Exhausted
  <1>5. u \in Table /\ Codes(u) = Codes(t)
    BY <1>2, <1>4, TableParts, TableIntro
  <1>. QED  BY <1>2, <1>3, <1>5 DEF u

LEMMA UnlockEntry ==
  ASSUME NEW t \in Table, NEW C, NEW c \in Codes(t), c \in C
  PROVE  /\ Unlock(t, C)[c].used = t[c].used
         /\ Unlock(t, C)[c].use_count = t[c].use_count
         /\ Unlock(t, C)[c].in_use = FALSE
  <1>1. t[c] \in Entry /\ Unlock(t, C)[c] = [t[c] EXCEPT !.in_use = FALSE]
    BY TableParts DEF Unlock
  <1>. QED  BY <1>1, EntryParts

LEMMA LockTable ==
  ASSUME NEW t \in Table, NEW c \in Codes(t)
  PROVE  /\ Lock(t, c) \in Table
         /\ Codes(Lock(t, c)) = Codes(t)
         /\ \A d \in Codes(t) \ {c} : Lock(t, c)[d] = t[d]
         /\ Lock(t, c)[c].use_count = t[c].use_count
         /\ Lock(t, c)[c].in_use = TRUE
  <1> DEFINE u == Lock(t, c)
  <1>1. /\ u = [d \in Codes(t) |-> u[d]]
        /\ \A d \in Codes(t) \ {c} : u[d] = t[d]
        /\ u[c] = [t[c] EXCEPT !.in_use = TRUE]
    <2>1. t = [d \in Codes(t) |-> t[d]]
      BY TableParts
    <2>2. u = [t EXCEPT ![c] = [t[c] EXCEPT !.in_use = TRUE]]
      BY DEF Lock
    <2>. QED  BY <2>1, <2>2
  <1> HIDE DEF u
  <1>2. /\ u[c] \in Entry
        /\ u[c].used = t[c].used
        /\ u[c].use_count = t[c].use_count
        /\ u[c].in_use = TRUE
    <2>1. t[c] \in Entry /\ u[c] = [t[c] EXCEPT !.in_use = TRUE]
      BY <1>1, TableParts
    <2>. QED  BY <2>1, EntryParts
  <1>3. \A d \in Codes(t) : u[d] \in Entry /\ (Exhausted(u, d) => u[d].used)
    BY <1>1, <1>2, TableParts DEF Exhausted
  <1>4. u \in Table /\ Codes(u) = Codes(t)
    BY <1>1, <1>3, TableParts, TableIntro
  <1>. QED  BY <1>1, <1>2, <1>4 DEF u

LEMMA SpendTable ==
  ASSUME NEW t \in Table, NEW c \in Codes(t)
  PROVE  /\ Spend(t, c) \in Table
         /\ Codes(Spend(t, c)) = Codes(t)
         /\ \A d \in Codes(t) : Balance(Spend(t, c)[d]) = Balance(t[d])
  <1> DEFINE u == Spend(t, c)
  <1>1. /\ u = [d \in Codes(t) |-> u[d]]
        /\ \A d \in Codes(t) \ {c} : u[d] = t[d]
        /\ u[c] = [t[c] EXCEPT !.used = TRUE]
    <2>1. t = [d \in Codes(t) |-> t[d]]
      BY TableParts
    <2>2. u = [t EXCEPT ![c] = [t[c] EXCEPT !.used = TRUE]]
      BY DEF Spend
    <2>. QED  BY <2>1, <2>2
  <1> HIDE DEF u
  <1>2. /\ u[c] \in Entry
        /\ u[c].used = TRUE
        /\ u[c].use_count = t[c].use_count
        /\ u[c].in_use = t[c].in_use
    <2>1. t[c] \in Entry /\ u[c] = [t[c] EXCEPT !.used = TRUE]
      BY <1>1, TableParts
    <2>. QED  BY <2>1, EntryParts
  <1>3. \A d \in Codes(t) : u[d] \in Entry /\ (Exhausted(u, d) => u[d].used)
    BY <1>1, <1>2, TableParts DEF Exhausted
  <1>4. u \in Table /\ Codes(u) = Codes(t)
    BY <1>1, <1>3, TableParts, TableIntro
  <1>. QED  BY <1>1, <1>2, <1>4 DEF u, Balance

LEMMA WithTable ==
  ASSUME NEW t \in Table, NEW c \in Code, NEW e \in Entry,
         c \in Unlimited \/ e.use_count < MaxUses[c] \/ e.used
  PROVE  /\ With(t, c, e) \in Table
         /\ Codes(With(t, c, e)) = Codes(t) \cup {c}
         /\ With(t, c, e)[c] = e
         /\ \A d \in Codes(t) \ {c} : With(t, c, e)[d] = t[d]
  <1> DEFINE u == With(t, c, e)
  <1>1. /\ u = [d \in Codes(t) \cup {c} |-> u[d]]
        /\ u[c] = e
        /\ \A d \in Codes(t) \ {c} : u[d] = t[d]
    BY DEF With
  <1> HIDE DEF u
  <1>2. Exhausted(u, c) => u[c].used
    BY <1>1, CodeAssumption DEF Exhausted, Entry
  <1>3. \A d \in Codes(t) \cup {c} : u[d] \in Entry /\ (Exhausted(u, d) => u[d].used)
    BY <1>1, <1>2, TableParts DEF Exhausted
  <1>4. u \in Table /\ Codes(u) = Codes(t) \cup {c}
    BY <1>1, <1>3, TableParts, TableIntro
  <1>. QED  BY <1>1, <1>4 DEF u

LEMMA WithoutTable ==
  ASSUME NEW t \in Table, NEW C
  PROVE  /\ Without(t, C) \in Table
         /\ Codes(Without(t, C)) = Codes(t) \ C
         /\ \A d \in Codes(t) \ C : Without(t, C)[d] = t[d]
  <1> DEFINE u == Without(t, C)
  <1>1. /\ u = [d \in Codes(t) \ C |-> u[d]]
        /\ \A d \in Codes(t) \ C : u[d] = t[d]
    BY DEF Without
  <1> HIDE DEF u
  <1>2. \A d \in Codes(t) \ C : u[d] \in Entry /\ (Exhausted(u, d) => u[d].used)
    BY <1>1, TableParts DEF Exhausted
  <1>3. u \in Table /\ Codes(u) = Codes(t) \ C
    BY <1>1, <1>2, TableParts, TableIntro
  <1>. QED  BY <1>1, <1>3 DEF u

\* A burn of a locked code is balanced, unless its uses are not counted.
LEMMA BurnTable ==
  ASSUME NEW t \in Table, NEW c \in Locked(t)
  PROVE  /\ Burn(t, c) \in Table
         /\ Codes(Burn(t, c)) = Codes(t)
         /\ \A d \in Codes(t) \ Unlimited : Balance(Burn(t, c)[d]) = Balance(t[d])
  <1> DEFINE n == t[c].use_count + 1
             e == [used |-> n >= MaxUses[c], in_use |-> FALSE, use_count |-> n]
  <1>1. c \in Codes(t) /\ c \in Code /\ t[c].in_use /\ t[c].use_count \in Nat
    BY TableParts DEF Locked
  <1>2. CASE c \in Unlimited
    <2>1. Burn(t, c) = Unlock(t, {c})
      BY <1>2 DEF Burn
    <2>2. \A d \in Codes(t) \ Unlimited : Unlock(t, {c})[d] = t[d]
      BY <1>2 DEF Unlock
    <2>3. Unlock(t, {c}) \in Table /\ Codes(Unlock(t, {c})) = Codes(t)
      BY UnlockTable
    <2>. QED  BY <2>1, <2>2, <2>3
  <1>3. CASE c \notin Unlimited
    <2>1. Burn(t, c) = With(t, c, e)
      BY <1>3 DEF Burn
    <2>2. MaxUses[c] \in Nat /\ n \in Nat
      BY <1>1, CodeAssumption
    <2>3. e \in Entry /\ (e.use_count < MaxUses[c] \/ e.used)
      <3>1. (n >= MaxUses[c]) \in BOOLEAN /\ (n < MaxUses[c] \/ n >= MaxUses[c])
        BY <2>2
      <3>. QED  BY <2>2, <3>1 DEF Entry
    <2>4. /\ With(t, c, e) \in Table
          /\ Codes(With(t, c, e)) = Codes(t) \cup {c}
          /\ With(t, c, e)[c] = e
          /\ \A d \in Codes(t) \ {c} : With(t, c, e)[d] = t[d]
      BY <1>1, <2>3, WithTable
    <2>5. Balance(e) = Balance(t[c])
      BY <1>1 DEF Balance
    <2>. QED  BY <1>1, <2>1, <2>4, <2>5
  <1>. QED  BY <1>2, <1>3

LEMMA NewEntryParts ==
  /\ NewEntry \in Entry /\ Balance(NewEntry) = 0
  /\ \A c \in Code : NewEntry.use_count < MaxUses[c]
  BY CodeAssumption DEF NewEntry, Entry, Balance

LEMMA Saving ==
  ASSUME NEW t \in Table, NEW frees \in SUBSET Code
  PROVE  /\ OneSave(t, frees) \in Seq(Save)
         /\ Len(OneSave(t, frees)) = 1
         /\ OneSave(t, frees)[1] = [table |-> t, frees |-> frees]
         /\ OneSave(t, frees)[1].table = t /\ OneSave(t, frees)[1].frees = frees
  BY DEF OneSave, Save

-----------------------------------------------------------------------------
\* Facts about saves.

\* Dropping locks is balanced, if they are locks.
LEMMA UnlockFits ==
  ASSUME NEW t \in Table, NEW C \in SUBSET Locked(t)
  PROVE  /\ Fits(Server, [table |-> Unlock(t, C), frees |-> C], NoCode, t, {})
         /\ Fits(Admin, [table |-> Unlock(t, C), frees |-> C], NoCode, t, {})
  <1> DEFINE u == Unlock(t, C)
  <1>1. /\ u \in Table /\ Codes(u) = Codes(t)
        /\ \A c \in Codes(t) \ C : u[c] = t[c]
        /\ \A c \in Codes(t) \cap C : u[c].use_count = t[c].use_count /\ ~u[c].in_use
    <2>1. u \in Table /\ Codes(u) = Codes(t)
      BY UnlockTable
    <2>2. \A c \in Codes(t) \ C : u[c] = t[c]
      BY UnlockTable
    <2>3. ASSUME NEW c \in Codes(t) \cap C
          PROVE  u[c].use_count = t[c].use_count /\ ~u[c].in_use
      <3>1. u[c].use_count = t[c].use_count /\ u[c].in_use = FALSE
        BY UnlockEntry
      <3>. QED  BY <3>1
    <2>. QED  BY <2>1, <2>2, <2>3
  <1> HIDE DEF u
  <1>2. ASSUME NEW c \in Codes(t)
        PROVE  /\ Balance(u[c]) + (IF c \in C THEN 1 ELSE 0) = Balance(t[c])
               /\ Balance(t[c]) \in Nat
    <2>1. t[c] \in Entry /\ u[c] \in Entry
      BY <1>1, TableParts
    <2>2. Balance(t[c]) \in Nat
      BY <2>1, Balances
    <2>3. CASE c \in C
      <3>1. t[c].in_use /\ ~u[c].in_use /\ u[c].use_count = t[c].use_count
        BY <1>1, <2>3 DEF Locked
      <3>2. t[c].use_count \in Nat
        BY <2>1, Balances
      <3>3. Balance(t[c]) = t[c].use_count + 1 /\ Balance(u[c]) = t[c].use_count
        BY <2>1, <3>1, Balances
      <3>. QED  BY <2>3, <3>2, <3>3
    <2>4. CASE c \notin C
      BY <1>1, <2>2, <2>4
    <2>. QED  BY <2>2, <2>3, <2>4
  <1>3. NoCode \notin Codes(t)
    BY TableParts, CodeAssumption
  <1>4. \A p : Fits(p, [table |-> u, frees |-> C], NoCode, t, {})
    BY <1>1, <1>2, <1>3 DEF Fits
  <1>. QED  BY <1>4 DEF u

\* A save that changes no balance fits.
LEMMA SameFits ==
  ASSUME NEW t \in Table, NEW u \in Table, Codes(u) = Codes(t),
         \A c \in Codes(t) \ Unlimited : Balance(u[c]) = Balance(t[c])
  PROVE  Fits(Server, [table |-> u, frees |-> {}], NoCode, t, {})
  <1>1. NoCode \notin Codes(t)
    BY TableParts, CodeAssumption
  <1>. QED  BY <1>1 DEF Fits

\* The lock of a free code is balanced by the session that starts with it.
LEMMA LockFits ==
  ASSUME NEW t \in Table, NEW c \in Codes(t), ~t[c].used, ~t[c].in_use
  PROVE  /\ Fits(Server, [table |-> Lock(t, c), frees |-> {}], c, t, {})
         /\ Starts(c, t, {})
  <1> DEFINE u == Lock(t, c)
  <1>1. /\ u \in Table /\ Codes(u) = Codes(t)
        /\ \A d \in Codes(t) \ {c} : u[d] = t[d]
        /\ u[c].use_count = t[c].use_count /\ u[c].in_use
    BY LockTable
  <1> HIDE DEF u
  <1>2. ASSUME NEW d \in Codes(t)
        PROVE  /\ Balance(u[d]) = Balance(t[d]) + (IF d = c THEN 1 ELSE 0)
               /\ Balance(u[d]) \in Nat
    <2>1. t[d] \in Entry /\ u[d] \in Entry
      BY <1>1, TableParts
    <2>2. Balance(u[d]) \in Nat
      BY <2>1, Balances
    <2>3. CASE d = c
      <3>1. Balance(t[d]) = t[d].use_count /\ Balance(u[d]) = t[d].use_count + 1
        BY <1>1, <2>1, <2>3, Balances
      <3>. QED  BY <2>2, <2>3, <3>1
    <2>4. CASE d # c
      BY <1>1, <2>2, <2>4
    <2>. QED  BY <2>2, <2>3, <2>4
  <1>3. Fits(Server, [table |-> u, frees |-> {}], c, t, {})
    BY <1>1, <1>2 DEF Fits
  <1>. QED  BY <1>3 DEF Starts, u

\* A save that fits goes on to fit when another changes the file.
LEMMA FitsAges ==
  ASSUME NEW p, NEW s, NEW begins, NEW t, NEW u, NEW old,
         Fits(p, s, begins, t, old)
  PROVE  /\ Fits(p, s, begins, u, old \cup Changed(t, u))
         /\ \A more : Fits(p, s, begins, t, old \cup more)
  <1>1. \A c : c \notin Changed(t, u) =>
          (c \in Codes(t) <=> c \in Codes(u)) /\ (c \in Codes(t) => t[c] = u[c])
    BY DEF Changed
  <1>2. Fits(p, s, begins, u, old \cup Changed(t, u))
    BY <1>1 DEF Fits
  <1>3. \A more : Fits(p, s, begins, t, old \cup more)
    BY DEF Fits
  <1>. QED  BY <1>2, <1>3

LEMMA StartsAges ==
  ASSUME NEW begins, NEW t, NEW u, NEW old, Starts(begins, t, old)
  PROVE  /\ Starts(begins, u, old \cup Changed(t, u))
         /\ \A more : Starts(begins, t, old \cup more)
  BY DEF Starts, Changed

LEMMA ServerAges ==
  ASSUME NEW q, NEW begins, NEW t, NEW u, NEW old, ServerFits(q, begins, t, old)
  PROVE  ServerFits(q, begins, u, old \cup Changed(t, u))
  BY FitsAges, StartsAges DEF ServerFits

LEMMA AdminAges ==
  ASSUME NEW q, NEW t, NEW u, NEW old, AdminFits(q, t, old)
  PROVE  AdminFits(q, u, old \cup Changed(t, u))
  BY FitsAges DEF AdminFits

LEMMA ScreenAges ==
  ASSUME NEW copy, NEW t, NEW u, NEW old, Agrees(copy, t, old)
  PROVE  Agrees(copy, u, old \cup Changed(t, u))
  BY DEF Agrees, Changed

\* What was made from a copy that agrees with the file fits the file.
LEMMA CopyFits ==
  ASSUME NEW s, NEW copy, NEW base, NEW old, Agrees(copy, base, old),
         Fits(Admin, s, NoCode, copy, {}), Codes(s.table) \subseteq Codes(copy)
  PROVE  Fits(Admin, s, NoCode, base, old)
  BY CodeAssumption DEF Fits, Agrees

-----------------------------------------------------------------------------
LEMMA InitIInv == Init => IInv
  <1> SUFFICES ASSUME Init  PROVE IInv
    OBVIOUS
  <1>1. Types
    <2>1. /\ saves \in [Program -> Seq(Save)] /\ unseen \in [Program -> SUBSET Code]
          /\ live \in [Code -> Nat] /\ started \in [Code -> Nat]
          /\ released \in [Code -> Nat]
      BY DEF Init
    <2>2. crashes \in 0 .. MaxCrashes
      BY CodeAssumption DEF Init
    <2>. QED  BY <2>1, <2>2, NoTableParts DEF Init, Types
  <1>2. CopiesInv
    BY CodeAssumption DEF Init, CopiesInv, ServerFits, AdminFits, Program
  <1>3. UsesAddUp
    BY NoTableParts DEF Init, UsesAddUp
  <1>. QED  BY <1>1, <1>2, <1>3 DEF IInv

LEMMA OpenFileIInv ==
  ASSUME IInv, NEW p \in Program, OpenFile(p)
  PROVE  IInv'
  <1>1. Types'
    BY DEF IInv, Types, OpenFile, memory, past
  <1>2. CopiesInv' /\ UsesAddUp'
    BY DEF IInv, CopiesInv, UsesAddUp, OpenFile, memory, past
  <1>. QED  BY <1>1, <1>2 DEF IInv

\* The server's handlers: they have read the file, and what they are going to
\* save fits it.
LEMMA ServerReads ==
  ASSUME IInv, saves[Server] = <<>>, NEW q \in Seq(Save), ReadThenSave(Server, q),
         UNCHANGED <<disk, past, expired, crashes>>,
         live' \in [Code -> Nat], screen' \in {screen, NoScreen}, up' = TRUE,
         starting' \in Code \cup {NoCode}, ServerFits(q, starting', file, {})
  PROVE  IInv'
  <1>1. /\ saves'[Server] = q /\ saves'[Admin] = saves[Admin]
        /\ unseen'[Server] = {} /\ unseen'[Admin] = unseen[Admin]
        /\ saves' \in [Program -> Seq(Save)] /\ unseen' \in [Program -> SUBSET Code]
    BY CodeAssumption DEF IInv, Types, ReadThenSave, Program
  <1>2. Types'
    BY <1>1 DEF IInv, Types, disk, past
  <1>3. CopiesInv'
    BY <1>1 DEF IInv, CopiesInv, Types, Program, disk
  <1>4. UsesAddUp'
    BY DEF IInv, UsesAddUp, disk, past
  <1>. QED  BY <1>2, <1>3, <1>4 DEF IInv

\* One save that changes no balance, or none at all.
LEMMA SavesFit ==
  ASSUME Types, NEW q,
         \/ q = <<>>
         \/ \E u \in Table :
              /\ q = OneSave(u, {})
              /\ Codes(Content) # {}
              /\ Codes(u) = Codes(Content)
              /\ \A c \in Codes(u) \ Unlimited : Balance(u[c]) = Balance(Content[c])
         \/ \E C \in SUBSET Locked(Content) :
              C # {} /\ q = OneSave(Unlock(Content, C), C)
  PROVE  q \in Seq(Save) /\ ServerFits(q, NoCode, file, {})
  <1>1. CASE q = <<>>
    BY <1>1 DEF ServerFits
  <1>2. ASSUME NEW u \in Table,
               q = OneSave(u, {}),
               Codes(Content) # {},
               Codes(u) = Codes(Content),
               \A c \in Codes(u) \ Unlimited : Balance(u[c]) = Balance(Content[c])
        PROVE  q \in Seq(Save) /\ ServerFits(q, NoCode, file, {})
    <2>1. Content = file /\ file \in Table
      BY <1>2, ContentParts
    <2>2. Fits(Server, [table |-> u, frees |-> {}], NoCode, file, {})
      BY <1>2, <2>1, SameFits
    <2>3. {} \in SUBSET Code
      OBVIOUS
    <2>4. q \in Seq(Save) /\ Len(q) = 1 /\ q[1] = [table |-> u, frees |-> {}]
      BY <1>2, <2>3, Saving
    <2>5. Fits(Server, q[1], NoCode, file, {})
      BY <2>2, <2>4
    <2>6. Starts(NoCode, file, {})
      BY DEF Starts
    <2>. QED  BY <2>4, <2>5, <2>6 DEF ServerFits
  <1>3. ASSUME NEW C \in SUBSET Locked(Content), C # {}, q = OneSave(Unlock(Content, C), C)
        PROVE  q \in Seq(Save) /\ ServerFits(q, NoCode, file, {})
    <2>1. Content = file /\ file \in Table
      BY <1>3, ContentParts DEF Locked
    <2>2. Fits(Server, [table |-> Unlock(file, C), frees |-> C], NoCode, file, {})
      BY <1>3, <2>1, UnlockFits
    <2>3. C \in SUBSET Code /\ Unlock(file, C) \in Table
      BY <2>1, TableParts, UnlockTable DEF Locked
    <2>4. /\ q \in Seq(Save) /\ Len(q) = 1
          /\ q[1] = [table |-> Unlock(file, C), frees |-> C]
      BY <1>3, <2>1, <2>3, Saving
    <2>5. Fits(Server, q[1], NoCode, file, {})
      BY <2>2, <2>4
    <2>6. Starts(NoCode, file, {})
      BY DEF Starts
    <2>. QED  BY <2>4, <2>5, <2>6 DEF ServerFits
  <1>. QED  BY <1>1, <1>2, <1>3

LEMMA BurnSaves ==
  ASSUME Types, NEW c \in Code, BurnToken(c)
  PROVE  \E q \in Seq(Save) : ReadThenSave(Server, q) /\ ServerFits(q, NoCode, file, {})
  <1> DEFINE t == Content
             q == IF c \in Locked(t) /\ ~t[c].used THEN OneSave(Burn(t, c), {}) ELSE <<>>
  <1>1. ReadThenSave(Server, q)
    BY DEF BurnToken
  <1>2. CASE c \in Locked(t) /\ ~t[c].used
    <2>1. q = OneSave(Burn(t, c), {}) /\ Codes(t) # {}
      BY <1>2 DEF Locked
    <2>2. /\ Burn(t, c) \in Table /\ Codes(Burn(t, c)) = Codes(t)
          /\ \A d \in Codes(t) \ Unlimited : Balance(Burn(t, c)[d]) = Balance(t[d])
      BY <1>2, ContentParts, BurnTable
    <2> HIDE DEF q, t
    <2>. QED  BY <1>1, <2>1, <2>2, SavesFit DEF t
  <1>3. CASE ~(c \in Locked(t) /\ ~t[c].used)
    BY <1>1, <1>3, SavesFit
  <1>. QED  BY <1>2, <1>3

LEMMA DropSaves ==
  ASSUME Types, NEW C \in SUBSET Locked(Content), DropLocks(Content, C)
  PROVE  \E q \in Seq(Save) : ReadThenSave(Server, q) /\ ServerFits(q, NoCode, file, {})
  BY SavesFit DEF DropLocks

\* Saves of one step each, one after the other.
LEMMA Singletons ==
  ASSUME NEW a, NEW b
  PROVE  <<a>> \o <<b>> = <<a, b>> /\ <<>> \o <<b>> = <<b>>
  <1>1. <<a>> \in Seq({a, b}) /\ <<b>> \in Seq({a, b}) /\ <<a, b>> \in Seq({a, b})
    OBVIOUS
  <1>2. /\ Len(<<a>> \o <<b>>) = 2 /\ <<a>> \o <<b>> \in Seq({a, b})
        /\ (<<a>> \o <<b>>)[1] = a /\ (<<a>> \o <<b>>)[2] = b
    BY <1>1
  <1>3. <<a>> \o <<b>> = <<a, b>>
    <2> DEFINE s == <<a>> \o <<b>>
               t == <<a, b>>
    <2>1. Len(t) = 2 /\ t[1] = a /\ t[2] = b
      OBVIOUS
    <2>2. s \in Seq({a, b}) /\ t \in Seq({a, b}) /\ Len(s) = Len(t)
      BY <1>1, <1>2
    <2>3. \A i \in 1 .. Len(s) : s[i] = t[i]
      <3>1. \A i \in 1 .. Len(s) : i = 1 \/ i = 2
        BY <1>2
      <3>. QED  BY <1>2, <2>1, <3>1
    <2> HIDE DEF s, t
    <2>4. s = t
      BY <2>2, <2>3, SeqEqual
    <2>. QED  BY <2>4 DEF s, t
  <1>4. <<>> \o <<b>> = <<b>>
    BY <1>1, ConcatEmptySeq
  <1>. QED  BY <1>3, <1>4

\* The lock of the code alone, or after a lock that no agent has was dropped.
LEMMA LockSaves ==
  ASSUME NEW t \in Table, NEW c \in Codes(t), ~t[c].used,
         NEW free, free = Unlock(t, {c}), NEW last, last = [table |-> Lock(free, c), frees |-> {}]
  PROVE  /\ last \in Save
         /\ t[c].in_use =>
              LET q == <<[table |-> free, frees |-> {c}], last>>
              IN  q \in Seq(Save) /\ ServerFits(q, c, t, {})
         /\ ~t[c].in_use => ServerFits(<<last>>, c, t, {})
  <1>1. c \in Code /\ c # NoCode /\ t[c] \in Entry /\ t[c].in_use \in BOOLEAN
    BY TableParts, CodeAssumption
  <1>2. /\ free \in Table /\ Codes(free) = Codes(t)
        /\ free[c].used = t[c].used /\ free[c].in_use = FALSE
    <2>1. c \in {c}
      OBVIOUS
    <2>2. Unlock(t, {c}) \in Table /\ Codes(Unlock(t, {c})) = Codes(t)
      BY UnlockTable
    <2>3. Unlock(t, {c})[c].used = t[c].used /\ Unlock(t, {c})[c].in_use = FALSE
      BY <2>1, UnlockEntry
    <2>. QED  BY <2>2, <2>3
  <1>3. last \in Save /\ Fits(Server, last, c, free, {}) /\ Starts(c, free, {})
    <2>1. c \in Codes(free) /\ ~free[c].used /\ ~free[c].in_use
      BY <1>2
    <2>2. Lock(free, c) \in Table
      BY <1>2, <2>1, LockTable
    <2>3. last \in Save
      BY <2>2 DEF Save
    <2>. QED  BY <1>2, <2>1, <2>3, LockFits
  <1>4. ASSUME t[c].in_use
        PROVE  LET q == <<[table |-> free, frees |-> {c}], last>>
               IN  q \in Seq(Save) /\ ServerFits(q, c, t, {})
    <2> DEFINE first == [table |-> free, frees |-> {c}]
    <2>1. Fits(Server, first, NoCode, t, {})
      <3>1. {c} \in SUBSET Locked(t)
        BY <1>4 DEF Locked
      <3>. QED  BY <3>1, UnlockFits
    <2>2. first \in Save /\ first.table = free
      BY <1>1, <1>2 DEF Save
    <2> HIDE DEF first
    <2>. QED  BY <1>1, <1>3, <2>1, <2>2 DEF ServerFits, first
  <1>5. ASSUME ~t[c].in_use  PROVE ServerFits(<<last>>, c, t, {})
    <2>1. [t[c] EXCEPT !.in_use = FALSE] = t[c]
      <3>1. t[c].in_use = FALSE
        BY <1>1, <1>5
      <3>2. \A e \in Entry : e.in_use = FALSE => [e EXCEPT !.in_use = FALSE] = e
        BY DEF Entry
      <3>. QED  BY <1>1, <3>1, <3>2
    <2>2. free = t
      <3>1. free = [d \in Codes(t) |-> t[d]]
        BY <2>1 DEF Unlock
      <3>. QED  BY <3>1, TableParts
    <2>. QED  BY <1>1, <1>3, <2>2 DEF ServerFits
  <1>. QED  BY <1>3, <1>4, <1>5

LEMMA HelloAcceptedIInv ==
  ASSUME IInv, NEW c \in Code, HelloAccepted(c)
  PROVE  IInv'
  <1> DEFINE t == Content
             free == Unlock(t, {c})
             last == [table |-> Lock(free, c), frees |-> {}]
             q == (IF t[c].in_use THEN <<[table |-> free, frees |-> {c}]>> ELSE <<>>)
                    \o <<last>>
  <1>1. c \in Codes(t) /\ ~t[c].used /\ saves[Server] = <<>> /\ up
    BY DEF HelloAccepted, MayStart, ServerReady
  <1>2. ReadThenSave(Server, q) /\ starting' = c
    BY DEF HelloAccepted, OneSave
  <1>3. t = file /\ t \in Table
    BY <1>1, ContentParts DEF IInv
  <1>4. q \in Seq(Save) /\ ServerFits(q, c, file, {})
    <2> HIDE DEF t, free, last
    <2> DEFINE first == [table |-> free, frees |-> {c}]
    <2>0. <<first>> \o <<last>> = <<first, last>> /\ <<>> \o <<last>> = <<last>>
      BY Singletons
    <2>1. t[c].in_use => q = <<first, last>>
      BY <2>0
    <2>2. ~t[c].in_use => q = <<last>>
      BY <2>0
    <2> HIDE DEF q, first
    <2>3. /\ last \in Save
          /\ t[c].in_use =>
               LET r == <<[table |-> free, frees |-> {c}], last>>
               IN  r \in Seq(Save) /\ ServerFits(r, c, t, {})
          /\ ~t[c].in_use => ServerFits(<<last>>, c, t, {})
      BY <1>1, <1>3, LockSaves DEF free, last
    <2>4. CASE t[c].in_use
      BY <1>3, <2>1, <2>3, <2>4 DEF first
    <2>5. CASE ~t[c].in_use
      BY <1>3, <2>2, <2>3, <2>5
    <2>. QED  BY <2>4, <2>5
  <1> HIDE DEF q
  <1>5. /\ UNCHANGED <<disk, past, up, live, expired, screen, crashes>>
        /\ live' \in [Code -> Nat]
    BY DEF HelloAccepted, IInv, Types
  <1>. QED  BY <1>1, <1>2, <1>4, <1>5, ServerReads

LEMMA HelloRejectedIInv ==
  ASSUME IInv, NEW c \in Code, HelloRejected(c)
  PROVE  IInv'
  <1> DEFINE t == Content
  <1>1. /\ c \in Codes(t) /\ saves[Server] = <<>> /\ up /\ t \in Table
        /\ starting = NoCode
    BY ContentParts DEF HelloRejected, ServerReady, IInv, CopiesInv, ServerFits
  <1>2. \E q \in Seq(Save) : ReadThenSave(Server, q) /\ ServerFits(q, NoCode, file, {})
    <2>1. CASE Exhausted(t, c)
      <3>1. ReadThenSave(Server, OneSave(Spend(t, c), {}))
        BY <2>1 DEF HelloRejected
      <3>2. /\ Spend(t, c) \in Table /\ Codes(Spend(t, c)) = Codes(t) /\ Codes(t) # {}
            /\ \A d \in Codes(t) : Balance(Spend(t, c)[d]) = Balance(t[d])
        BY <1>1, SpendTable
      <3>. QED  BY <3>1, <3>2, SavesFit DEF IInv
    <2>2. CASE ~Exhausted(t, c)
      <3>1. /\ ReadThenSave(Server, OneSave(Unlock(t, {c}), {c}))
            /\ t[c].in_use
        BY <2>2 DEF HelloRejected
      <3>2. {c} \in SUBSET Locked(t)
        BY <1>1, <3>1 DEF Locked
      <3>. QED  BY <3>1, <3>2, SavesFit DEF IInv
    <2>. QED  BY <2>1, <2>2
  <1>. QED
    BY <1>1, <1>2, ServerReads DEF HelloRejected, memory, IInv, Types

\* The other handlers of the server, and the kick, which goes through it.
LEMMA ServerIInv ==
  ASSUME IInv,
         \/ \E c \in Code : SessionEnds(c) \/ SessionTimer(c) \/ MenuKick(c)
         \/ CleanupOrphanedTokens
         \/ ServerStart
  PROVE  IInv'
  <1>1. saves[Server] = <<>> /\ starting = NoCode /\ up \in BOOLEAN
    BY DEF SessionEnds, SessionTimer, MenuKick, CleanupOrphanedTokens, ServerStart, ServerReady,
           IInv, Types, CopiesInv, ServerFits
  <1>2. \E q \in Seq(Save) : ReadThenSave(Server, q) /\ ServerFits(q, NoCode, file, {})
    <2>1. ASSUME NEW c \in Code, SessionEnds(c) \/ SessionTimer(c) \/ MenuKick(c)
          PROVE  BurnToken(c)
      BY <2>1 DEF SessionEnds, SessionTimer, MenuKick
    <2>2. ASSUME CleanupOrphanedTokens \/ ServerStart
          PROVE  \E C \in SUBSET Locked(Content) : DropLocks(Content, C)
      <3>1. CleanupOrphanedTokens =>
              DropLocks(Content, {c \in Locked(Content) : live[c] = 0})
        BY DEF CleanupOrphanedTokens
      <3>2. ServerStart => DropLocks(Content, Locked(Content))
        BY DEF ServerStart
      <3>. QED  BY <2>2, <3>1, <3>2
    <2>. QED  BY <2>1, <2>2, BurnSaves, DropSaves DEF IInv
  <1>3. /\ UNCHANGED <<disk, past, expired, crashes>>
        /\ screen' \in {screen, NoScreen} /\ up' = TRUE /\ starting' = NoCode
    BY <1>1 DEF SessionEnds, SessionTimer, MenuKick, CleanupOrphanedTokens, ServerStart,
                ServerReady, memory
  <1>4. live' \in [Code -> Nat]
    <2>1. ASSUME NEW c \in Code, SessionEnds(c)  PROVE live' \in [Code -> Nat]
      <3>1. live \in [Code -> Nat] /\ live[c] > 0 /\ live' = [live EXCEPT ![c] = @ - 1]
        BY <2>1 DEF SessionEnds, IInv, Types
      <3>2. live[c] - 1 \in Nat
        BY <3>1
      <3>. QED  BY <3>1, <3>2
    <2>. QED
      BY <2>1 DEF SessionTimer, MenuKick, CleanupOrphanedTokens, ServerStart, memory, IInv, Types
  <1>. QED  BY <1>1, <1>2, <1>3, <1>4, ServerReads

LEMMA CrashIInv ==
  ASSUME IInv, ServerCrash \/ AdminQuits
  PROVE  IInv'
  <1>1. CASE ServerCrash
    <2>1. /\ saves'[Server] = <<>> /\ saves'[Admin] = saves[Admin]
          /\ unseen'[Server] = {} /\ unseen'[Admin] = unseen[Admin]
          /\ saves' \in [Program -> Seq(Save)] /\ unseen' \in [Program -> SUBSET Code]
      BY <1>1, CodeAssumption DEF IInv, Types, ServerCrash, Die, Program
    <2>2. /\ crashes' \in 0 .. MaxCrashes /\ writing' = writing \ {Server}
          /\ up' = FALSE /\ starting' = NoCode /\ live' \in [Code -> Nat]
          /\ UNCHANGED <<file, torn, past, expired, screen>>
      <3>1. crashes' \in 0 .. MaxCrashes
        BY <1>1, CodeAssumption DEF IInv, Types, ServerCrash, Die
      <3>. QED  BY <1>1, <3>1 DEF ServerCrash, Die
    <2>3. Types'
      BY <2>1, <2>2 DEF IInv, Types, past
    <2>4. CopiesInv'
      <3>1. ServerFits(saves'[Server], NoCode, file, unseen'[Server])
        BY <2>1 DEF ServerFits
      <3>2. \A p \in writing' : saves'[p] # <<>>
        BY <2>1, <2>2 DEF IInv, CopiesInv, Types, Program
      <3>. QED  BY <2>1, <2>2, <3>1, <3>2 DEF IInv, CopiesInv
    <2>5. UsesAddUp'
      BY <2>2 DEF IInv, UsesAddUp, past
    <2>. QED  BY <2>3, <2>4, <2>5 DEF IInv
  <1>2. CASE AdminQuits
    <2>1. /\ saves'[Admin] = <<>> /\ saves'[Server] = saves[Server]
          /\ unseen'[Admin] = {} /\ unseen'[Server] = unseen[Server]
          /\ saves' \in [Program -> Seq(Save)] /\ unseen' \in [Program -> SUBSET Code]
      BY <1>2, CodeAssumption DEF IInv, Types, AdminQuits, Die, Program
    <2>2. Types'
      BY <1>2, <2>1, CodeAssumption DEF IInv, Types, AdminQuits, Die, memory, past
    <2>3. /\ writing' = writing \ {Admin} /\ screen' = NoScreen
          /\ UNCHANGED <<file, memory, past>>
      BY <1>2 DEF AdminQuits, Die
    <2>4. CopiesInv'
      <3>1. AdminFits(saves'[Admin], file, unseen'[Admin])
        BY <2>1 DEF AdminFits
      <3>2. \A p \in writing' : saves'[p] # <<>>
        BY <2>1, <2>3 DEF IInv, CopiesInv, Types, Program
      <3>. QED  BY <2>1, <2>3, <3>1, <3>2 DEF IInv, CopiesInv, memory
    <2>5. UsesAddUp'
      BY <2>3 DEF IInv, UsesAddUp, past
    <2>. QED  BY <2>2, <2>4, <2>5 DEF IInv
  <1>. QED  BY <1>1, <1>2

-----------------------------------------------------------------------------
\* The administration program.

\* The screen comes and goes.
LEMMA ScreenIInv ==
  ASSUME IInv, OpenMenu \/ LeaveMenu
  PROVE  IInv'
  <1>1. /\ saves[Admin] = <<>> /\ saves' = saves
        /\ unseen'[Admin] = {} /\ unseen'[Server] = unseen[Server]
        /\ unseen' \in [Program -> SUBSET Code]
        /\ UNCHANGED <<disk, memory, past, expired, crashes>>
    BY CodeAssumption DEF OpenMenu, LeaveMenu, AtMenu, IInv, Types, CopiesInv, Program
  <1>2. screen' # NoScreen => screen'.table = file /\ screen'.overdue \subseteq Code
    BY ContentParts DEF OpenMenu, LeaveMenu, IInv, Types
  <1>3. Types'
    BY <1>1, <1>2 DEF IInv, Types, disk, memory, past
  <1>4. CopiesInv'
    BY <1>1, <1>2 DEF IInv, CopiesInv, AdminFits, Agrees, disk, memory
  <1>5. UsesAddUp'
    BY <1>1 DEF IInv, UsesAddUp, disk, past
  <1>. QED  BY <1>3, <1>4, <1>5 DEF IInv

\* What the administrator saves fits the file.
LEMMA AdminSaves ==
  ASSUME IInv, saves[Admin] = <<>>, screen' = NoScreen,
         NEW t \in Table, NEW frees \in SUBSET Code, NEW old \in SUBSET Code,
         saves' = [saves EXCEPT ![Admin] = OneSave(t, frees)],
         unseen' = [unseen EXCEPT ![Admin] = old],
         UNCHANGED <<disk, memory, past, expired, crashes>>,
         Fits(Admin, [table |-> t, frees |-> frees], NoCode, file, old)
  PROVE  IInv'
  <1>1. /\ OneSave(t, frees) \in Seq(Save) /\ OneSave(t, frees) # <<>>
        /\ AdminFits(OneSave(t, frees), file, old)
    BY Saving DEF AdminFits, OneSave
  <1>2. /\ saves'[Admin] = OneSave(t, frees) /\ saves'[Server] = saves[Server]
        /\ unseen'[Admin] = old /\ unseen'[Server] = unseen[Server]
        /\ saves' \in [Program -> Seq(Save)] /\ unseen' \in [Program -> SUBSET Code]
    BY <1>1, CodeAssumption DEF IInv, Types, Program
  <1>3. Types'
    BY <1>2 DEF IInv, Types, disk, memory, past
  <1>4. CopiesInv'
    BY <1>1, <1>2 DEF IInv, CopiesInv, Types, Program, disk, memory
  <1>5. UsesAddUp'
    BY DEF IInv, UsesAddUp, disk, past
  <1>. QED  BY <1>3, <1>4, <1>5 DEF IInv

LEMMA MenuCreateIInv ==
  ASSUME IInv, NEW c \in Code, MenuCreate(c)
  PROVE  IInv'
  <1> DEFINE t == With(Content, c, NewEntry)
             old == Codes(file) \ Codes(Content)
  <1>1. /\ saves[Admin] = <<>> /\ screen' = NoScreen /\ c \notin Codes(Content)
        /\ UNCHANGED <<disk, memory, past, expired, crashes>>
    BY DEF MenuCreate, AtMenu
  <1>2. /\ saves' = [saves EXCEPT ![Admin] = OneSave(t, {})]
        /\ unseen' = [unseen EXCEPT ![Admin] = old]
    BY DEF MenuCreate
  <1>3. /\ t \in Table /\ Codes(t) = Codes(Content) \cup {c} /\ t[c] = NewEntry
        /\ \A d \in Codes(Content) : t[d] = Content[d]
    BY <1>1, ContentParts, NewEntryParts, WithTable DEF IInv
  <1>4. old \in SUBSET Code
    BY TableParts DEF IInv, Types
  <1>5. NoCode \notin Codes(t)
    BY <1>3, TableParts, CodeAssumption
  <1>6. Content = file \/ Codes(Content) = {}
    BY ContentParts DEF IInv
  <1> HIDE DEF t
  <1>7. Fits(Admin, [table |-> t, frees |-> {}], NoCode, file, old)
    BY <1>1, <1>3, <1>5, <1>6, CodeAssumption DEF Fits
  <1>. QED  BY <1>1, <1>2, <1>3, <1>4, <1>7, AdminSaves

\* The menus that change the copy on the screen.
LEMMA SaveScreenIInv ==
  ASSUME IInv, screen # NoScreen, NEW t \in Table, NEW frees \in SUBSET Code,
         SaveScreen(t, frees), Codes(t) \subseteq Codes(screen.table),
         Fits(Admin, [table |-> t, frees |-> frees], NoCode, screen.table, {})
  PROVE  IInv'
  <1>1. /\ saves[Admin] = <<>> /\ Agrees(screen.table, file, unseen[Admin])
        /\ unseen[Admin] \in SUBSET Code
        /\ unseen' = [unseen EXCEPT ![Admin] = unseen[Admin]]
    BY DEF IInv, CopiesInv, Types, Program, SaveScreen
  <1>2. Fits(Admin, [table |-> t, frees |-> frees], NoCode, file, unseen[Admin])
    BY <1>1, CopyFits
  <1>. QED  BY <1>1, <1>2, AdminSaves DEF SaveScreen

\* A menu that only takes codes away, marks one or changes nothing.
LEMMA TakingFits ==
  ASSUME NEW t \in Table, NEW u \in Table, Codes(u) \subseteq Codes(t),
         \A c \in Codes(u) : Balance(u[c]) = Balance(t[c])
  PROVE  Fits(Admin, [table |-> u, frees |-> {}], NoCode, t, {})
  <1>1. NoCode \notin Codes(u)
    BY TableParts, CodeAssumption
  <1>. QED  BY <1>1, CodeAssumption DEF Fits

LEMMA MenusIInv ==
  ASSUME IInv,
         \/ \E c \in Code : MenuRevoke(c) \/ MenuDelete(c)
         \/ \E C \in SUBSET Code : MenuUnlock(C)
         \/ MenuChangePermissions \/ MenuPurge \/ MenuDeleteAll
  PROVE  IInv'
  <1> DEFINE t == screen.table
  <1>1. screen # NoScreen /\ t \in Table
    BY DEF IInv, Types, MenuRevoke, MenuDelete, MenuUnlock, MenuChangePermissions, MenuPurge,
           MenuDeleteAll
  <1>2. ASSUME NEW u \in Table, SaveScreen(u, {}), Codes(u) \subseteq Codes(t),
               \A c \in Codes(u) : Balance(u[c]) = Balance(t[c])
        PROVE  IInv'
    BY <1>1, <1>2, TakingFits, SaveScreenIInv
  <1>3. ASSUME NEW C, SaveScreen(Without(t, C), {})  PROVE IInv'
    <2>1. /\ Without(t, C) \in Table /\ Codes(Without(t, C)) = Codes(t) \ C
          /\ \A d \in Codes(t) \ C : Without(t, C)[d] = t[d]
      BY <1>1, WithoutTable
    <2>. QED  BY <1>2, <1>3, <2>1
  <1>4. ASSUME NEW c \in Code, MenuRevoke(c)  PROVE IInv'
    BY <1>1, <1>2, <1>4, SpendTable DEF MenuRevoke
  <1>5. ASSUME NEW C \in SUBSET Code, MenuUnlock(C)  PROVE IInv'
    <2>1. C \in SUBSET Locked(t) /\ SaveScreen(Unlock(t, C), C)
      BY <1>5 DEF MenuUnlock
    <2>2. Fits(Admin, [table |-> Unlock(t, C), frees |-> C], NoCode, t, {})
      BY <1>1, <2>1, UnlockFits
    <2>. QED  BY <1>1, <1>5, <2>1, <2>2, UnlockTable, SaveScreenIInv
  <1>6. CASE MenuChangePermissions
    BY <1>1, <1>2, <1>6 DEF MenuChangePermissions
  <1>7. CASE MenuDeleteAll
    BY <1>2, <1>7, NoTableParts DEF MenuDeleteAll
  <1>. QED  BY <1>3, <1>4, <1>5, <1>6, <1>7 DEF MenuDelete, MenuPurge

-----------------------------------------------------------------------------
\* A save is written.

\* The parts of FillFile, with names.
First(p) == Head(saves[p])

Fresh(p) ==
  IF p = Admin THEN Codes(First(p).table) \ (Codes(file) \cup unseen[p]) ELSE {}

Begins(p) == IF p = Server /\ Len(saves[p]) = 1 THEN {starting} ELSE {}

LEMMA FillParts ==
  ASSUME IInv, NEW p \in Program, FillFile(p)
  PROVE  /\ saves[p] \in Seq(Save) /\ saves[p] # <<>> /\ First(p) = saves[p][1]
         /\ First(p) \in Save
         /\ writing' = writing \ {p} /\ file' = First(p).table /\ torn' \in BOOLEAN
         /\ saves' = [saves EXCEPT ![p] = Tail(@)]
         /\ live' = [c \in Code |-> IF c \in Begins(p) THEN live[c] + 1 ELSE live[c]]
         /\ starting' = IF p = Server /\ Len(saves[p]) = 1 THEN NoCode ELSE starting
         /\ unseen' = [q \in Program |->
              IF q = p THEN IF Len(saves[p]) = 1 THEN {} ELSE unseen[q]
              ELSE IF Holds(q) THEN unseen[q] \cup Changed(file, First(p).table) ELSE {}]
         /\ lost' = (lost \ Fresh(p)) \cup unseen[p]
         /\ started' = [c \in Code |-> IF c \in Fresh(p) THEN 0
                                       ELSE IF c \in Begins(p) THEN started[c] + 1
                                       ELSE started[c]]
         /\ released' = [c \in Code |-> IF c \in Fresh(p) \cup lost' THEN 0
                                        ELSE IF c \in First(p).frees THEN released[c] + 1
                                        ELSE released[c]]
         /\ UNCHANGED <<up, expired, screen, crashes>>
  <1>1. saves[p] \in Seq(Save) /\ saves[p] # <<>>
    BY DEF IInv, Types, CopiesInv, FillFile
  <1>2. First(p) = saves[p][1] /\ First(p) \in Save
    BY <1>1 DEF First
  <1>3. torn' \in BOOLEAN
    BY DEF FillFile
  <1>. QED  BY <1>1, <1>2, <1>3 DEF FillFile, First, Fresh, Begins

LEMMA FillTypes ==
  ASSUME IInv, NEW p \in Program, FillFile(p)
  PROVE  Types'
  <1>1. First(p).table \in Table /\ First(p).frees \in SUBSET Code
    BY FillParts DEF Save
  <1>2. Codes(file) \subseteq Code /\ Codes(First(p).table) \subseteq Code
    BY <1>1, TableParts DEF IInv, Types
  <1>3. file' \in Table /\ torn' \in BOOLEAN /\ writing' \subseteq Program
    BY <1>1, FillParts DEF IInv, Types
  <1>4. saves' \in [Program -> Seq(Save)]
    <2>1. /\ saves \in [Program -> Seq(Save)] /\ saves[p] \in Seq(Save) /\ saves[p] # <<>>
          /\ saves' = [saves EXCEPT ![p] = Tail(@)]
      BY FillParts DEF IInv, Types
    <2>2. Tail(saves[p]) \in Seq(Save)
      BY <2>1
    <2>. QED  BY <2>1, <2>2
  <1>5. live' \in [Code -> Nat]
    <2>1. /\ live \in [Code -> Nat]
          /\ live' = [c \in Code |-> IF c \in Begins(p) THEN live[c] + 1 ELSE live[c]]
      BY FillParts DEF IInv, Types
    <2>. QED  BY <2>1
  <1>6. unseen' \in [Program -> SUBSET Code]
    <2>1. /\ unseen \in [Program -> SUBSET Code]
          /\ unseen' = [q \in Program |->
               IF q = p THEN IF Len(saves[p]) = 1 THEN {} ELSE unseen[q]
               ELSE IF Holds(q) THEN unseen[q] \cup Changed(file, First(p).table) ELSE {}]
      BY FillParts DEF IInv, Types
    <2>2. Changed(file, First(p).table) \subseteq Code
      BY <1>2 DEF Changed
    <2>. QED  BY <2>1, <2>2
  <1>7. lost' \subseteq Code
    BY FillParts DEF IInv, Types
  <1>8. started' \in [Code -> Nat]
    BY FillParts DEF IInv, Types
  <1>9. released' \in [Code -> Nat]
    <2>1. /\ released \in [Code -> Nat]
          /\ released' = [c \in Code |-> IF c \in Fresh(p) \cup lost' THEN 0
                                        ELSE IF c \in First(p).frees THEN released[c] + 1
                                        ELSE released[c]]
      BY FillParts DEF IInv, Types
    <2>. QED  BY <2>1
  <1>. QED
    BY <1>3, <1>4, <1>5, <1>6, <1>7, <1>8, <1>9, FillParts DEF IInv, Types

LEMMA FillServerCopies ==
  ASSUME IInv, FillFile(Server)
  PROVE  CopiesInv'
  <1> DEFINE q == saves[Server]
  <1>1. Server \in Program /\ Admin \in Program /\ Server # Admin
    BY CodeAssumption DEF Program
  <1>2. /\ q \in Seq(Save) /\ q # <<>>
        /\ saves'[Server] = Tail(q) /\ saves'[Admin] = saves[Admin]
        /\ file' = q[1].table /\ writing' = writing \ {Server}
        /\ UNCHANGED <<up, screen>>
        /\ starting' = IF Len(q) = 1 THEN NoCode ELSE starting
        /\ unseen'[Server] = IF Len(q) = 1 THEN {} ELSE unseen[Server]
        /\ unseen'[Admin] = IF Holds(Admin) THEN unseen[Admin] \cup Changed(file, file')
                            ELSE {}
    <2>1. /\ q \in Seq(Save) /\ q # <<>>
          /\ saves' = [saves EXCEPT ![Server] = Tail(@)]
          /\ file' = q[1].table /\ writing' = writing \ {Server}
          /\ UNCHANGED <<up, screen>>
          /\ starting' = IF Len(q) = 1 THEN NoCode ELSE starting
      BY <1>1, FillParts
    <2>2. unseen' = [r \in Program |->
            IF r = Server THEN IF Len(q) = 1 THEN {} ELSE unseen[r]
            ELSE IF Holds(r) THEN unseen[r] \cup Changed(file, file') ELSE {}]
      BY <1>1, FillParts
    <2>3. DOMAIN saves = Program
      BY DEF IInv, Types
    <2>4. saves'[Server] = Tail(q) /\ saves'[Admin] = saves[Admin]
      BY <1>1, <2>1, <2>3
    <2>. QED  BY <1>1, <2>1, <2>2, <2>4
  <1>3. ServerFits(q, starting, file, unseen[Server]) /\ up
    BY <1>2 DEF IInv, CopiesInv, Types
  <1>4. ServerFits(Tail(q), starting', file', unseen'[Server])
    <2>1. CASE Len(q) = 1
      <3>1. Len(Tail(q)) = 0
        BY <1>2, <2>1
      <3>. QED  BY <1>2, <2>1, <3>1 DEF ServerFits
    <2>2. CASE Len(q) = 2
      <3>1. Len(Tail(q)) = 1 /\ Tail(q)[1] = q[2]
        BY <1>2, <2>2
      <3>. QED  BY <1>2, <1>3, <2>2, <3>1 DEF ServerFits
    <2>. QED  BY <1>2, <1>3, <2>1, <2>2 DEF ServerFits
  <1>5. AdminFits(saves[Admin], file', unseen'[Admin])
    <2>1. CASE saves[Admin] = <<>>
      BY <2>1 DEF AdminFits
    <2>2. CASE saves[Admin] # <<>>
      BY <1>2, <2>2, AdminAges DEF Holds, IInv, CopiesInv
    <2>. QED  BY <2>1, <2>2
  <1>6. screen # NoScreen => /\ saves[Admin] = <<>>
                             /\ Agrees(screen.table, file', unseen'[Admin])
    BY <1>2, ScreenAges DEF Holds, IInv, CopiesInv
  <1>7. \A p \in writing' : saves'[p] # <<>>
    BY <1>1, <1>2 DEF IInv, CopiesInv, Types, Program
  <1>. QED  BY <1>2, <1>3, <1>4, <1>5, <1>6, <1>7 DEF CopiesInv

LEMMA FillAdminCopies ==
  ASSUME IInv, FillFile(Admin)
  PROVE  CopiesInv'
  <1> DEFINE q == saves[Admin]
  <1>1. Server \in Program /\ Admin \in Program /\ Server # Admin
    BY CodeAssumption DEF Program
  <1>2. /\ q \in Seq(Save) /\ q # <<>>
        /\ saves'[Admin] = Tail(q) /\ saves'[Server] = saves[Server]
        /\ file' = q[1].table /\ writing' = writing \ {Admin}
        /\ UNCHANGED <<up, screen, starting>>
        /\ unseen'[Server] = IF Holds(Server) THEN unseen[Server] \cup Changed(file, file')
                             ELSE {}
    <2>1. /\ q \in Seq(Save) /\ q # <<>>
          /\ saves' = [saves EXCEPT ![Admin] = Tail(@)]
          /\ file' = q[1].table /\ writing' = writing \ {Admin}
          /\ UNCHANGED <<up, screen, starting>>
      BY <1>1, FillParts
    <2>2. unseen' = [r \in Program |->
            IF r = Admin THEN IF Len(q) = 1 THEN {} ELSE unseen[r]
            ELSE IF Holds(r) THEN unseen[r] \cup Changed(file, file') ELSE {}]
      BY <1>1, FillParts
    <2>3. DOMAIN saves = Program
      BY DEF IInv, Types
    <2>4. saves'[Admin] = Tail(q) /\ saves'[Server] = saves[Server]
      BY <1>1, <2>1, <2>3
    <2>. QED  BY <1>1, <2>1, <2>2, <2>4
  <1>3. Len(q) = 1 /\ screen = NoScreen
    BY <1>2 DEF IInv, CopiesInv, AdminFits
  <1>4. saves'[Admin] = <<>>
    <2>1. Tail(q) \in Seq(Save) /\ Len(Tail(q)) = 0
      BY <1>2, <1>3
    <2>. QED  BY <1>2, <2>1, EmptySeq
  <1>5. ServerFits(saves[Server], starting, file', unseen'[Server])
    <2>1. CASE saves[Server] = <<>>
      BY <2>1 DEF IInv, CopiesInv, ServerFits
    <2>2. CASE saves[Server] # <<>>
      BY <1>2, <2>2, ServerAges DEF Holds, IInv, CopiesInv
    <2>. QED  BY <2>1, <2>2
  <1>6. \A p \in writing' : saves'[p] # <<>>
    BY <1>1, <1>2 DEF IInv, CopiesInv, Types, Program
  <1>. QED  BY <1>2, <1>3, <1>4, <1>5, <1>6 DEF IInv, CopiesInv, AdminFits

\* The balance survives the save, for codes that the copy had seen.
LEMMA FillUses ==
  ASSUME IInv, NEW p \in Program, FillFile(p)
  PROVE  UsesAddUp'
  <1> DEFINE s == First(p)
             begins == IF p = Server /\ Len(saves[p]) = 1 THEN starting ELSE NoCode
  <1>1. Fits(p, s, begins, file, unseen[p])
    BY FillParts, CodeAssumption DEF IInv, CopiesInv, ServerFits, AdminFits, Program
  <1>2. s.table \in Table /\ file \in Table
    BY FillParts DEF Save, IInv, Types
  <1>3. SUFFICES ASSUME NEW c \in Codes(s.table) \ (lost' \cup Unlimited)
                 PROVE  started'[c] = s.table[c].use_count + released'[c]
                                        + (IF s.table[c].in_use THEN 1 ELSE 0)
    BY FillParts DEF UsesAddUp
  <1>4. /\ c \in Code /\ c # NoCode /\ c \notin unseen[p]
        /\ c \in lost => c \in Fresh(p)
    BY <1>2, TableParts, FillParts, CodeAssumption
  <1>5. /\ started[c] \in Nat /\ released[c] \in Nat
        /\ s.table[c].use_count \in Nat /\ s.table[c].in_use \in BOOLEAN
    BY <1>2, <1>4, TableParts DEF IInv, Types
  <1>6. CASE c \in Fresh(p)
    <2>1. p = Admin /\ c \notin Codes(file)
      BY <1>6 DEF Fresh
    <2>2. s.table[c] = NewEntry
      BY <1>1, <1>4, <2>1 DEF Fits
    <2>3. started'[c] = 0 /\ released'[c] = 0
      BY <1>4, <1>6, FillParts
    <2>. QED  BY <2>2, <2>3 DEF NewEntry
  <1>7. CASE c \notin Fresh(p)
    <2>1. /\ c \in Codes(file)
          /\ Balance(s.table[c]) + (IF c \in s.frees THEN 1 ELSE 0)
               = Balance(file[c]) + (IF c = begins THEN 1 ELSE 0)
      BY <1>1, <1>4, <1>7 DEF Fits, Fresh
    <2>2. /\ file[c].use_count \in Nat /\ file[c].in_use \in BOOLEAN
      BY <1>2, <2>1, TableParts
    <2>3. started[c] = Balance(file[c]) + released[c]
      BY <1>4, <1>5, <1>7, <2>1, <2>2 DEF IInv, UsesAddUp, Balance
    <2>4. started'[c] = started[c] + (IF c = begins THEN 1 ELSE 0)
      BY <1>4, <1>5, <1>7, FillParts DEF Begins
    <2>5. released'[c] = released[c] + (IF c \in s.frees THEN 1 ELSE 0)
      BY <1>4, <1>5, <1>7, FillParts
    <2> HIDE DEF begins, s
    <2>. QED  BY <1>5, <2>1, <2>2, <2>3, <2>4, <2>5 DEF Balance
  <1>. QED  BY <1>6, <1>7

LEMMA FillFileIInv ==
  ASSUME IInv, NEW p \in Program, FillFile(p)
  PROVE  IInv'
  BY FillTypes, FillServerCopies, FillAdminCopies, FillUses DEF IInv, Program

LEMMA OtherStepsIInv ==
  ASSUME IInv, (\E c \in Code : ExpiryPasses(c)) \/ UNCHANGED vars
  PROVE  IInv'
  <1>1. /\ UNCHANGED <<disk, memory, past, screen, saves, crashes, unseen>>
        /\ expired' \subseteq Code
    BY DEF ExpiryPasses, vars, IInv, Types
  <1>2. Types' /\ CopiesInv' /\ UsesAddUp'
    BY <1>1 DEF IInv, Types, CopiesInv, UsesAddUp, disk, memory, past
  <1>. QED  BY <1>2 DEF IInv

LEMMA NextIInv == IInv /\ [Next]_vars => IInv'
  BY OpenFileIInv, FillFileIInv, HelloAcceptedIInv, HelloRejectedIInv, ServerIInv, CrashIInv,
     ScreenIInv, MenuCreateIInv, MenusIInv, OtherStepsIInv
  DEF Next, ServerOnCode, AdminOnCode

THEOREM IInvHolds == Spec => []IInv
  BY InitIInv, NextIInv, PTL DEF Spec

-----------------------------------------------------------------------------
\* The file, the copies and the history are well typed.
THEOREM TypesAreCorrect == Spec => []TypeOK
<1>1. IInv => TypeOK
  <2> SUFFICES ASSUME IInv  PROVE TypeOK
    OBVIOUS
  <2>1. \A t \in Table : IsTable(t)
    BY TableParts DEF IsTable, Codes
  <2>2. \A s \in Save : IsSave(s)
    BY <2>1 DEF Save, IsSave
  <2>3. \A p \in Program : \A i \in 1 .. Len(saves[p]) : IsSave(saves[p][i])
    BY <2>2 DEF IInv, Types
  <2>. QED  BY <2>1, <2>3 DEF IInv, Types, TypeOK
<1>. QED  BY <1>1, IInvHolds, PTL

\* Each session that started on a limited code was counted, has it locked, or had
\* its lock dropped, as long as no save undid a change of the code.
THEOREM UsesDoAddUp == Spec => []UsesAddUp
  BY IInvHolds, PTL DEF IInv

\* In the file and in every copy a code without uses left is marked.
THEOREM ExhaustedAreMarked == Spec => []ExhaustedIsMarked
<1>1. IInv => ExhaustedIsMarked
  <2> SUFFICES ASSUME IInv  PROVE ExhaustedIsMarked
    OBVIOUS
  <2>1. ASSUME NEW p \in Program, NEW i \in 1 .. Len(saves[p])
        PROVE  saves[p][i].table \in Table
    <3>1. saves[p] \in Seq(Save)
      BY DEF IInv, Types
    <3>2. saves[p][i] \in Save
      BY <3>1
    <3>. QED  BY <3>2 DEF Save
  <2>. QED  BY <2>1, TableParts DEF IInv, Types, ExhaustedIsMarked
<1>. QED  BY <1>1, IInvHolds, PTL

\* A save of the server takes no code away that was there when it read the file
\* and has not changed since.
THEOREM ServerDoesKeepCodes == Spec => ServerKeepsCodes
<1>1. IInv /\ FillFile(Server) => Codes(file) \ unseen[Server] \subseteq Codes(file')
  <2> SUFFICES ASSUME IInv, FillFile(Server)
               PROVE  Codes(file) \ unseen[Server] \subseteq Codes(file')
    OBVIOUS
  <2>1. saves[Server] \in Seq(Save) /\ saves[Server] # <<>> /\ file' = saves[Server][1].table
    BY FillParts DEF Program
  <2>. QED  BY <2>1 DEF IInv, CopiesInv, ServerFits, Fits
<1>. QED  BY <1>1, IInvHolds, PTL DEF Spec, ServerKeepsCodes

\* A session starts on a code that is free in the file at that moment, unless the
\* save that starts it undid a change.
THEOREM SessionsStartOnFreeCode == Spec => StartsOnFreeCode
<1> DEFINE Free(c) == \/ c \in lost'
                      \/ c \in Codes(file) /\ ~file[c].used /\ ~file[c].in_use
<1>1. IInv /\ [Next]_vars => \A c \in Code : started'[c] > started[c] => Free(c)
  <2> SUFFICES ASSUME IInv, [Next]_vars, NEW c \in Code, started'[c] > started[c]
               PROVE  Free(c)
    OBVIOUS
  <2>1. started[c] \in Nat
    BY DEF IInv, Types
  <2>2. PICK p \in Program : FillFile(p)
    <3>1. started' # started
      BY <2>1
    <3>. QED
      BY <3>1
      DEF Next, OpenFile, ServerOnCode, AdminOnCode, HelloAccepted, HelloRejected, SessionEnds,
          SessionTimer, CleanupOrphanedTokens, ServerCrash, ServerStart, OpenMenu, LeaveMenu,
          MenuCreate, MenuRevoke, MenuDelete, MenuKick, MenuUnlock, MenuChangePermissions,
          MenuPurge, MenuDeleteAll, SaveScreen, AdminQuits, ExpiryPasses, vars, past
  <2>3. c \in Begins(p)
    BY <2>1, <2>2, FillParts
  <2>4. p = Server /\ Len(saves[Server]) = 1 /\ c = starting
    BY <2>3 DEF Begins
  <2>5. Starts(c, file, unseen[Server]) /\ c # NoCode
    BY <2>4, CodeAssumption DEF IInv, CopiesInv, ServerFits
  <2>6. unseen[Server] \subseteq lost'
    BY <2>2, <2>4, FillParts
  <2>. QED  BY <2>5, <2>6 DEF Starts
<1>2. Spec => [][\A c \in Code : started'[c] > started[c] => Free(c)]_vars
  BY <1>1, IInvHolds, PTL DEF Spec
<1>. QED  BY <1>2 DEF StartsOnFreeCode
=============================================================================
