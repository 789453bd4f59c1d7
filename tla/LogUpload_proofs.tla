---------------------------- MODULE LogUpload_proofs ----------------------------
(***************************************************************************)
(* Proofs that LogUpload keeps its types and that ReportsAreTrue and       *)
(* BusyIsCovered hold, for every number of pages and uploads, with either  *)
(* agent.                                                                  *)
(*                                                                         *)
(* Types and ReportsAreTrue together are inductive.  What a step does to a *)
(* page's messages is one of five things (Step below); only ServerStores   *)
(* appends a report, and it does so when the upload, not stored before,    *)
(* becomes stored.  BusyIsCovered is inductive beside them: a button more  *)
(* is an upload more that was not open before (it would have been stored), *)
(* and a report less is a button less.                                     *)
(***************************************************************************)
EXTENDS LogUpload, FiniteSetTheorems, TLAPS

IInv == TypeOK /\ ReportsAreTrue

\* The messages q of page p tell the truth when uploads are in the stages st.
Told(q, p, st) ==
  \A i \in DOMAIN q : q[i].msg = "report" =>
    /\ st[q[i].upload] \in Stored
    /\ PageOf(q[i].upload) = p
    /\ \A j \in DOMAIN q : q[j] = q[i] => i = j

-----------------------------------------------------------------------------
\* Facts about uploads and messages.

LEMMA UploadParts ==
  ASSUME NEW u \in Upload
  PROVE  PageOf(u) \in Page /\ KindOf(u) \in Kind
  BY DEF Upload, PageOf, KindOf

LEMMA UploadNotes ==
  ASSUME NEW u \in Upload, NEW m \in {"accepted", "refused", "report"}
  PROVE  Note(m, u) \in Message /\ Note(m, u).msg = m /\ Note(m, u).upload = u
  BY DEF Note, Message

LEMMA SessionNotes ==
  ASSUME NEW m \in {"up", "down"}
  PROVE  Note(m, NoUpload) \in Message /\ Note(m, NoUpload).msg = m
  BY DEF Note, Message

LEMMA NotesAreAboutUploads ==
  ASSUME NEW n \in Message, n.msg \notin {"up", "down"}
  PROVE  n.upload \in Upload
  BY DEF Message

LEMMA ReportsByPage ==
  ReportsAreTrue <=> \A p \in Page : Told(inbox[p], p, stage)
  BY DEF ReportsAreTrue, Told

\* Messages of which none is a report stay true, and so do those that follow the
\* first; another message that is no report changes nothing.
LEMMA ToldKeeps ==
  ASSUME NEW q \in Seq(Message), NEW p, NEW st, Told(q, p, st)
  PROVE  /\ q # <<>> => Told(Tail(q), p, st)
         /\ \A n \in Message : n.msg # "report" => Told(Append(q, n), p, st)
  <1>1. ASSUME q # <<>>  PROVE Told(Tail(q), p, st)
    <2>1. /\ DOMAIN q = 1 .. Len(q)
          /\ DOMAIN Tail(q) = 1 .. Len(q) - 1
          /\ Len(q) \in Nat
          /\ \A i \in 1 .. Len(q) - 1 : Tail(q)[i] = q[i + 1]
      BY <1>1
    <2>. QED  BY <2>1 DEF Told
  <1>2. ASSUME NEW n \in Message, n.msg # "report"
        PROVE  Told(Append(q, n), p, st)
    <2>1. /\ DOMAIN q = 1 .. Len(q)
          /\ DOMAIN Append(q, n) = 1 .. Len(q) + 1
          /\ Len(q) \in Nat
          /\ \A i \in 1 .. Len(q) : Append(q, n)[i] = q[i]
          /\ Append(q, n)[Len(q) + 1] = n
      OBVIOUS
    <2>. QED  BY <1>2, <2>1 DEF Told
  <1>. QED  BY <1>1, <1>2

\* A report of an upload that was not stored until now is the only one of it.
LEMMA ToldOnce ==
  ASSUME NEW q \in Seq(Message), NEW st, NEW u \in Upload, NEW new,
         Told(q, PageOf(u), st), st[u] \notin Stored, new[u] \in Stored,
         \A v \in Upload : st[v] \in Stored => new[v] \in Stored
  PROVE  Told(Append(q, Note("report", u)), PageOf(u), new)
  <1> DEFINE n == Note("report", u)
             r == Append(q, n)
  <1>1. /\ DOMAIN q = 1 .. Len(q)
        /\ DOMAIN r = 1 .. Len(q) + 1
        /\ Len(q) \in Nat
        /\ \A i \in 1 .. Len(q) : r[i] = q[i] /\ q[i] \in Message
        /\ r[Len(q) + 1] = n
    BY UploadNotes
  <1>2. n.msg = "report" /\ n.upload = u
    BY UploadNotes
  <1>3. \A i \in 1 .. Len(q) : q[i] # n
    BY <1>1, <1>2 DEF Told
  <1> HIDE DEF n, r
  <1>4. ASSUME NEW i \in DOMAIN r, r[i].msg = "report"
        PROVE  /\ new[r[i].upload] \in Stored
               /\ PageOf(r[i].upload) = PageOf(u)
               /\ \A j \in DOMAIN r : r[j] = r[i] => i = j
    <2>1. CASE i = Len(q) + 1
      BY <1>1, <1>2, <1>3, <2>1
    <2>2. CASE i \in 1 .. Len(q)
      <3>1. q[i] \in Message /\ q[i].msg = "report" /\ r[i] = q[i]
        BY <1>1, <1>4, <2>2
      <3>2. q[i].upload \in Upload
        BY <3>1, NotesAreAboutUploads
      <3>3. /\ st[q[i].upload] \in Stored
            /\ PageOf(q[i].upload) = PageOf(u)
            /\ \A j \in 1 .. Len(q) : q[j] = q[i] => i = j
        BY <1>1, <2>2, <3>1 DEF Told
      <3>. QED  BY <1>1, <1>3, <2>2, <3>1, <3>2, <3>3
    <2>. QED  BY <1>1, <2>1, <2>2
  <1>. QED  BY <1>4 DEF Told, n, r

-----------------------------------------------------------------------------
\* What a step other than ServerStores does to a page's messages.
Step(p) ==
  \/ inbox'[p] = inbox[p]
  \/ inbox'[p] = <<>>
  \/ inbox'[p] = <<Note("down", NoUpload)>>
  \/ inbox[p] # <<>> /\ inbox'[p] = Tail(inbox[p])
  \/ \E n \in Message : n.msg # "report" /\ inbox'[p] = Append(inbox[p], n)

LEMMA StepsAreTrue ==
  ASSUME IInv, TypeOK', \A p \in Page : Step(p),
         \A u \in Upload : stage[u] \in Stored => stage'[u] \in Stored
  PROVE  IInv'
  <1>1. ASSUME NEW p \in Page  PROVE Told(inbox'[p], p, stage')
    <2>1. inbox[p] \in Seq(Message) /\ inbox'[p] \in Seq(Message)
      BY DEF IInv, TypeOK
    <2>2. Told(inbox[p], p, stage)
      BY ReportsByPage DEF IInv
    <2>3. Told(inbox'[p], p, stage)
      <3>1. CASE inbox'[p] = <<>>
        BY <3>1 DEF Told
      <3>2. CASE inbox'[p] = <<Note("down", NoUpload)>>
        BY <3>2, SessionNotes DEF Told
      <3>3. CASE \/ inbox[p] # <<>> /\ inbox'[p] = Tail(inbox[p])
                 \/ \E n \in Message : n.msg # "report" /\ inbox'[p] = Append(inbox[p], n)
        BY <2>1, <2>2, <3>3, ToldKeeps
      <3>. QED  BY <2>2, <3>1, <3>2, <3>3 DEF Step
    <2>4. \A i \in DOMAIN inbox'[p] : inbox'[p][i] \in Message
      BY <2>1
    <2>. QED  BY <2>3, <2>4, NotesAreAboutUploads DEF Told
  <1>2. ReportsAreTrue'
    BY <1>1 DEF ReportsAreTrue, Told
  <1>. QED  BY <1>2 DEF IInv

\* Telling the asker of an upload.
LEMMA TellAskerKeeps ==
  ASSUME TypeOK, NEW u \in Upload, NEW m \in {"accepted", "refused", "report"},
         TellAsker(u, m)
  PROVE  /\ inbox' \in [Page -> Seq(Message)]
         /\ \A p \in Page : \/ inbox'[p] = inbox[p]
                            \/ p = PageOf(u) /\ inbox'[p] = Append(inbox[p], Note(m, u))
  BY UploadParts, UploadNotes DEF TellAsker, TypeOK

LEMMA InitIsTrue == Init => IInv
  <1> SUFFICES ASSUME Init  PROVE IInv
    OBVIOUS
  <1>1. TypeOK
    <2>1. <<>> \in Seq(Message)
      OBVIOUS
    <2>. QED  BY <2>1 DEF Init, TypeOK, Stage
  <1>2. ASSUME NEW p \in Page  PROVE DOMAIN inbox[p] = {}
    BY DEF Init
  <1>. QED  BY <1>1, <1>2 DEF IInv, ReportsAreTrue

-----------------------------------------------------------------------------
\* The session's steps.

LEMMA AgentArrivesKeeps == IInv /\ AgentArrives => IInv'
  <1> SUFFICES ASSUME IInv, AgentArrives  PROVE IInv'
    OBVIOUS
  <1>1. TypeOK'
    BY DEF IInv, TypeOK, AgentArrives, page
  <1>. QED  BY <1>1, StepsAreTrue DEF AgentArrives, page, Step

LEMMA CodeIsBurnedKeeps == IInv /\ CodeIsBurned => IInv'
  <1> SUFFICES ASSUME IInv, CodeIsBurned  PROVE IInv'
    OBVIOUS
  <1>1. TypeOK'
    BY DEF IInv, TypeOK, CodeIsBurned, page
  <1>. QED  BY <1>1, StepsAreTrue DEF CodeIsBurned, page, Step

LEMMA AgentLeavesKeeps == IInv /\ AgentLeaves => IInv'
  <1> SUFFICES ASSUME IInv, AgentLeaves  PROVE IInv'
    OBVIOUS
  <1> DEFINE down == Note("down", NoUpload)
  <1>1. PICK lost \in SUBSET {u \in Upload : stage[u] = "asked"} :
          /\ stage' = [u \in Upload |-> IF u \in lost THEN "gone" ELSE stage[u]]
          /\ spoiled' = spoiled \cup {PageOf(u) : u \in lost}
    BY DEF AgentLeaves
  <1>2. down \in Message /\ down.msg # "report"
    BY SessionNotes
  <1> HIDE DEF down
  <1>3. inbox' = [p \in Page |-> IF p \in paired THEN Append(inbox[p], down) ELSE inbox[p]]
    BY DEF AgentLeaves, down
  <1>4. inbox' \in [Page -> Seq(Message)]
    BY <1>2, <1>3 DEF IInv, TypeOK
  <1>5. spoiled' \subseteq Page
    BY <1>1, UploadParts DEF IInv, TypeOK
  <1>6. stage' \in [Upload -> Stage]
    BY <1>1 DEF IInv, TypeOK, Stage
  <1>7. TypeOK'
    BY <1>4, <1>5, <1>6 DEF IInv, TypeOK, AgentLeaves
  <1>8. \A p \in Page : Step(p)
    BY <1>2, <1>3 DEF Step
  <1>9. \A u \in Upload : stage[u] \in Stored => stage'[u] \in Stored
    BY <1>1 DEF Stored
  <1>. QED  BY <1>7, <1>8, <1>9, StepsAreTrue

LEMMA PagePairsKeeps == \A p \in Page : IInv /\ PagePairs(p) => IInv'
  <1> SUFFICES ASSUME NEW p \in Page, IInv, PagePairs(p)  PROVE IInv'
    OBVIOUS
  <1> DEFINE up == Note("up", NoUpload)
  <1>1. up \in Message /\ up.msg # "report"
    BY SessionNotes
  <1> HIDE DEF up
  <1>2. inbox' = [inbox EXCEPT ![p] = Append(@, up)]
    BY DEF PagePairs, up
  <1>3. TypeOK'
    BY <1>1, <1>2 DEF IInv, TypeOK, PagePairs
  <1>4. \A c \in Page : Step(c)
    BY <1>1, <1>2 DEF Step, IInv, TypeOK
  <1>. QED  BY <1>3, <1>4, StepsAreTrue DEF PagePairs

LEMMA PageReconnectsKeeps == \A p \in Page : IInv /\ PageReconnects(p) => IInv'
  <1> SUFFICES ASSUME NEW p \in Page, IInv, PageReconnects(p)  PROVE IInv'
    OBVIOUS
  <1> DEFINE down == Note("down", NoUpload)
  <1>1. <<down>> \in Seq(Message)
    BY SessionNotes
  <1> HIDE DEF down
  <1>2. inbox' = [inbox EXCEPT ![p] = <<down>>]
    BY DEF PageReconnects, down
  <1>3. TypeOK'
    BY <1>1, <1>2 DEF IInv, TypeOK, PageReconnects
  <1>4. \A c \in Page : Step(c)
    BY <1>2 DEF Step, IInv, TypeOK, down
  <1>. QED  BY <1>3, <1>4, StepsAreTrue DEF PageReconnects

LEMMA PageReloadsKeeps == \A p \in Page : IInv /\ PageReloads(p) => IInv'
  <1> SUFFICES ASSUME NEW p \in Page, IInv, PageReloads(p)  PROVE IInv'
    OBVIOUS
  <1>1. inbox' = [inbox EXCEPT ![p] = <<>>] /\ <<>> \in Seq(Message)
    BY DEF PageReloads
  <1>2. TypeOK'
    BY <1>1 DEF IInv, TypeOK, PageReloads
  <1>3. \A c \in Page : Step(c)
    BY <1>1 DEF Step, IInv, TypeOK
  <1>. QED  BY <1>2, <1>3, StepsAreTrue DEF PageReloads

-----------------------------------------------------------------------------
\* The page's steps.

LEMMA AskForUploadKeeps == \A u \in Upload : IInv /\ AskForUpload(u) => IInv'
  <1> SUFFICES ASSUME NEW u \in Upload, IInv, AskForUpload(u)  PROVE IInv'
    OBVIOUS
  <1> DEFINE p == PageOf(u)
             n == Note("refused", u)
  <1>1. n \in Message /\ n.msg # "report" /\ p \in Page /\ KindOf(u) \in Kind
    BY UploadNotes, UploadParts
  <1>2. /\ stage[u] = "new"
        /\ busy' = [busy EXCEPT ![p] = @ \cup {KindOf(u)}]
        /\ waiting' = waiting \cup {u}
        /\ reachable' = reachable \cup {u}
        /\ UNCHANGED <<session, connected>>
    BY DEF AskForUpload
  <1>3. \/ stage' = [stage EXCEPT ![u] = "asked"] /\ UNCHANGED <<inbox, spoiled>>
        \/ /\ stage' = [stage EXCEPT ![u] = "gone"]
           /\ inbox' = [inbox EXCEPT ![p] = Append(@, n)]
           /\ spoiled' = spoiled \cup {p}
    BY DEF AskForUpload
  <1> HIDE DEF p, n
  <1>4. stage' \in [Upload -> Stage]
    BY <1>3 DEF IInv, TypeOK, Stage
  <1>5. inbox' \in [Page -> Seq(Message)] /\ spoiled' \subseteq Page
    <2>1. CASE UNCHANGED <<inbox, spoiled>>
      BY <2>1 DEF IInv, TypeOK
    <2>2. CASE inbox' = [inbox EXCEPT ![p] = Append(@, n)] /\ spoiled' = spoiled \cup {p}
      <3>1. inbox[p] \in Seq(Message) /\ Append(inbox[p], n) \in Seq(Message)
        BY <1>1 DEF IInv, TypeOK
      <3>. QED  BY <1>1, <2>2, <3>1 DEF IInv, TypeOK
    <2>. QED  BY <1>3, <2>1, <2>2
  <1>6. TypeOK'
    BY <1>1, <1>2, <1>4, <1>5 DEF IInv, TypeOK, session
  <1>7. \A c \in Page : Step(c)
    BY <1>1, <1>3 DEF Step, IInv, TypeOK
  <1>8. \A v \in Upload : stage[v] \in Stored => stage'[v] \in Stored
    BY <1>2, <1>3 DEF IInv, TypeOK, Stored
  <1>. QED  BY <1>6, <1>7, <1>8, StepsAreTrue

\* Giving a button back.
LEMMA CommandFailsKeeps ==
  ASSUME TypeOK, NEW u \in Upload, CommandFails(u)
  PROVE  /\ waiting' \subseteq Upload
         /\ busy' \in [Page -> SUBSET Kind]
         /\ spoiled' \subseteq Page
  BY UploadParts DEF TypeOK, CommandFails

LEMMA SixtySecondsKeeps == \A u \in Upload : IInv /\ SixtySeconds(u) => IInv'
  <1> SUFFICES ASSUME NEW u \in Upload, IInv, SixtySeconds(u)  PROVE IInv'
    OBVIOUS
  <1>1. TypeOK'
    BY CommandFailsKeeps DEF IInv, TypeOK, SixtySeconds, session
  <1>. QED  BY <1>1, StepsAreTrue DEF SixtySeconds, Step

LEMMA PageReceivesKeeps == \A p \in Page : IInv /\ PageReceives(p) => IInv'
  <1> SUFFICES ASSUME NEW p \in Page, IInv, PageReceives(p)  PROVE IInv'
    OBVIOUS
  <1> DEFINE m == Head(inbox[p]).msg
             u == Head(inbox[p]).upload
  <1>1. /\ inbox[p] # <<>>
        /\ inbox' = [inbox EXCEPT ![p] = Tail(@)]
        /\ UNCHANGED <<session, reachable, stage>>
    BY DEF PageReceives
  <1>2. Head(inbox[p]) \in Message /\ Tail(inbox[p]) \in Seq(Message)
    BY <1>1 DEF IInv, TypeOK
  <1>3. m \notin {"up", "down"} => u \in Upload
    BY <1>2, NotesAreAboutUploads
  <1>4. /\ connected' \subseteq Page
        /\ busy' \in [Page -> SUBSET Kind]
        /\ waiting' \subseteq Upload
        /\ spoiled' \subseteq Page
    <2>1. CASE m = "up" /\ connected' = connected \cup {p} /\ UNCHANGED <<busy, waiting, spoiled>>
      BY <2>1 DEF IInv, TypeOK
    <2>2. CASE m = "down" /\ connected' = connected \ {p} /\ UNCHANGED <<busy, waiting, spoiled>>
      BY <2>2 DEF IInv, TypeOK
    <2>3. CASE m = "refused" /\ u \in waiting /\ CommandFails(u) /\ UNCHANGED connected
      BY <1>3, <2>3, CommandFailsKeeps DEF IInv, TypeOK
    <2>4. CASE UNCHANGED <<connected, busy, waiting, spoiled>>
      BY <2>4 DEF IInv, TypeOK
    <2>5. CASE waiting' = waiting \ {u} /\ UNCHANGED <<connected, busy, spoiled>>
      BY <2>5 DEF IInv, TypeOK
    <2>6. CASE busy' = [busy EXCEPT ![p] = @ \ RestoredBy(p)] /\ UNCHANGED <<connected, waiting, spoiled>>
      BY <2>6 DEF IInv, TypeOK
    <2>. QED  BY <2>1, <2>2, <2>3, <2>4, <2>5, <2>6 DEF PageReceives
  <1>5. TypeOK'
    BY <1>1, <1>2, <1>4 DEF IInv, TypeOK, session
  <1>6. \A c \in Page : Step(c)
    BY <1>1 DEF Step, IInv, TypeOK
  <1>. QED  BY <1>1, <1>5, <1>6, StepsAreTrue

-----------------------------------------------------------------------------
\* The agent's and the server's steps.

LEMMA AgentTakesKeeps == \A u \in Upload : IInv /\ AgentTakes(u) => IInv'
  <1> SUFFICES ASSUME NEW u \in Upload, IInv, AgentTakes(u)  PROVE IInv'
    OBVIOUS
  <1> DEFINE n == Note("accepted", u)
  <1>1. n \in Message /\ n.msg # "report" /\ PageOf(u) \in Page
    BY UploadNotes, UploadParts
  <1>2. /\ stage[u] = "asked"
        /\ UNCHANGED <<session, connected, busy, waiting, reachable>>
        /\ \/ stage' = [stage EXCEPT ![u] = "collecting"] /\ UNCHANGED spoiled
           \/ stage' = [stage EXCEPT ![u] = "gone"] /\ spoiled' = spoiled \cup {PageOf(u)}
    BY DEF AgentTakes
  <1>3. /\ inbox' \in [Page -> Seq(Message)]
        /\ \A c \in Page : inbox'[c] = inbox[c] \/ inbox'[c] = Append(inbox[c], n)
    <2>1. CASE TellAsker(u, "accepted")
      BY <2>1, TellAskerKeeps DEF IInv
    <2>2. CASE UNCHANGED inbox
      BY <2>2 DEF IInv, TypeOK
    <2>. QED  BY <2>1, <2>2 DEF AgentTakes
  <1> HIDE DEF n
  <1>4. stage' \in [Upload -> Stage] /\ spoiled' \subseteq Page
    BY <1>1, <1>2 DEF IInv, TypeOK, Stage
  <1>5. TypeOK'
    BY <1>2, <1>3, <1>4 DEF IInv, TypeOK, session
  <1>6. \A c \in Page : Step(c)
    BY <1>1, <1>3 DEF Step
  <1>7. \A v \in Upload : stage[v] \in Stored => stage'[v] \in Stored
    BY <1>2 DEF IInv, TypeOK, Stored
  <1>. QED  BY <1>5, <1>6, <1>7, StepsAreTrue

LEMMA AgentPostsKeeps == \A u \in Upload : IInv /\ AgentPosts(u) => IInv'
  <1> SUFFICES ASSUME NEW u \in Upload, IInv, AgentPosts(u)  PROVE IInv'
    OBVIOUS
  <1>1. TypeOK'
    BY DEF IInv, TypeOK, AgentPosts, session, page, Stage
  <1>2. \A v \in Upload : stage[v] \in Stored => stage'[v] \in Stored
    BY DEF IInv, TypeOK, AgentPosts, Stored
  <1>3. \A c \in Page : Step(c)
    BY DEF AgentPosts, page, Step
  <1>. QED  BY <1>1, <1>2, <1>3, StepsAreTrue

LEMMA PostFailsKeeps == \A u \in Upload : IInv /\ PostFails(u) => IInv'
  <1> SUFFICES ASSUME NEW u \in Upload, IInv, PostFails(u)  PROVE IInv'
    OBVIOUS
  <1>1. TypeOK'
    BY UploadParts DEF IInv, TypeOK, PostFails, session, page, Stage
  <1>2. \A v \in Upload : stage[v] \in Stored => stage'[v] \in Stored
    BY DEF IInv, TypeOK, PostFails, Stored
  <1>3. \A c \in Page : Step(c)
    BY DEF PostFails, page, Step
  <1>. QED  BY <1>1, <1>2, <1>3, StepsAreTrue

LEMMA AgentIsAnsweredKeeps == \A u \in Upload : IInv /\ AgentIsAnswered(u) => IInv'
  <1> SUFFICES ASSUME NEW u \in Upload, IInv, AgentIsAnswered(u)  PROVE IInv'
    OBVIOUS
  <1>1. TypeOK'
    BY DEF IInv, TypeOK, AgentIsAnswered, session, page, Stage, Stored
  <1>2. \A v \in Upload : stage[v] \in Stored => stage'[v] \in Stored
    BY DEF IInv, TypeOK, AgentIsAnswered, Stored
  <1>3. \A c \in Page : Step(c)
    BY DEF AgentIsAnswered, page, Step
  <1>. QED  BY <1>1, <1>2, <1>3, StepsAreTrue

\* The one step that appends a report.
LEMMA ServerStoresKeeps == \A u \in Upload : IInv /\ ServerStores(u) => IInv'
  <1> SUFFICES ASSUME NEW u \in Upload, IInv, ServerStores(u)  PROVE IInv'
    OBVIOUS
  <1>1. /\ stage[u] = "posted"
        /\ stage' = [stage EXCEPT ![u] = "stored"]
        /\ TellAsker(u, "report")
        /\ UNCHANGED <<session, connected, busy, waiting, reachable, spoiled>>
    BY DEF ServerStores
  <1>2. /\ inbox' \in [Page -> Seq(Message)]
        /\ \A p \in Page :
             \/ inbox'[p] = inbox[p]
             \/ p = PageOf(u) /\ inbox'[p] = Append(inbox[p], Note("report", u))
    BY <1>1, TellAskerKeeps DEF IInv
  <1>3. TypeOK'
    BY <1>1, <1>2 DEF IInv, TypeOK, session, Stage, Stored
  <1>4. /\ stage[u] \notin Stored /\ stage'[u] \in Stored
        /\ \A v \in Upload : stage[v] \in Stored => stage'[v] \in Stored
    BY <1>1 DEF IInv, TypeOK, Stored
  <1>5. ASSUME NEW p \in Page  PROVE Told(inbox'[p], p, stage')
    <2>1. inbox[p] \in Seq(Message) /\ Told(inbox[p], p, stage)
      BY ReportsByPage DEF IInv, TypeOK
    <2>2. CASE inbox'[p] = inbox[p]
      <3>1. \A i \in DOMAIN inbox[p] : inbox[p][i] \in Message
        BY <2>1
      <3>. QED  BY <1>4, <2>1, <2>2, <3>1, NotesAreAboutUploads DEF Told
    <2>3. CASE p = PageOf(u) /\ inbox'[p] = Append(inbox[p], Note("report", u))
      BY <1>4, <2>1, <2>3, ToldOnce
    <2>. QED  BY <1>2, <2>2, <2>3
  <1>6. ReportsAreTrue'
    BY <1>5 DEF ReportsAreTrue, Told
  <1>. QED  BY <1>3, <1>6 DEF IInv

-----------------------------------------------------------------------------
LEMMA IInvIsInductive == IInv /\ [Next]_vars => IInv'
  <1> SUFFICES ASSUME IInv, [Next]_vars  PROVE IInv'
    OBVIOUS
  <1>1. CASE AgentArrives \/ CodeIsBurned \/ AgentLeaves
    BY <1>1, AgentArrivesKeeps, CodeIsBurnedKeeps, AgentLeavesKeeps
  <1>2. CASE \E p \in Page : PageStep(p)
    BY <1>2, PagePairsKeeps, PageReconnectsKeeps, PageReloadsKeeps, PageReceivesKeeps
       DEF PageStep
  <1>3. CASE \E u \in Upload : UploadStep(u)
    BY <1>3, AskForUploadKeeps, SixtySecondsKeeps, AgentTakesKeeps, AgentPostsKeeps,
       ServerStoresKeeps, AgentIsAnsweredKeeps, PostFailsKeeps DEF UploadStep
  <1>4. CASE UNCHANGED vars
    BY <1>4 DEF IInv, TypeOK, ReportsAreTrue, vars, session, page
  <1>. QED  BY <1>1, <1>2, <1>3, <1>4 DEF Next

LEMMA IInvHolds == Spec => []IInv
  BY InitIsTrue, IInvIsInductive, PTL DEF Spec

\* Types: what pages, agent and server hold of an upload stays well formed.
THEOREM TypesAreCorrect == Spec => []TypeOK
  <1>1. IInv => TypeOK
    BY DEF IInv
  <1>. QED  BY <1>1, IInvHolds, PTL

\* A page is told (log_upload_result) of its own uploads only, once each, and when
\* the files are stored: for every number of pages and uploads under way.
THEOREM ReportsStayTrue == Spec => []ReportsAreTrue
  <1>1. IInv => ReportsAreTrue
    BY DEF IInv
  <1>. QED  BY <1>1, IInvHolds, PTL

-----------------------------------------------------------------------------
(***************************************************************************)
(* No button is disabled for nothing.                                      *)
(***************************************************************************)

\* What p may still be told, by what is reachable (r), under way (st) and on its
\* way to p (q).
Opens(p, r, st, q) ==
  {u \in r : /\ PageOf(u) = p
             /\ \/ st[u] \in {"asked", "collecting", "posted"}
                \/ \E i \in DOMAIN q : q[i] = Note("report", u)}

Covered(p) == Cardinality(busy[p]) <= Cardinality(Opens(p, reachable, stage, inbox[p]))

CoverInv == \A p \in Page \ spoiled : Covered(p)

LEMMA CoverIsCovered == CoverInv <=> BusyIsCovered
  BY DEF CoverInv, Covered, BusyIsCovered, Open, Opens

\* A page has only so many uploads.
LEMMA UploadsAreFinite ==
  ASSUME NEW p \in Page, NEW r \in SUBSET Upload, NEW st, NEW q
  PROVE  IsFiniteSet(Opens(p, r, st, q))
  <1> DEFINE Of(k) == {u \in Upload : PageOf(u) = p /\ KindOf(u) = k}
  <1>1. ASSUME NEW k  PROVE IsFiniteSet(Of(k))
    <2>1. CASE k \in Kind
      <3> DEFINE f == [i \in 1 .. MaxUploads[k] |-> <<p, k, i>>]
      <3>1. MaxUploads[k] \in Nat
        BY <2>1, UploadAssumption
      <3>2. f \in Surjection(1 .. MaxUploads[k], Of(k))
        <4>1. ASSUME NEW i \in 1 .. MaxUploads[k]  PROVE <<p, k, i>> \in Of(k)
          BY <2>1, <4>1 DEF Upload, PageOf, KindOf
        <4>2. ASSUME NEW u \in Of(k)  PROVE \E i \in 1 .. MaxUploads[k] : u = <<p, k, i>>
          <5>1. PICK l \in Kind : u \in Page \X {l} \X (1 .. MaxUploads[l])
            BY <4>2 DEF Upload
          <5>2. u = <<u[1], u[2], u[3]>> /\ u[2] = l /\ u[3] \in 1 .. MaxUploads[l]
            BY <5>1
          <5>3. u[1] = p /\ u[2] = k
            BY <4>2 DEF PageOf, KindOf
          <5>. QED  BY <5>2, <5>3
        <4>. QED  BY <4>1, <4>2 DEF Surjection
      <3>3. IsFiniteSet(1 .. MaxUploads[k])
        BY <3>1, FS_Interval
      <3>. QED  BY <3>2, <3>3, FS_Surjection
    <2>2. CASE k \notin Kind
      <3>1. Of(k) = {}
        BY <2>2, UploadParts
      <3>. QED  BY <3>1, FS_EmptySet
    <2>. QED  BY <2>1, <2>2
  <1>2. IsFiniteSet(Of("log") \cup Of("kmsg"))
    BY <1>1, FS_Union
  <1>3. Opens(p, r, st, q) \subseteq Of("log") \cup Of("kmsg")
    <2>1. ASSUME NEW u \in Opens(p, r, st, q)  PROVE u \in Of("log") \cup Of("kmsg")
      <3>1. u \in Upload /\ PageOf(u) = p
        BY <2>1 DEF Opens
      <3>2. KindOf(u) \in {"log", "kmsg"}
        BY <3>1, UploadParts, UploadAssumption
      <3>. QED  BY <3>1, <3>2
    <2>. QED  BY <2>1
  <1>. QED  BY <1>2, <1>3, FS_Subset

LEMMA ButtonsAreFinite ==
  ASSUME TypeOK, NEW p \in Page
  PROVE  busy[p] \subseteq {"log", "kmsg"} /\ IsFiniteSet(busy[p])
  <1>1. busy[p] \subseteq {"log", "kmsg"}
    BY UploadAssumption DEF TypeOK
  <1>2. IsFiniteSet({"log"} \cup {"kmsg"})
    BY FS_Singleton, FS_AddElement
  <1>3. busy[p] \subseteq {"log"} \cup {"kmsg"}
    BY <1>1
  <1>. QED  BY <1>1, <1>2, <1>3, FS_Subset

\* A step that disables no other button of p and closes none of its uploads
\* keeps p covered.
LEMMA CoverGrows ==
  ASSUME TypeOK, TypeOK', NEW p \in Page, Covered(p),
         busy'[p] \subseteq busy[p],
         Opens(p, reachable, stage, inbox[p]) \subseteq Opens(p, reachable', stage', inbox'[p])
  PROVE  Covered(p)'
  <1> DEFINE old == Opens(p, reachable, stage, inbox[p])
             new == Opens(p, reachable', stage', inbox'[p])
  <1>1. IsFiniteSet(old) /\ IsFiniteSet(new)
    BY UploadsAreFinite DEF TypeOK
  <1>2. Cardinality(old) \in Nat /\ Cardinality(new) \in Nat /\ Cardinality(old) <= Cardinality(new)
    BY <1>1, FS_Subset, FS_CardinalityType
  <1>3. /\ Cardinality(busy[p]) \in Nat /\ Cardinality(busy'[p]) \in Nat
        /\ Cardinality(busy'[p]) <= Cardinality(busy[p])
    BY ButtonsAreFinite, FS_Subset, FS_CardinalityType
  <1> HIDE DEF old, new
  <1>4. Cardinality(busy[p]) <= Cardinality(old)
    BY DEF Covered, old
  <1>5. Cardinality(busy'[p]) <= Cardinality(new)
    BY <1>2, <1>3, <1>4
  <1>. QED  BY <1>5 DEF Covered, new

LEMMA ReportsDiffer ==
  ASSUME NEW u \in Upload, NEW v \in Upload, Note("report", u) = Note("report", v)
  PROVE  u = v
  BY UploadNotes

\* What is appended to p's messages closes nothing.
LEMMA OpensAppend ==
  ASSUME NEW p \in Page, NEW r \in SUBSET Upload, NEW st, NEW q \in Seq(Message), NEW n \in Message
  PROVE  Opens(p, r, st, q) \subseteq Opens(p, r, st, Append(q, n))
  <1>1. DOMAIN q \subseteq DOMAIN Append(q, n) /\ \A i \in DOMAIN q : Append(q, n)[i] = q[i]
    OBVIOUS
  <1>. QED  BY <1>1 DEF Opens

\* A page that reads a message that is no report closes nothing, and with a report
\* that upload only.
LEMMA OpensTail ==
  ASSUME NEW p \in Page, NEW r \in SUBSET Upload, NEW st, NEW q \in Seq(Message), q # <<>>
  PROVE  /\ Head(q).msg # "report" => Opens(p, r, st, q) \subseteq Opens(p, r, st, Tail(q))
         /\ Opens(p, r, st, q) \ {Head(q).upload} \subseteq Opens(p, r, st, Tail(q))
  <1>1. ASSUME NEW u \in Opens(p, r, st, q), u \notin Opens(p, r, st, Tail(q))
        PROVE  Head(q) = Note("report", u) /\ u \in Upload
    <2>1. u \in Upload /\ u \in r /\ PageOf(u) = p /\ ~(st[u] \in {"asked", "collecting", "posted"})
      BY <1>1 DEF Opens
    <2>2. PICK i \in DOMAIN q : q[i] = Note("report", u)
      BY <1>1, <2>1 DEF Opens
    <2>3. ~(\E j \in DOMAIN Tail(q) : Tail(q)[j] = Note("report", u))
      BY <1>1, <2>1 DEF Opens
    <2>4. i = 1
      <3> SUFFICES ASSUME i # 1  PROVE FALSE
        OBVIOUS
      <3>1. i - 1 \in DOMAIN Tail(q) /\ Tail(q)[i - 1] = q[i]
        OBVIOUS
      <3>. QED  BY <2>2, <2>3, <3>1
    <2>5. Head(q) = q[1]
      OBVIOUS
    <2>. QED  BY <2>1, <2>2, <2>4, <2>5
  <1>2. ASSUME NEW u \in Opens(p, r, st, q), u \notin Opens(p, r, st, Tail(q))
        PROVE  Head(q).msg = "report" /\ Head(q).upload = u
    <2>1. Head(q) = Note("report", u) /\ u \in Upload
      BY <1>1, <1>2
    <2>. QED  BY <2>1, UploadNotes
  <1>. QED  BY <1>2

LEMMA CoverInit == Init => CoverInv
  <1> SUFFICES ASSUME Init, NEW p \in Page  PROVE Covered(p)
    BY DEF CoverInv
  <1>1. Cardinality(busy[p]) = 0
    BY FS_EmptySet DEF Init
  <1>2. IsFiniteSet(Opens(p, reachable, stage, inbox[p]))
    BY UploadsAreFinite DEF Init
  <1>3. Cardinality(Opens(p, reachable, stage, inbox[p])) \in Nat
    BY <1>2, FS_CardinalityType
  <1>. QED  BY <1>1, <1>3 DEF Covered

\* A page without disabled buttons is covered.
LEMMA CoverNone ==
  ASSUME TypeOK', NEW p \in Page, busy'[p] = {}
  PROVE  Covered(p)'
  <1> DEFINE new == Opens(p, reachable', stage', inbox'[p])
  <1>1. IsFiniteSet(new)
    BY UploadsAreFinite DEF TypeOK
  <1>2. Cardinality(new) \in Nat
    BY <1>1, FS_CardinalityType
  <1> HIDE DEF new
  <1>3. Cardinality(busy'[p]) = 0
    BY FS_EmptySet
  <1>4. Cardinality(busy'[p]) <= Cardinality(new)
    BY <1>2, <1>3
  <1>. QED  BY <1>4 DEF Covered, new

\* One more button, one more upload.
LEMMA CoverAsks ==
  ASSUME IInv, TypeOK', CoverInv, NEW u \in Upload, AskForUpload(u), NEW p \in Page \ spoiled'
  PROVE  Covered(p)'
  <1> USE DEF IInv
  <1>0. Covered(p) /\ PageOf(u) \in Page /\ KindOf(u) \in Kind
    BY UploadParts DEF CoverInv, AskForUpload, TypeOK
  <1> DEFINE old == Opens(p, reachable, stage, inbox[p])
             new == Opens(p, reachable', stage', inbox'[p])
  <1>1. CASE p = PageOf(u)
    <2>1. /\ stage[u] = "new" /\ stage' = [stage EXCEPT ![u] = "asked"]
          /\ reachable' = reachable \cup {u} /\ inbox' = inbox
          /\ KindOf(u) \notin busy[p] /\ busy' = [busy EXCEPT ![p] = @ \cup {KindOf(u)}]
      BY <1>1 DEF AskForUpload
    <2>2. u \notin old
      <3> SUFFICES ASSUME u \in old  PROVE FALSE
        OBVIOUS
      <3>1. PICK i \in DOMAIN inbox[p] : inbox[p][i] = Note("report", u)
        BY <2>1 DEF Opens
      <3>2. inbox[p][i].msg = "report" /\ inbox[p][i].upload = u
        BY <3>1, UploadNotes
      <3>3. stage[u] \in Stored
        BY <3>2 DEF ReportsAreTrue
      <3>. QED  BY <2>1, <3>3 DEF Stored
    <2>3. old \cup {u} \subseteq new
      BY <1>1, <2>1 DEF Opens, TypeOK
    <2>4. busy'[p] = busy[p] \cup {KindOf(u)}
      BY <2>1 DEF TypeOK
    <2>5. IsFiniteSet(old) /\ IsFiniteSet(new)
      BY UploadsAreFinite DEF TypeOK
    <2>6. IsFiniteSet(busy[p])
      BY ButtonsAreFinite
    <2> HIDE DEF old, new
    <2>7. Cardinality(old \cup {u}) = Cardinality(old) + 1
      BY <2>2, <2>5, FS_AddElement
    <2>8. Cardinality(old \cup {u}) <= Cardinality(new)
      BY <2>3, <2>5, FS_Subset
    <2>9. Cardinality(busy'[p]) = Cardinality(busy[p]) + 1
      BY <2>1, <2>4, <2>6, FS_AddElement
    <2>10. Cardinality(old) \in Nat /\ Cardinality(new) \in Nat /\ Cardinality(busy[p]) \in Nat
      BY <2>5, <2>6, FS_CardinalityType
    <2>11. Cardinality(busy[p]) <= Cardinality(old)
      BY <1>0 DEF Covered, old
    <2>12. Cardinality(busy'[p]) <= Cardinality(new)
      BY <2>7, <2>8, <2>9, <2>10, <2>11
    <2>. QED  BY <2>12 DEF Covered, new
  <1>2. CASE p # PageOf(u)
    <2>1. busy'[p] = busy[p] /\ inbox'[p] = inbox[p] /\ reachable \subseteq reachable'
      BY <1>2 DEF AskForUpload, TypeOK
    <2>2. \A v \in Upload : PageOf(v) = p => stage'[v] = stage[v]
      BY <1>2 DEF AskForUpload, TypeOK
    <2>3. old \subseteq new
      BY <2>1, <2>2 DEF Opens, TypeOK
    <2>. QED  BY <1>0, <2>1, <2>3, CoverGrows
  <1>. QED  BY <1>1, <1>2

\* One report, one button.
LEMMA CoverReceives ==
  ASSUME IInv, TypeOK', CoverInv, NEW c \in Page, PageReceives(c), NEW p \in Page \ spoiled'
  PROVE  Covered(p)'
  <1> USE DEF IInv
  <1>0. Covered(p)
    BY DEF CoverInv, PageReceives, CommandFails, TypeOK
  <1> DEFINE m == Head(inbox[c]).msg
             u == Head(inbox[c]).upload
             old == Opens(p, reachable, stage, inbox[p])
             new == Opens(p, reachable', stage', inbox'[p])
  <1>1. /\ inbox[c] # <<>> /\ inbox' = [inbox EXCEPT ![c] = Tail(@)]
        /\ reachable' = reachable /\ stage' = stage
        /\ inbox[c] \in Seq(Message) /\ inbox[p] \in Seq(Message)
    BY DEF PageReceives, TypeOK
  <1>2. /\ Head(inbox[c]) \in Message
        /\ m \in {"refused", "accepted", "report"} => u \in Upload
    <2>1. Head(inbox[c]) \in Message
      BY <1>1
    <2>. QED  BY <2>1, NotesAreAboutUploads
  <1>3. CASE c # p
    <2>1. inbox'[p] = inbox[p]
      BY <1>1, <1>3 DEF TypeOK
    <2>2. busy'[p] \subseteq busy[p]
      BY <1>3 DEF PageReceives, CommandFails, TypeOK
    <2>. QED  BY <1>0, <1>1, <2>1, <2>2, CoverGrows
  <1>4. CASE c = p /\ m # "report"
    <2>1. inbox'[p] = Tail(inbox[p]) /\ old \subseteq new
      BY <1>1, <1>4, OpensTail DEF TypeOK
    <2>2. busy'[p] \subseteq busy[p]
      BY <1>4 DEF PageReceives, CommandFails, TypeOK
    <2>. QED  BY <1>0, <2>1, <2>2, CoverGrows
  <1>5. CASE c = p /\ m = "report"
    <2>1. busy' = [busy EXCEPT ![p] = @ \ RestoredBy(p)]
      BY <1>5 DEF PageReceives
    <2>2. inbox'[p] = Tail(inbox[p]) /\ old \ {u} \subseteq new
      BY <1>1, <1>5, OpensTail DEF TypeOK
    <2>3. CASE busy[p] = {}
      <3>1. busy'[p] = {}
        BY <2>1, <2>3 DEF TypeOK
      <3>. QED  BY <3>1, CoverNone
    <2>4. CASE busy[p] # {}
      <3>1. PICK k \in busy[p] : busy'[p] = busy[p] \ {k}
        <4>1. busy[p] \subseteq {"log", "kmsg"}
          BY ButtonsAreFinite
        <4>2. busy'[p] = busy[p] \ RestoredBy(p)
          BY <2>1 DEF TypeOK
        <4>. QED  BY <2>4, <4>1, <4>2 DEF RestoredBy
      <3>2. IsFiniteSet(old) /\ IsFiniteSet(new)
        BY UploadsAreFinite DEF TypeOK
      <3>3. IsFiniteSet(busy[p])
        BY ButtonsAreFinite
      <3> HIDE DEF old, new, u, m
      <3>4. IsFiniteSet(old \ {u}) /\ Cardinality(old \ {u}) >= Cardinality(old) - 1
        <4>1. Cardinality(old) \in Nat
          BY <3>2, FS_CardinalityType
        <4>. QED  BY <3>2, <4>1, FS_RemoveElement
      <3>5. Cardinality(old \ {u}) <= Cardinality(new)
        BY <2>2, <3>2, FS_Subset
      <3>6. Cardinality(busy'[p]) = Cardinality(busy[p]) - 1
        BY <3>1, <3>3, FS_RemoveElement
      <3>7. /\ Cardinality(old) \in Nat /\ Cardinality(new) \in Nat /\ Cardinality(busy[p]) \in Nat
            /\ Cardinality(old \ {u}) \in Nat
        BY <3>2, <3>3, <3>4, FS_CardinalityType
      <3>8. Cardinality(busy[p]) <= Cardinality(old)
        BY <1>0 DEF Covered, old
      <3>9. Cardinality(busy'[p]) <= Cardinality(new)
        BY <3>4, <3>5, <3>6, <3>7, <3>8
      <3>. QED  BY <3>9 DEF Covered, new
    <2>. QED  BY <2>3, <2>4
  <1>. QED  BY <1>3, <1>4, <1>5

\* The agent and the server move an upload on, and it stays open.
LEMMA CoverMoves ==
  ASSUME IInv, TypeOK', CoverInv, NEW u \in Upload,
         \/ AgentTakes(u) \/ AgentPosts(u) \/ ServerStores(u)
         \/ AgentIsAnswered(u) \/ PostFails(u),
         NEW p \in Page \ spoiled'
  PROVE  Covered(p)'
  <1> USE DEF IInv
  <1> DEFINE old == Opens(p, reachable, stage, inbox[p])
             new == Opens(p, reachable', stage', inbox'[p])
  <1>1. /\ Covered(p) /\ busy' = busy /\ reachable' = reachable
        /\ inbox[p] \in Seq(Message) /\ inbox'[p] \in Seq(Message)
        /\ \A v \in Upload : v # u => stage'[v] = stage[v]
    BY DEF CoverInv, AgentTakes, AgentPosts, ServerStores, AgentIsAnswered, PostFails, page, TypeOK
  <1>2. \/ inbox'[p] = inbox[p]
        \/ \E m \in {"accepted", "report"} : inbox'[p] = Append(inbox[p], Note(m, u))
    BY TellAskerKeeps DEF AgentTakes, AgentPosts, ServerStores, AgentIsAnswered, PostFails, page
  <1>3. ASSUME NEW v, \E i \in DOMAIN inbox[p] : inbox[p][i] = v
        PROVE  \E i \in DOMAIN inbox'[p] : inbox'[p][i] = v
    <2>1. DOMAIN inbox[p] \subseteq DOMAIN inbox'[p] /\ \A i \in DOMAIN inbox[p] : inbox'[p][i] = inbox[p][i]
      BY <1>1, <1>2
    <2>. QED  BY <1>3, <2>1
  <1>4. u \in old => u \in new
    <2> SUFFICES ASSUME u \in old  PROVE u \in new
      OBVIOUS
    <2>1. u \in reachable /\ PageOf(u) = p
      BY DEF Opens
    <2>2. CASE stage'[u] \in {"asked", "collecting", "posted"}
      BY <1>1, <2>1, <2>2 DEF Opens
    <2>3. CASE \E i \in DOMAIN inbox[p] : inbox[p][i] = Note("report", u)
      BY <1>1, <1>3, <2>1, <2>3 DEF Opens
    <2>4. CASE /\ stage[u] \in {"asked", "collecting", "posted"}
               /\ stage'[u] \notin {"asked", "collecting", "posted"}
      <3>1. p \notin spoiled' /\ spoiled \subseteq Page
        BY DEF TypeOK
      <3>2. ~AgentTakes(u) /\ ~AgentPosts(u) /\ ~AgentIsAnswered(u) /\ ~PostFails(u)
        BY <2>1, <2>4, <3>1 DEF AgentTakes, AgentPosts, AgentIsAnswered, PostFails, TypeOK
      <3>3. ServerStores(u)
        BY <3>2
      <3>4. inbox'[p] = Append(inbox[p], Note("report", u))
        BY <2>1, <3>3 DEF ServerStores, TellAsker, TypeOK
      <3>5. Len(inbox[p]) + 1 \in DOMAIN inbox'[p] /\ inbox'[p][Len(inbox[p]) + 1] = Note("report", u)
        BY <1>1, <3>4
      <3>. QED  BY <1>1, <2>1, <3>5 DEF Opens
    <2>. QED  BY <2>2, <2>3, <2>4 DEF Opens
  <1>5. ASSUME NEW v \in old, v # u  PROVE v \in new
    <2>1. v \in Upload /\ stage'[v] = stage[v]
      BY <1>1, <1>5 DEF Opens, TypeOK
    <2>. QED  BY <1>1, <1>3, <1>5, <2>1 DEF Opens
  <1>6. old \subseteq new
    BY <1>4, <1>5
  <1>. QED  BY <1>1, <1>6, CoverGrows

\* What happens to the session and to pages.
LEMMA CoverSession ==
  ASSUME IInv, TypeOK', CoverInv, NEW p \in Page \ spoiled',
         AgentArrives \/ CodeIsBurned \/ AgentLeaves \/ UNCHANGED vars
  PROVE  Covered(p)'
  <1> USE DEF IInv
  <1>1. Covered(p) /\ busy' = busy /\ reachable' = reachable /\ inbox[p] \in Seq(Message)
    BY DEF CoverInv, AgentArrives, CodeIsBurned, AgentLeaves, vars, page, TypeOK
  <1>2. CASE AgentArrives \/ CodeIsBurned \/ UNCHANGED vars
    <2>1. inbox' = inbox /\ stage' = stage
      BY <1>2 DEF AgentArrives, CodeIsBurned, vars, page
    <2>. QED  BY <1>1, <2>1, CoverGrows
  <1>3. CASE AgentLeaves
    <2>1. PICK lost \in SUBSET {u \in Upload : stage[u] = "asked"} :
            /\ stage' = [u \in Upload |-> IF u \in lost THEN "gone" ELSE stage[u]]
            /\ spoiled' = spoiled \cup {PageOf(u) : u \in lost}
      BY <1>3 DEF AgentLeaves
    <2>2. \A v \in Upload : PageOf(v) = p => stage'[v] = stage[v]
      BY <2>1
    <2>3. Opens(p, reachable, stage, inbox[p]) \subseteq Opens(p, reachable, stage', inbox[p])
      BY <2>2 DEF Opens, TypeOK
    <2>4. \/ inbox'[p] = inbox[p]
          \/ inbox'[p] = Append(inbox[p], Note("down", NoUpload))
      BY <1>3 DEF AgentLeaves, TypeOK
    <2>5. Note("down", NoUpload) \in Message
      BY SessionNotes
    <2>6. Opens(p, reachable, stage', inbox[p]) \subseteq Opens(p, reachable', stage', inbox'[p])
      BY <1>1, <2>4, <2>5, OpensAppend DEF TypeOK
    <2>. QED  BY <1>1, <2>3, <2>6, CoverGrows
  <1>. QED  BY <1>2, <1>3

LEMMA CoverPages ==
  ASSUME IInv, TypeOK', CoverInv, NEW c \in Page, NEW p \in Page \ spoiled',
         PagePairs(c) \/ PageReconnects(c) \/ PageReloads(c)
  PROVE  Covered(p)'
  <1> USE DEF IInv
  <1>1. Covered(p) /\ stage' = stage /\ inbox[p] \in Seq(Message)
    BY DEF CoverInv, PagePairs, PageReconnects, PageReloads, TypeOK
  <1>2. CASE PagePairs(c)
    <2>1. busy' = busy /\ reachable' = reachable
      BY <1>2 DEF PagePairs
    <2>2. inbox'[p] = inbox[p] \/ inbox'[p] = Append(inbox[p], Note("up", NoUpload))
      BY <1>2 DEF PagePairs, TypeOK
    <2>3. Note("up", NoUpload) \in Message
      BY SessionNotes
    <2>4. Opens(p, reachable, stage, inbox[p]) \subseteq Opens(p, reachable', stage', inbox'[p])
      BY <1>1, <2>1, <2>2, <2>3, OpensAppend DEF TypeOK
    <2>. QED  BY <1>1, <2>1, <2>4, CoverGrows
  <1>3. CASE (PageReconnects(c) \/ PageReloads(c)) /\ c = p
    <2>1. busy'[p] = {}
      BY <1>3 DEF PageReconnects, PageReloads, TypeOK
    <2>. QED  BY <2>1, CoverNone
  <1>4. CASE (PageReconnects(c) \/ PageReloads(c)) /\ c # p
    <2>1. /\ busy'[p] = busy[p] /\ inbox'[p] = inbox[p]
          /\ reachable' = {u \in reachable : PageOf(u) # c}
      BY <1>4 DEF PageReconnects, PageReloads, TypeOK
    <2>2. Opens(p, reachable, stage, inbox[p]) \subseteq Opens(p, reachable', stage', inbox'[p])
      BY <1>1, <1>4, <2>1 DEF Opens
    <2>. QED  BY <1>1, <2>1, <2>2, CoverGrows
  <1>. QED  BY <1>2, <1>3, <1>4

LEMMA CoverKeeps == IInv /\ CoverInv /\ [Next]_vars => CoverInv'
  <1> SUFFICES ASSUME IInv, CoverInv, [Next]_vars, NEW p \in Page \ spoiled'
               PROVE  Covered(p)'
    BY DEF CoverInv
  <1>0. TypeOK'
    BY IInvIsInductive DEF IInv
  <1>1. CASE AgentArrives \/ CodeIsBurned \/ AgentLeaves \/ UNCHANGED vars
    BY <1>0, <1>1, CoverSession
  <1>2. ASSUME NEW c \in Page, PageStep(c)  PROVE Covered(p)'
    BY <1>0, <1>2, CoverPages, CoverReceives DEF PageStep
  <1>3. ASSUME NEW u \in Upload, SixtySeconds(u)  PROVE Covered(p)'
    <2>1. Covered(p)
      BY <1>3 DEF CoverInv, SixtySeconds, CommandFails, IInv, TypeOK
    <2>2. inbox' = inbox /\ reachable' = reachable /\ stage' = stage
      BY <1>3 DEF SixtySeconds
    <2>3. busy'[p] \subseteq busy[p]
      BY <1>3 DEF SixtySeconds, CommandFails, IInv, TypeOK
    <2>. QED  BY <1>0, <2>1, <2>2, <2>3, CoverGrows DEF IInv
  <1>4. ASSUME NEW u \in Upload, UploadStep(u)  PROVE Covered(p)'
    BY <1>0, <1>3, <1>4, CoverAsks, CoverMoves DEF UploadStep
  <1>. QED  BY <1>1, <1>2, <1>4 DEF Next

\* As long as every upload of a page goes through, the page has at least as many
\* under way as buttons disabled (uploadLogs, uploadKmsg, onLogUploadResult).
THEOREM ButtonsAreCovered == Spec => []BusyIsCovered
  <1>1. CoverInv => BusyIsCovered
    BY CoverIsCovered
  <1>. QED  BY <1>1, CoverInit, CoverKeeps, IInvHolds, PTL DEF Spec
=============================================================================
