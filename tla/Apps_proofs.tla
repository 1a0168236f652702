----------------------------- MODULE Apps_proofs ----------------------------
(***************************************************************************)
(* Theorems about Apps and AppsHistory, for every catalog, every number of *)
(* requests, every way they overlap and every choice of faults, except     *)
(* where a theorem names the faults it needs to be absent.                 *)
(***************************************************************************)
EXTENDS AppsHistory, TLAPS

(* Next as one action at a time, so that each invariance proof below splits *)
(* on it the same way.                                                      *)
LEMMA NextCases ==
    ASSUME Next
    PROVE  \/ \E r \in Reqs :
                \/ Ask(r) \/ AskDeps(r)
                \/ Refuse(r) \/ CheckFlag(r) \/ CheckBook(r) \/ Claim(r) \/ Adopt(r)
                \/ WorkFailed(r) \/ Pulled(r) \/ Created(r) \/ CreateFailed(r)
                \/ UnitWritten(r) \/ UnitStarted(r) \/ Provided(r) \/ DepsWorked(r)
                \/ CommitRead(r) \/ CommitWrite(r) \/ CommitFailed(r)
                \/ Undo(r) \/ Finish(r) \/ Fail(r)
                \/ RemoveRead(r) \/ Take(r) \/ Forget(r) \/ Purge(r)
                \/ Hangup(r) \/ Dropped(r)
           \/ \E s \in Containers : Start(s) \/ Stop(s)
           \/ Crash
  BY DEF Next, Handler, Task

USE DEF TaskPCs

-----------------------------------------------------------------------------
(* Type correctness.  A container is created with the port its request     *)
(* planned, so the type invariant needs to know that the plan of a         *)
(* container install holds a port of the range.                            *)

PlansAPort ==
    \A r \in Reqs :
        /\ pc[r] \in {"checked", "working", "creating"}
        /\ Slug(r) \in Containers
        => plan[r].port \in Ports

TypeInv == TypeOK /\ PlansAPort

LEMMA Nulls ==
    /\ NoPlan \in Record
    /\ NoJob \in Jobs
    /\ EmptyBook \in Book
  BY DEF NoPlan, Record, AllPorts, NoJob, Jobs, Ops, EmptyBook, Book

LEMMA TypeInit == Init => TypeInv
<1> SUFFICES ASSUME Init PROVE TypeInv
  OBVIOUS
<1>1. TypeOK
  BY CatalogAssumption, Nulls DEF Init, TypeOK, Statuses, PCs
<1>2. PlansAPort
  BY DEF Init, PlansAPort
<1> QED
  BY <1>1, <1>2 DEF TypeInv

(* Leaving is type correct whatever else the action does. *)
LEMMA LeaveTypes ==
    ASSUME TypeInv, NEW r \in Reqs, Leave(r)
    PROVE  /\ pc' \in [Reqs -> PCs]
           /\ job' \in [Reqs -> Jobs]
           /\ plan' \in [Reqs -> Record]
           /\ snap' \in [Reqs -> Book]
           /\ PlansAPort'
  BY Nulls DEF TypeInv, TypeOK, PlansAPort, Leave, PCs, Slug

LEMMA StatusTypes ==
    ASSUME TypeInv, NEW r \in Reqs,
           NEW st \in {"idle", "running", "done", "failed"}, WriteStatus(r, st)
    PROVE  status' \in Statuses
  BY DEF TypeInv, TypeOK, WriteStatus, Statuses, Jobs, Slug

LEMMA TypeStep == TypeInv /\ [Next]_vars => TypeInv'
<1> SUFFICES ASSUME TypeInv, [Next]_vars PROVE TypeInv'
  OBVIOUS
<1>0. CASE UNCHANGED vars
  BY <1>0 DEF vars, files, host, locals, TypeInv, TypeOK, PlansAPort, Slug
<1>1. ASSUME NEW r \in Reqs, Ask(r) PROVE TypeInv'
  BY <1>1 DEF Ask, TypeInv, TypeOK, PlansAPort, Slug, Goto, files, host, PCs, Jobs, Ops
<1>2. ASSUME NEW r \in Reqs, AskDeps(r) PROVE TypeInv'
  BY <1>2 DEF AskDeps, TypeInv, TypeOK, PlansAPort, Slug, Goto, files, host, PCs, Jobs, Ops
<1>3. ASSUME NEW r \in Reqs, Refuse(r) PROVE TypeInv'
  BY <1>3, LeaveTypes DEF Refuse, TypeInv, TypeOK, files, host
<1>4. ASSUME NEW r \in Reqs, CheckFlag(r) PROVE TypeInv'
  <2>1. CASE Leave(r)
    BY <1>4, <2>1, LeaveTypes DEF CheckFlag, TypeInv, TypeOK, files, host
  <2>2. CASE ~Leave(r)
    BY <1>4, <2>2 DEF CheckFlag, TypeInv, TypeOK, PlansAPort, Slug, Op, Goto,
                      files, host, locals, PCs
  <2> QED
    BY <2>1, <2>2
<1>5. ASSUME NEW r \in Reqs, CheckBook(r) PROVE TypeInv'
  <2>1. CASE BookRefuses(Slug(r))
    BY <1>5, <2>1, LeaveTypes DEF CheckBook, TypeInv, TypeOK, files, host
  <2>2. CASE ~BookRefuses(Slug(r))
    <3>1. PICK p \in AllPorts :
             /\ PortFor(Slug(r), p)
             /\ plan' = [plan EXCEPT ![r] = [port |-> p, adopted |-> FALSE]]
      BY <1>5, <2>2 DEF CheckBook
    <3>2. Slug(r) \in Containers => p \in Ports
      BY <3>1, CatalogAssumption DEF PortFor, IsFreePort, FreePorts
    <3>3. plan' \in [Reqs -> Record]
      BY <3>1 DEF TypeInv, TypeOK, Record
    <3>4. /\ pc' \in [Reqs -> PCs]
          /\ job' = job
          /\ appdata' \subseteq Containers
      BY <1>5, <2>2 DEF CheckBook, TypeInv, TypeOK, Goto, PCs
    <3>5. TypeOK'
      BY <1>5, <2>2, <3>3, <3>4 DEF CheckBook, TypeInv, TypeOK, files
    <3>6. PlansAPort'
      BY <1>5, <2>2, <3>1, <3>2, <3>4
         DEF CheckBook, TypeInv, TypeOK, PlansAPort, Slug, Goto
    <3> QED
      BY <3>5, <3>6 DEF TypeInv
  <2> QED
    BY <2>1, <2>2
<1>6. ASSUME NEW r \in Reqs, Claim(r) PROVE TypeInv'
  <2>1. plan' \in [Reqs -> Record] /\ plan'[r].port = plan[r].port
    BY <1>6 DEF Claim, TypeInv, TypeOK, Record
  <2>2. TypeOK'
    BY <1>6, <2>1, StatusTypes DEF Claim, TypeInv, TypeOK, Goto, host, PCs
  <2>3. PlansAPort'
    BY <1>6, <2>1 DEF Claim, TypeInv, TypeOK, PlansAPort, Slug, Goto
  <2> QED
    BY <2>2, <2>3 DEF TypeInv
<1>7. ASSUME NEW r \in Reqs, Adopt(r) PROVE TypeInv'
  BY <1>7 DEF Adopt, TypeInv, TypeOK, PlansAPort, Slug, Goto, files, host, PCs, Jobs, Ops
<1>8. ASSUME NEW r \in Reqs, WorkFailed(r) PROVE TypeInv'
  BY <1>8 DEF WorkFailed, TypeInv, TypeOK, PlansAPort, Slug, Goto, files, host, locals, PCs
<1>9. ASSUME NEW r \in Reqs, Pulled(r) PROVE TypeInv'
  BY <1>9, StatusTypes
     DEF Pulled, TypeInv, TypeOK, PlansAPort, Slug, Goto, host, locals, PCs
<1>10. ASSUME NEW r \in Reqs, Created(r) \/ CreateFailed(r) PROVE TypeInv'
  <2>1. Slug(r) \in Containers => plan[r].port \in Ports
    BY <1>10 DEF Created, CreateFailed, TypeInv, PlansAPort
  <2>2. containers' \in [Containers -> Container \cup {NoContainer}]
    <3>1. Slug(r) \in Containers =>
             /\ [port |-> plan[r].port, up |-> TRUE] \in Container
             /\ [port |-> plan[r].port, up |-> FALSE] \in Container
      BY <2>1 DEF Container
    <3>2. CASE Created(r)
      BY <3>1, <3>2 DEF Created, TypeInv, TypeOK
    <3>3. CASE CreateFailed(r)
      BY <3>1, <3>3 DEF CreateFailed, TypeInv, TypeOK
    <3> QED
      BY <1>10, <3>2, <3>3
  <2> QED
    BY <1>10, <2>2 DEF Created, CreateFailed, TypeInv, TypeOK, PlansAPort, Slug, Goto,
                       files, locals, PCs
<1>11. ASSUME NEW r \in Reqs, UnitWritten(r) PROVE TypeInv'
  BY <1>11, StatusTypes
     DEF UnitWritten, TypeInv, TypeOK, PlansAPort, Slug, Goto, locals, PCs
<1>12. ASSUME NEW r \in Reqs, UnitStarted(r) PROVE TypeInv'
  BY <1>12, StatusTypes
     DEF UnitStarted, TypeInv, TypeOK, PlansAPort, Slug, Goto, locals, PCs
<1>13. ASSUME NEW r \in Reqs, Provided(r) PROVE TypeInv'
  BY <1>13 DEF Provided, TypeInv, TypeOK, PlansAPort, Slug, Goto, files, locals, PCs
<1>14. ASSUME NEW r \in Reqs, DepsWorked(r) PROVE TypeInv'
  BY <1>14 DEF DepsWorked, TypeInv, TypeOK, PlansAPort, Slug, Goto, files, host, locals, PCs
<1>15. ASSUME NEW r \in Reqs, CommitRead(r) PROVE TypeInv'
  BY <1>15 DEF CommitRead, TypeInv, TypeOK, PlansAPort, Slug, Goto, files, host, PCs
<1>16. ASSUME NEW r \in Reqs, CommitWrite(r) PROVE TypeInv'
  <2>1. book' \in Book
    BY <1>16 DEF CommitWrite, TypeInv, TypeOK, Book
  <2> QED
    BY <1>16, <2>1 DEF CommitWrite, TypeInv, TypeOK, PlansAPort, Slug, Goto, host, locals, PCs
<1>17. ASSUME NEW r \in Reqs, CommitFailed(r) PROVE TypeInv'
  <2>1. CASE Leave(r)
    BY <1>17, <2>1, LeaveTypes DEF CommitFailed, TypeInv, TypeOK, files, host
  <2>2. CASE ~Leave(r)
    BY <1>17, <2>2 DEF CommitFailed, TypeInv, TypeOK, PlansAPort, Slug, Goto,
                       files, host, locals, PCs
  <2> QED
    BY <2>1, <2>2
<1>18. ASSUME NEW r \in Reqs, Undo(r) PROVE TypeInv'
  BY <1>18 DEF Undo, TypeInv, TypeOK, PlansAPort, Slug, Goto, files, locals, PCs
<1>19. ASSUME NEW r \in Reqs, Finish(r) \/ Fail(r) PROVE TypeInv'
  BY <1>19, LeaveTypes, StatusTypes DEF Finish, Fail, TypeInv, TypeOK, host
<1>20. ASSUME NEW r \in Reqs, RemoveRead(r) PROVE TypeInv'
  <2>1. CASE Leave(r)
    BY <1>20, <2>1, LeaveTypes DEF RemoveRead, TypeInv, TypeOK, files, host
  <2>2. CASE ~Leave(r)
    BY <1>20, <2>2 DEF RemoveRead, TypeInv, TypeOK, PlansAPort, Slug, Goto,
                       files, host, PCs
  <2> QED
    BY <2>1, <2>2
<1>21. ASSUME NEW r \in Reqs, Take(r) PROVE TypeInv'
  BY <1>21 DEF Take, TakeAway, TypeInv, TypeOK, PlansAPort, Slug, Goto,
               files, locals, PCs
<1>22. ASSUME NEW r \in Reqs, Forget(r) PROVE TypeInv'
  <2>1. book' \in Book
    BY <1>22 DEF Forget, TypeInv, TypeOK, Book
  <2>2. CASE Leave(r)
    BY <1>22, <2>1, <2>2, LeaveTypes DEF Forget, TypeInv, TypeOK, host
  <2>3. CASE ~Leave(r)
    BY <1>22, <2>1, <2>3 DEF Forget, TypeInv, TypeOK, PlansAPort, Slug, Goto,
                             host, locals, PCs
  <2> QED
    BY <2>2, <2>3
<1>23. ASSUME NEW r \in Reqs, Purge(r) PROVE TypeInv'
  BY <1>23, LeaveTypes DEF Purge, TypeInv, TypeOK, files
<1>24. ASSUME NEW r \in Reqs, Hangup(r) PROVE TypeInv'
  <2>1. CASE Leave(r)
    BY <1>24, <2>1, LeaveTypes DEF Hangup, TypeInv, TypeOK, files, host
  <2>2. CASE ~Leave(r)
    BY <1>24, <2>2 DEF Hangup, TypeInv, TypeOK, PlansAPort, Slug, Goto,
                       files, host, locals, PCs
  <2> QED
    BY <2>1, <2>2
<1>25. ASSUME NEW r \in Reqs, Dropped(r) PROVE TypeInv'
  <2>1. /\ containers' \in [Containers -> Container \cup {NoContainer}]
        /\ onHost' \subseteq Hosts \cup Streamed
    BY <1>25 DEF Dropped, TakeAway, TypeInv, TypeOK
  <2> QED
    BY <1>25, <2>1, LeaveTypes DEF Dropped, TypeInv, TypeOK, files
<1>26. ASSUME NEW s \in Containers, Start(s) \/ Stop(s) PROVE TypeInv'
  <2>1. containers[s] \in Container
    BY <1>26 DEF Start, Stop, TypeInv, TypeOK
  <2>2. containers' \in [Containers -> Container \cup {NoContainer}]
    BY <1>26, <2>1 DEF Start, Stop, TypeInv, TypeOK, Container
  <2> QED
    BY <1>26, <2>2 DEF Start, Stop, TypeInv, TypeOK, PlansAPort, Slug, files, locals
<1>27. CASE Crash
  BY <1>27, Nulls DEF Crash, TypeInv, TypeOK, PlansAPort, PCs, files, host
<1> QED
  BY <1>0, <1>1, <1>2, <1>3, <1>4, <1>5, <1>6, <1>7, <1>8, <1>9, <1>10, <1>11,
     <1>12, <1>13, <1>14, <1>15, <1>16, <1>17, <1>18, <1>19, <1>20, <1>21,
     <1>22, <1>23, <1>24, <1>25, <1>26, <1>27, NextCases

\* Every state the manager can be in has the types its code gives it.
THEOREM TypeCorrect == Spec => []TypeOK
<1>1. Spec => []TypeInv
  BY TypeInit, TypeStep, PTL DEF Spec
<1>2. TypeInv => TypeOK
  BY DEF TypeInv
<1> QED
  BY <1>1, <1>2, PTL

-----------------------------------------------------------------------------
(* What was found stays, whatever races and whatever fails.                *)
(*                                                                         *)
(* Only two steps take anything off the host.  Undoing a service that will *)
(* not start concerns a unit its request has just written, because         *)
(* write_unit refuses a unit that is there.  Uninstalling a Flatpak trusts *)
(* the record its removal read, so every record of a found Flatpak, in the *)
(* book, in a book somebody still holds, or planned, must say adopted; the *)
(* plan does because found things are on the host when it is made.         *)

StartsOwnUnit == \A r \in Reqs : pc[r] = "starting" => Slug(r) \notin Found

RecordsKnow ==
    \A s \in Found \cap Streamed :
        /\ book[s] # NoRecord => book[s].adopted
        /\ \A r \in Reqs : snap[r][s] # NoRecord => snap[r][s].adopted

PlansKnow ==
    \A r \in Reqs :
        /\ pc[r] \in {"working", "creating", "starting", "commit", "committing"}
        /\ Slug(r) \in Found \cap Streamed
        => plan[r].adopted

TakesWhatItRead ==
    \A r \in Reqs :
        \/ pc[r] = "taking"
        \/ pc[r] = "dropped" /\ Op(r) = "remove"
        => snap[r][Slug(r)] # NoRecord

FoundInv ==
    /\ FoundStays
    /\ StartsOwnUnit
    /\ RecordsKnow
    /\ PlansKnow
    /\ TakesWhatItRead

LEMMA FoundInit == Init => FoundInv
  BY DEF Init, FoundInv, FoundStays, StartsOwnUnit, RecordsKnow, PlansKnow,
         TakesWhatItRead, EmptyBook, Slugs

(* A request that leaves owes nothing any more. *)
LEMMA LeaveFound ==
    ASSUME TypeInv, FoundInv, NEW r \in Reqs, Leave(r)
    PROVE  /\ StartsOwnUnit'
           /\ PlansKnow'
           /\ TakesWhatItRead'
           /\ UNCHANGED book => RecordsKnow'
           /\ \A s \in Slugs : snap'[r][s] = NoRecord
           /\ \A q \in Reqs \ {r} : snap'[q] = snap[q]
  BY DEF TypeInv, TypeOK, FoundInv, StartsOwnUnit, RecordsKnow, PlansKnow,
         TakesWhatItRead, Leave, Slug, Op, EmptyBook, Slugs, Goto

(* Taking away what a record names leaves what was found. *)
LEMMA TakeAwayFound ==
    ASSUME FoundInv, NEW r \in Reqs, TakeAway(r), snap[r][Slug(r)] # NoRecord
    PROVE  FoundStays'
  BY CatalogAssumption DEF FoundInv, FoundStays, RecordsKnow, TakeAway

LEMMA FoundStep == TypeInv /\ FoundInv /\ [Next]_vars => FoundInv'
<1> SUFFICES ASSUME TypeInv, FoundInv, [Next]_vars PROVE FoundInv'
  OBVIOUS
<1> USE DEF FoundInv
<1>0. CASE UNCHANGED vars
  BY <1>0 DEF vars, files, host, locals, FoundStays, StartsOwnUnit, RecordsKnow,
              PlansKnow, TakesWhatItRead, Slug, Op
<1>1. ASSUME NEW r \in Reqs, Ask(r) \/ AskDeps(r) PROVE FoundInv'
  BY <1>1 DEF Ask, AskDeps, FoundStays, StartsOwnUnit, RecordsKnow, PlansKnow,
              TakesWhatItRead, Slug, Op, Goto, files, host, TypeInv, TypeOK
<1>2. ASSUME NEW r \in Reqs, Refuse(r) PROVE FoundInv'
  BY <1>2, LeaveFound DEF Refuse, FoundStays, files, host
<1>3. ASSUME NEW r \in Reqs, CheckFlag(r) PROVE FoundInv'
  <2>1. CASE Leave(r)
    BY <1>3, <2>1, LeaveFound DEF CheckFlag, FoundStays, files, host
  <2>2. CASE ~Leave(r)
    BY <1>3, <2>2 DEF CheckFlag, FoundStays, StartsOwnUnit, RecordsKnow, PlansKnow,
                      TakesWhatItRead, Slug, Op, Goto, files, host, locals,
                      TypeInv, TypeOK
  <2> QED
    BY <2>1, <2>2
<1>4. ASSUME NEW r \in Reqs, CheckBook(r) PROVE FoundInv'
  <2>1. CASE BookRefuses(Slug(r))
    BY <1>4, <2>1, LeaveFound DEF CheckBook, FoundStays, files
  <2>2. CASE ~BookRefuses(Slug(r))
    <3>1. /\ pc' = [pc EXCEPT ![r] = pc'[r]]
          /\ pc'[r] \in {"half", "checked"}
          /\ \A q \in Reqs \ {r} : plan'[q] = plan[q]
          /\ UNCHANGED <<book, onHost, job, snap>>
      BY <1>4, <2>2 DEF CheckBook, Goto, files, TypeInv, TypeOK
    <3> QED
      BY <3>1 DEF FoundStays, StartsOwnUnit, RecordsKnow, PlansKnow,
                  TakesWhatItRead, Slug, Op, TypeInv, TypeOK
  <2> QED
    BY <2>1, <2>2
<1>5. ASSUME NEW r \in Reqs, Claim(r) PROVE FoundInv'
  <2>1. PlansKnow'
    <3>1. plan'[r].adopted = (Slug(r) \in Streamed /\ Slug(r) \in onHost)
      BY <1>5 DEF Claim, TypeInv, TypeOK, Record
    <3>2. Slug(r) \in Found \cap Streamed => plan'[r].adopted
      BY <3>1 DEF FoundStays
    <3> QED
      BY <1>5, <3>2 DEF Claim, PlansKnow, Slug, Goto, TypeInv, TypeOK
  <2> QED
    BY <1>5, <2>1 DEF Claim, FoundStays, StartsOwnUnit, RecordsKnow,
                      TakesWhatItRead, Slug, Op, Goto, host, TypeInv, TypeOK
<1>6. ASSUME NEW r \in Reqs, Adopt(r) PROVE FoundInv'
  BY <1>6, CatalogAssumption
     DEF Adopt, FoundStays, StartsOwnUnit, RecordsKnow, PlansKnow,
         TakesWhatItRead, Slug, Op, Goto, files, host, TypeInv, TypeOK
<1>7. ASSUME NEW r \in Reqs, WorkFailed(r) \/ Pulled(r) \/ Created(r) \/ CreateFailed(r)
                             \/ DepsWorked(r) \/ Undo(r)
      PROVE FoundInv'
  <2>1. /\ UNCHANGED <<book, onHost, locals>>
        /\ pc[r] \in {"working", "creating", "undo"}
        /\ \E l \in {"undo", "failing", "creating", "commit", "recorded"} : Goto(r, l)
        /\ Goto(r, "creating") \/ Goto(r, "commit") => pc[r] # "undo"
    BY <1>7 DEF WorkFailed, Pulled, Created, CreateFailed, DepsWorked, Undo,
                Goto, files, host, locals, TypeInv, TypeOK
  <2> QED
    BY <2>1 DEF FoundStays, StartsOwnUnit, RecordsKnow, PlansKnow,
                TakesWhatItRead, Slug, Op, Goto, locals, TypeInv, TypeOK
<1>8. ASSUME NEW r \in Reqs, UnitWritten(r) PROVE FoundInv'
  BY <1>8 DEF UnitWritten, FoundStays, StartsOwnUnit, RecordsKnow, PlansKnow,
              TakesWhatItRead, Slug, Op, Goto, locals, TypeInv, TypeOK
<1>9. ASSUME NEW r \in Reqs, UnitStarted(r) PROVE FoundInv'
  BY <1>9 DEF UnitStarted, FoundStays, StartsOwnUnit, RecordsKnow, PlansKnow,
              TakesWhatItRead, Slug, Op, Goto, locals, TypeInv, TypeOK
<1>10. ASSUME NEW r \in Reqs, Provided(r) PROVE FoundInv'
  BY <1>10 DEF Provided, FoundStays, StartsOwnUnit, RecordsKnow, PlansKnow,
               TakesWhatItRead, Slug, Op, Goto, files, locals, TypeInv, TypeOK
<1>11. ASSUME NEW r \in Reqs, CommitRead(r) PROVE FoundInv'
  BY <1>11 DEF CommitRead, FoundStays, StartsOwnUnit, RecordsKnow, PlansKnow,
               TakesWhatItRead, Slug, Op, Goto, files, host, TypeInv, TypeOK
<1>12. ASSUME NEW r \in Reqs, CommitWrite(r) PROVE FoundInv'
  <2>1. RecordsKnow'
    <3>1. ASSUME NEW s \in Found \cap Streamed, book'[s] # NoRecord
          PROVE  book'[s].adopted
      <4>1. book'[s] = IF s = Slug(r) THEN plan[r] ELSE snap[r][s]
        BY <1>12 DEF CommitWrite, TypeInv, TypeOK, Book, Slugs
      <4> QED
        BY <1>12, <3>1, <4>1 DEF CommitWrite, RecordsKnow, PlansKnow
    <3> QED
      BY <1>12, <3>1 DEF CommitWrite, RecordsKnow, locals
  <2> QED
    BY <1>12, <2>1 DEF CommitWrite, FoundStays, StartsOwnUnit, PlansKnow,
                       TakesWhatItRead, Slug, Op, Goto, host, locals, TypeInv, TypeOK
<1>13. ASSUME NEW r \in Reqs, CommitFailed(r) PROVE FoundInv'
  <2>1. CASE Leave(r)
    BY <1>13, <2>1, LeaveFound DEF CommitFailed, FoundStays, files, host
  <2>2. CASE ~Leave(r)
    BY <1>13, <2>2 DEF CommitFailed, FoundStays, StartsOwnUnit, RecordsKnow, PlansKnow,
                       TakesWhatItRead, Slug, Op, Goto, files, host, locals,
                       TypeInv, TypeOK
  <2> QED
    BY <2>1, <2>2
<1>14. ASSUME NEW r \in Reqs, Finish(r) \/ Fail(r) \/ Purge(r) PROVE FoundInv'
  BY <1>14, LeaveFound DEF Finish, Fail, Purge, FoundStays, files, host
<1>15. ASSUME NEW r \in Reqs, RemoveRead(r) PROVE FoundInv'
  <2>1. CASE Leave(r)
    BY <1>15, <2>1, LeaveFound DEF RemoveRead, FoundStays, files, host
  <2>2. CASE ~Leave(r)
    BY <1>15, <2>2 DEF RemoveRead, Installed, FoundStays, StartsOwnUnit, RecordsKnow,
                       PlansKnow, TakesWhatItRead, Slug, Op, Goto, files, host,
                       TypeInv, TypeOK
  <2> QED
    BY <2>1, <2>2
<1>16. ASSUME NEW r \in Reqs, Take(r) PROVE FoundInv'
  <2>1. FoundStays'
    BY <1>16, TakeAwayFound DEF Take, TakesWhatItRead
  <2> QED
    BY <1>16, <2>1 DEF Take, StartsOwnUnit, RecordsKnow, PlansKnow,
                       TakesWhatItRead, Slug, Op, Goto, files, locals, TypeInv, TypeOK
<1>17. ASSUME NEW r \in Reqs, Forget(r) PROVE FoundInv'
  <2>1. \A s \in Found \cap Streamed : book'[s] # NoRecord => book'[s].adopted
    BY <1>17 DEF Forget, RecordsKnow, TypeInv, TypeOK, Book, Slugs
  <2>2. CASE Leave(r)
    <3>1. RecordsKnow'
      BY <2>1, <2>2, LeaveFound DEF RecordsKnow, Slugs
    <3> QED
      BY <1>17, <2>2, <3>1, LeaveFound DEF Forget, FoundStays, host
  <2>3. CASE ~Leave(r)
    BY <1>17, <2>1, <2>3
       DEF Forget, FoundStays, StartsOwnUnit, RecordsKnow, PlansKnow,
           TakesWhatItRead, Slug, Op, Goto, host, locals, TypeInv, TypeOK
  <2> QED
    BY <2>2, <2>3
<1>18. ASSUME NEW r \in Reqs, Hangup(r) PROVE FoundInv'
  <2>1. CASE Leave(r)
    BY <1>18, <2>1, LeaveFound DEF Hangup, FoundStays, files, host
  <2>2. CASE ~Leave(r)
    BY <1>18, <2>2 DEF Hangup, FoundStays, StartsOwnUnit, RecordsKnow, PlansKnow,
                       TakesWhatItRead, Slug, Op, Goto, files, host, locals,
                       TypeInv, TypeOK
  <2> QED
    BY <2>1, <2>2
<1>19. ASSUME NEW r \in Reqs, Dropped(r) PROVE FoundInv'
  <2>1. FoundStays'
    BY <1>19, TakeAwayFound DEF Dropped, TakesWhatItRead, FoundStays
  <2> QED
    BY <1>19, <2>1, LeaveFound DEF Dropped, files
<1>20. ASSUME NEW s \in Containers, Start(s) \/ Stop(s) PROVE FoundInv'
  BY <1>20 DEF Start, Stop, FoundStays, StartsOwnUnit, RecordsKnow, PlansKnow,
               TakesWhatItRead, Slug, Op, files, locals
<1>21. CASE Crash
  BY <1>21 DEF Crash, FoundStays, StartsOwnUnit, RecordsKnow, PlansKnow,
               TakesWhatItRead, EmptyBook, Slugs, files, host
<1> QED
  BY <1>0, <1>1, <1>2, <1>3, <1>4, <1>5, <1>6, <1>7, <1>8, <1>9, <1>10, <1>11,
     <1>12, <1>13, <1>14, <1>15, <1>16, <1>17, <1>18, <1>19, <1>20, <1>21, NextCases

\* Nothing that was on the host before WebDesk is ever taken off it, however
\* many requests race and whatever fails in between.
THEOREM FoundAlwaysStays == Spec => []FoundStays
<1>1. Spec => [](TypeInv /\ FoundInv)
  BY TypeInit, TypeStep, FoundInit, FoundStep, PTL DEF Spec
<1>2. FoundInv => FoundStays
  BY DEF FoundInv
<1> QED
  BY <1>1, <1>2, PTL

-----------------------------------------------------------------------------
(* The flag is honest whatever races, as long as its file can be written   *)
(* and neither the daemon dies nor a browser leaves: every claim is then   *)
(* held by a request that will still write to it.                          *)

WorksForFlag ==
    \A r \in Reqs :
        pc[r] \in {"working", "creating", "starting"}
        => Op(r) \in {"install", "deps", "podman"}

HonestInv == FlagIsHonest /\ WorksForFlag

Undisturbed == Faults \cap {"disk", "crash", "hangup"} = {}

LEMMA HonestInit == Init => HonestInv
  BY DEF Init, HonestInv, FlagIsHonest, WorksForFlag

(* A step of r that leaves the flag alone is honest if r did not hold the  *)
(* flag or still does.                                                     *)
LEMMA KeepsHonest ==
    ASSUME TypeInv, HonestInv, NEW r \in Reqs, UNCHANGED status,
           \A q \in Reqs \ {r} : pc'[q] = pc[q] /\ job'[q] = job[q],
           Holds(r) => Holds(r)'
    PROVE  FlagIsHonest'
  BY DEF HonestInv, FlagIsHonest, Holds, Op

(* A step of r that writes the flag is honest if it claims it and r holds  *)
(* it, or lowers it.                                                       *)
LEMMA WritesHonest ==
    ASSUME TypeInv, Undisturbed, NEW r \in Reqs, NEW st, WriteStatus(r, st),
           st = "running" => Holds(r)'
    PROVE  FlagIsHonest'
  BY DEF FlagIsHonest, WriteStatus, Undisturbed, Holds, Op

LEMMA HonestStep ==
    TypeInv /\ HonestInv /\ Undisturbed /\ [Next]_vars => HonestInv'
<1> SUFFICES ASSUME TypeInv, HonestInv, Undisturbed, [Next]_vars PROVE HonestInv'
  OBVIOUS
<1> USE DEF HonestInv, TypeInv, TypeOK
<1>0. CASE UNCHANGED vars
  BY <1>0 DEF vars, files, host, locals, FlagIsHonest, WorksForFlag, Holds, Op
<1>1. ASSUME NEW r \in Reqs,
             \/ Ask(r) \/ AskDeps(r) \/ Refuse(r) \/ CheckFlag(r) \/ CheckBook(r)
             \/ Adopt(r) \/ RemoveRead(r) \/ Take(r) \/ Forget(r) \/ Purge(r)
             \/ Dropped(r)
      PROVE HonestInv'
  <2>1. /\ UNCHANGED status
        /\ \A q \in Reqs \ {r} : pc'[q] = pc[q] /\ job'[q] = job[q]
        /\ ~Holds(r)
        /\ pc'[r] \notin {"working", "creating", "starting"}
    <3>1. CASE Ask(r) \/ AskDeps(r) \/ Refuse(r) \/ Adopt(r)
      BY <3>1 DEF Ask, AskDeps, Refuse, Adopt, Goto, Leave, Holds, Op, files
    <3>2. CASE CheckFlag(r)
      BY <3>2 DEF CheckFlag, FlagLabel, Goto, Leave, Holds, Op, files, locals
    <3>3. CASE CheckBook(r)
      BY <3>3 DEF CheckBook, BookLabel, Goto, Leave, Holds, Op, files
    <3>4. CASE RemoveRead(r) \/ Take(r)
      BY <3>4 DEF RemoveRead, Take, Goto, Leave, Holds, Op, files, locals
    <3>5. CASE Forget(r)
      BY <3>5 DEF Forget, Goto, Leave, Holds, Op, locals
    <3>6. CASE Purge(r) \/ Dropped(r)
      BY <3>6 DEF Purge, Dropped, Goto, Leave, Holds, Op, files
    <3> QED
      BY <1>1, <3>1, <3>2, <3>3, <3>4, <3>5, <3>6
  <2> QED
    BY <2>1, KeepsHonest DEF WorksForFlag, Op
<1>2. ASSUME NEW r \in Reqs, Claim(r) PROVE HonestInv'
  <2>1. Holds(r)'
    BY <1>2 DEF Claim, Holds, Op, Goto
  <2> QED
    BY <1>2, <2>1, WritesHonest DEF Claim, WorksForFlag, Op, Goto
<1>3. ASSUME NEW r \in Reqs, Pulled(r) \/ UnitWritten(r) \/ UnitStarted(r)
      PROVE HonestInv'
  <2>1. /\ UNCHANGED job
        /\ \E l \in {"creating", "starting", "failing", "commit"} : Goto(r, l)
        /\ WriteStatus(r, "running")
        /\ Op(r) \in {"install", "deps", "podman"}
    BY <1>3 DEF Pulled, UnitWritten, UnitStarted, locals, WorksForFlag
  <2>2. Holds(r)'
    BY <2>1 DEF Holds, Op, Goto
  <2> QED
    BY <2>1, <2>2, WritesHonest DEF WorksForFlag, Op, Goto
<1>4. ASSUME NEW r \in Reqs,
             \/ WorkFailed(r) \/ Created(r) \/ CreateFailed(r) \/ Provided(r)
             \/ DepsWorked(r) \/ CommitRead(r) \/ CommitWrite(r) \/ Undo(r)
      PROVE HonestInv'
  <2>1. /\ UNCHANGED <<status, job>>
        /\ \E l \in {"undo", "failing", "commit", "committing", "recorded"} : Goto(r, l)
    BY <1>4 DEF WorkFailed, Created, CreateFailed, Provided, DepsWorked, CommitRead,
                CommitWrite, Undo, files, locals
  <2>2. Holds(r) => Holds(r)'
    BY <2>1 DEF Holds, Op, Goto
  <2> QED
    BY <2>1, <2>2, KeepsHonest DEF WorksForFlag, Op, Goto
<1>5. ASSUME NEW r \in Reqs, Finish(r) \/ Fail(r) PROVE HonestInv'
  <2>1. /\ WriteStatus(r, "done") \/ WriteStatus(r, "failed")
        /\ Leave(r)
    BY <1>5 DEF Finish, Fail
  <2> QED
    BY <2>1, WritesHonest DEF WorksForFlag, Op, Leave
<1>6. ASSUME NEW r \in Reqs, CommitFailed(r) \/ Hangup(r) PROVE FALSE
  BY <1>6 DEF CommitFailed, Hangup, Undisturbed
<1>7. ASSUME NEW s \in Containers, Start(s) \/ Stop(s) PROVE HonestInv'
  BY <1>7 DEF Start, Stop, FlagIsHonest, WorksForFlag, Holds, Op, files, locals
<1>8. CASE Crash
  BY <1>8 DEF Crash, Undisturbed
<1> QED
  BY <1>0, <1>1, <1>2, <1>3, <1>4, <1>5, <1>6, <1>7, <1>8, NextCases

\* With a daemon that lives and a disk that takes writes, a flag that says
\* running is held by a request that will lower it, whatever races with it.
THEOREM FlagAlwaysHonest ==
    ASSUME Undisturbed
    PROVE  Spec => []FlagIsHonest
<1>1. Init => TypeInv /\ HonestInv
  BY TypeInit, HonestInit
<1>2. TypeInv /\ HonestInv /\ [Next]_vars => (TypeInv /\ HonestInv)'
  BY TypeStep, HonestStep
<1>3. HonestInv => FlagIsHonest
  BY DEF HonestInv
<1> QED
  BY <1>1, <1>2, <1>3, PTL DEF Spec

-----------------------------------------------------------------------------
(* The history only watches: a behaviour with it is a behaviour of Apps.   *)

Step(r) ==
    \/ Ask(r) \/ AskDeps(r)
    \/ Refuse(r) \/ CheckFlag(r) \/ CheckBook(r) \/ Claim(r) \/ Adopt(r)
    \/ WorkFailed(r) \/ Pulled(r) \/ Created(r) \/ CreateFailed(r)
    \/ UnitWritten(r) \/ UnitStarted(r) \/ Provided(r) \/ DepsWorked(r)
    \/ CommitRead(r) \/ CommitWrite(r) \/ CommitFailed(r)
    \/ Undo(r) \/ Finish(r) \/ Fail(r)
    \/ RemoveRead(r) \/ Take(r) \/ Forget(r) \/ Purge(r)
    \/ Hangup(r) \/ Dropped(r)

\* The engine's own step, or the daemon's death.
Outside == (\E s \in Containers : Start(s) \/ Stop(s)) \/ Crash

LEMMA HistoryCases ==
    ASSUME [HistoryNext]_historyVars
    PROVE  \/ /\ Recall
              /\ (\E r \in Reqs : Step(r)) \/ Outside
           \/ UNCHANGED historyVars
  BY DEF HistoryNext, Noted, Handler, Task, Step, Outside

LEMMA HistorySteps == [HistoryNext]_historyVars => [Next]_vars
<1>1. ASSUME NEW r \in Reqs, Step(r) PROVE Next
  BY <1>1 DEF Step, Next, Handler, Task
<1>2. Outside => Next
  BY DEF Outside, Next
<1>3. UNCHANGED historyVars => UNCHANGED vars
  BY DEF historyVars
<1> QED
  BY <1>1, <1>2, <1>3, HistoryCases

(* A step of r leaves what other requests have in hand.                    *)
OthersStand(r) ==
    \A q \in Reqs \ {r} :
        pc'[q] = pc[q] /\ job'[q] = job[q] /\ plan'[q] = plan[q] /\ snap'[q] = snap[q]

LEMMA OneMoves ==
    ASSUME TypeInv, NEW r \in Reqs, Step(r)
    PROVE  OthersStand(r)
<1> USE DEF TypeInv, TypeOK, OthersStand, Goto, locals
<1>1. CASE \/ Ask(r) \/ AskDeps(r) \/ Adopt(r) \/ Claim(r) \/ CommitRead(r)
           \/ WorkFailed(r) \/ Pulled(r) \/ Created(r) \/ CreateFailed(r)
           \/ UnitWritten(r) \/ UnitStarted(r) \/ Provided(r) \/ DepsWorked(r)
           \/ CommitWrite(r) \/ Undo(r) \/ Take(r)
  BY <1>1 DEF Ask, AskDeps, Adopt, Claim, CommitRead, WorkFailed, Pulled, Created,
              CreateFailed, UnitWritten, UnitStarted, Provided, DepsWorked, CommitWrite,
              Undo, Take
<1>2. CASE Leave(r)
  BY <1>2 DEF Leave
<1>3. CASE CheckBook(r) /\ ~Leave(r)
  BY <1>3 DEF CheckBook
<1>4. CASE \/ CheckFlag(r) \/ CommitFailed(r) \/ RemoveRead(r) \/ Forget(r) \/ Hangup(r)
  BY <1>2, <1>4 DEF CheckFlag, CommitFailed, RemoveRead, Forget, Hangup
<1>5. CASE Refuse(r) \/ Finish(r) \/ Fail(r) \/ Purge(r) \/ Dropped(r)
  BY <1>2, <1>5 DEF Refuse, Finish, Fail, Purge, Dropped
<1> QED
  BY <1>1, <1>2, <1>3, <1>4, <1>5 DEF Step

-----------------------------------------------------------------------------
(* Installs work alone unless they crossed.  As long as nobody has, one    *)
(* request at most is between its look at the flag and its claim, or is    *)
(* adopting a service; while one is, nobody holds the flag; and a holder   *)
(* keeps the flag up, so that nobody gets past a look at it.               *)

TasksHold == \A r \in Reqs : pc[r] \in TaskPCs => Holds(r) \/ Op(r) = "adopt"

Uncrossed ==
    /\ WorksAlone
    /\ \A q, r \in Reqs : Looking(q) /\ Looking(r) /\ q # r => crossed
    /\ \A q, r \in Reqs : Looking(q) /\ Holds(r) => crossed
    /\ \A r \in Reqs : Holds(r) /\ status.state # "running" => crossed

OneInv == TasksHold /\ Uncrossed

LEMMA OneInit == HistoryInit => OneInv
  BY DEF HistoryInit, Init, OneInv, Uncrossed, WorksAlone, TasksHold, Holds, Looking, Op,
         NoJob

(* What is forgotten is forgotten at rest: otherwise a crossing stays, and *)
(* two who look make one.                                                  *)
LEMMA CrossedStays ==
    ASSUME Recall, ~AtRest'
    PROVE  /\ crossed \/ ClaimLost => crossed'
           /\ \A q, r \in Reqs : Looking(q)' /\ Looking(r)' /\ q # r => crossed'
  BY DEF Recall, Crossing

LEMMA OthersOne ==
    ASSUME NEW r \in Reqs, OthersStand(r)
    PROVE  \A q \in Reqs \ {r} : /\ Holds(q)' <=> Holds(q)
                                 /\ Looking(q)' <=> Looking(q)
                                 /\ pc'[q] = pc[q] /\ Op(q)' = Op(q)
  BY DEF OthersStand, Holds, Looking, Op, Slug

(* A step of r that brings r no closer to the flag, and lowers it for      *)
(* nobody, changes nothing.                                                *)
LEMMA QuietStep ==
    ASSUME OneInv, Recall, NEW r \in Reqs, OthersStand(r),
           status.state = "running" => status'.state = "running",
           Holds(r)' => Holds(r),
           Looking(r)' => Looking(r),
           pc'[r] \in TaskPCs => Holds(r)' \/ Op(r)' = "adopt"
    PROVE  OneInv'
<1>1. \A q \in Reqs : (Holds(q)' => Holds(q)) /\ (Looking(q)' => Looking(q))
  BY OthersOne
<1>2. TasksHold'
  BY OthersOne DEF OneInv, TasksHold
<1>3. CASE AtRest'
  BY <1>2, <1>3 DEF AtRest, OneInv, Uncrossed, WorksAlone
<1>4. CASE ~AtRest'
  BY <1>1, <1>2, <1>4, CrossedStays DEF OneInv, Uncrossed, WorksAlone
<1> QED
  BY <1>3, <1>4

(* Whoever gets past its look found the flag down: had anybody held it,    *)
(* there had been a crossing already.                                      *)
LEMMA LookStep ==
    ASSUME OneInv, Recall, NEW r \in Reqs, OthersStand(r), UNCHANGED status,
           status.state # "running", pc'[r] \notin TaskPCs, Looking(r)'
    PROVE  OneInv'
<1>1. ~Holds(r)' /\ ~AtRest'
  BY DEF Holds, AtRest
<1>2. TasksHold'
  BY OthersOne DEF OneInv, TasksHold
<1>3. \A q \in Reqs : Holds(q)' => Holds(q) /\ crossed'
  BY <1>1, OthersOne, CrossedStays DEF OneInv, Uncrossed
<1>4. Uncrossed'
  BY <1>1, <1>3, CrossedStays DEF Uncrossed, WorksAlone
<1> QED
  BY <1>2, <1>4 DEF OneInv

(* Whoever claims the flag was the only one to look, and nobody held it.   *)
LEMMA ClaimStep ==
    ASSUME TypeInv, OneInv, Recall, NEW r \in Reqs, Claim(r)
    PROVE  OneInv'
<1> USE DEF TypeInv, TypeOK
<1>1. OthersStand(r)
  BY OneMoves DEF Step
<1>2. /\ pc[r] = "checked" /\ pc'[r] = "working"
      /\ Op(r) \in {"install", "deps", "podman"} /\ Op(r)' = Op(r)
      /\ status' = [state |-> "running", by |-> r] \/ ClaimLost
  BY DEF Claim, Goto, Op, ClaimLost
<1>3. Looking(r) /\ ~Looking(r)' /\ Holds(r)' /\ ~AtRest'
  BY <1>2 DEF Looking, Holds, AtRest
<1>4. TasksHold'
  BY <1>1, <1>3, OthersOne DEF OneInv, TasksHold
<1>5. \A q \in Reqs \ {r} : Holds(q)' \/ Looking(q)' => crossed'
  BY <1>1, <1>3, OthersOne, CrossedStays DEF OneInv, Uncrossed
<1>6. status'.state = "running" \/ crossed'
  BY <1>2, <1>3, CrossedStays
<1>7. Uncrossed'
  BY <1>3, <1>5, <1>6 DEF Uncrossed, WorksAlone
<1> QED
  BY <1>4, <1>7 DEF OneInv

(* The last word lowers the flag of nobody else.                           *)
LEMMA LastWordStep ==
    ASSUME TypeInv, OneInv, Recall, NEW r \in Reqs, Finish(r) \/ Fail(r)
    PROVE  OneInv'
<1> USE DEF TypeInv, TypeOK
<1>1. OthersStand(r)
  BY OneMoves DEF Step
<1>2. pc[r] \in {"recorded", "failing"} /\ pc'[r] = "idle" /\ Op(r)' = "none"
  BY DEF Finish, Fail, Leave, NoJob, Op
<1>3. Looking(r) \/ Holds(r)
  BY <1>2 DEF OneInv, TasksHold, Looking
<1>4. ~Looking(r)' /\ ~Holds(r)'
  BY <1>2 DEF Looking, Holds
<1>5. TasksHold'
  BY <1>1, <1>2, OthersOne DEF OneInv, TasksHold
<1>6. \A q \in Reqs : Holds(q)' => q # r /\ Holds(q) /\ crossed /\ ~AtRest'
  BY <1>1, <1>3, <1>4, OthersOne DEF OneInv, Uncrossed, WorksAlone, AtRest
<1>7. \A q \in Reqs : Looking(q)' => ~AtRest'
  BY DEF AtRest
<1>8. Uncrossed'
  BY <1>6, <1>7, CrossedStays DEF Uncrossed, WorksAlone
<1> QED
  BY <1>5, <1>8 DEF OneInv

LEMMA OneStep == TypeInv /\ OneInv /\ [HistoryNext]_historyVars => OneInv'
<1> SUFFICES ASSUME TypeInv, OneInv, [HistoryNext]_historyVars PROVE OneInv'
  OBVIOUS
<1> USE DEF TypeInv, TypeOK
<1>0. CASE UNCHANGED historyVars
  BY <1>0 DEF historyVars, vars, OneInv, TasksHold, Uncrossed, WorksAlone, Holds, Looking,
              Op, Slug
<1>1. ASSUME Recall, NEW r \in Reqs, Ask(r) \/ AskDeps(r) PROVE OneInv'
  <2>1. OthersStand(r)
    BY <1>1, OneMoves DEF Step
  <2>2. /\ UNCHANGED status
        /\ pc'[r] = "asked"
        /\ Op(r)' \in {"install", "remove", "deps", "podman"}
    BY <1>1 DEF Ask, AskDeps, Goto, files, Op
  <2> QED
    BY <1>1, <2>1, <2>2, QuietStep DEF Holds, Looking
<1>2. ASSUME Recall, NEW r \in Reqs, OthersStand(r), Leave(r), UNCHANGED status
      PROVE  OneInv'
  <2>1. pc'[r] = "idle" /\ Op(r)' = "none"
    BY <1>2 DEF Leave, NoJob, Op
  <2> QED
    BY <1>2, <2>1, QuietStep DEF Holds, Looking
<1>3. ASSUME Recall, NEW r \in Reqs, CheckFlag(r) PROVE OneInv'
  <2>1. OthersStand(r) /\ UNCHANGED status
    BY <1>3, OneMoves DEF Step, CheckFlag, files
  <2>2. CASE status.state = "running"
    BY <1>2, <1>3, <2>1, <2>2 DEF CheckFlag
  <2>3. CASE status.state # "running"
    <3>1. pc'[r] = IF Slug(r) \in Containers THEN "half" ELSE "checked"
      BY <1>3, <2>3 DEF CheckFlag, Goto
    <3>2. Slug(r)' = Slug(r)
      BY <1>3, <2>3 DEF CheckFlag, locals, Slug
    <3> QED
      BY <1>3, <2>1, <2>3, <3>1, <3>2, LookStep DEF Looking
  <2> QED
    BY <2>2, <2>3
<1>4. ASSUME Recall, NEW r \in Reqs, CheckBook(r) PROVE OneInv'
  <2>1. OthersStand(r) /\ UNCHANGED status
    BY <1>4, OneMoves DEF Step, CheckBook, files
  <2>2. CASE BookRefuses(Slug(r))
    BY <1>2, <1>4, <2>1, <2>2 DEF CheckBook
  <2>3. CASE ~BookRefuses(Slug(r))
    <3>1. /\ pc'[r] = IF Slug(r) \in Containers THEN "checked" ELSE "half"
          /\ Slug(r) \in Containers => pc[r] = "half"
          /\ Slug(r)' = Slug(r) /\ Op(r)' = Op(r)
      BY <1>4, <2>3 DEF CheckBook, BookLabel, Goto, Slug, Op
    <3> QED
      BY <1>4, <2>1, <3>1, QuietStep DEF Holds, Looking
  <2> QED
    BY <2>2, <2>3
<1>5. ASSUME Recall, NEW r \in Reqs, Adopt(r) PROVE OneInv'
  <2>1. OthersStand(r) /\ UNCHANGED status
    BY <1>5, OneMoves DEF Step, Adopt, files
  <2>2. pc[r] = "checked" /\ Op(r)' = "adopt"
    BY <1>5 DEF Adopt, Op
  <2> QED
    BY <1>5, <2>1, <2>2, QuietStep DEF Holds, Looking
<1>6. ASSUME Recall, NEW r \in Reqs, OthersStand(r),
             status.state = "running" => status'.state = "running",
             UNCHANGED job, pc[r] \in TaskPCs, pc'[r] \in TaskPCs
      PROVE  OneInv'
  <2>1. Holds(r) \/ Op(r) = "adopt"
    BY <1>6 DEF OneInv, TasksHold
  <2>2. /\ Holds(r)' <=> Holds(r)
        /\ Looking(r)' <=> Looking(r)
        /\ Op(r)' = Op(r)
    BY <1>6 DEF Holds, Looking, Op
  <2> QED
    BY <1>6, <2>1, <2>2, QuietStep
<1>7. ASSUME Recall, NEW r \in Reqs,
             \/ WorkFailed(r) \/ Created(r) \/ CreateFailed(r) \/ Provided(r)
             \/ DepsWorked(r) \/ CommitRead(r) \/ CommitWrite(r) \/ Undo(r)
      PROVE  OneInv'
  <2>1. OthersStand(r)
    BY <1>7, OneMoves DEF Step
  <2>2. /\ UNCHANGED <<status, job>>
        /\ pc[r] \in {"working", "creating", "commit", "committing", "undo"}
        /\ \E l \in {"undo", "failing", "commit", "committing", "recorded"} : Goto(r, l)
    BY <1>7 DEF WorkFailed, Created, CreateFailed, Provided, DepsWorked, CommitRead,
                CommitWrite, Undo, files, locals
  <2> QED
    BY <1>6, <1>7, <2>1, <2>2 DEF Goto
<1>8. ASSUME Recall, NEW r \in Reqs, Pulled(r) \/ UnitWritten(r) \/ UnitStarted(r)
      PROVE  OneInv'
  <2>1. OthersStand(r)
    BY <1>8, OneMoves DEF Step
  <2>2. /\ UNCHANGED job /\ WriteStatus(r, "running")
        /\ pc[r] \in {"working", "starting"}
        /\ \E l \in {"creating", "starting", "failing", "commit"} : Goto(r, l)
    BY <1>8 DEF Pulled, UnitWritten, UnitStarted, locals
  <2> QED
    BY <1>6, <1>8, <2>1, <2>2 DEF Goto, WriteStatus
<1>9. ASSUME Recall, NEW r \in Reqs, CommitFailed(r) PROVE OneInv'
  <2>1. OthersStand(r) /\ UNCHANGED status
    BY <1>9, OneMoves DEF Step, CommitFailed, files
  <2>2. CASE Leave(r)
    BY <1>2, <1>9, <2>1, <2>2
  <2>3. CASE ~Leave(r)
    <3>1. /\ UNCHANGED job
          /\ pc[r] = "committing" /\ pc'[r] \in {"undo", "failing"}
      BY <1>9, <2>3 DEF CommitFailed, Goto, locals
    <3> QED
      BY <1>6, <1>9, <2>1, <3>1
  <2> QED
    BY <2>2, <2>3
<1>10. ASSUME Recall, NEW r \in Reqs,
              Refuse(r) \/ RemoveRead(r) \/ Take(r) \/ Forget(r) \/ Purge(r)
                        \/ Hangup(r) \/ Dropped(r)
       PROVE  OneInv'
  <2>1. OthersStand(r)
    BY <1>10, OneMoves DEF Step
  <2>2. UNCHANGED status
    BY <1>10 DEF Refuse, RemoveRead, Take, Forget, Purge, Hangup, Dropped, files
  <2>3. CASE Leave(r)
    BY <1>2, <1>10, <2>1, <2>2, <2>3
  <2>4. CASE ~Leave(r)
    <3>1. UNCHANGED job /\ pc'[r] \in {"taking", "taken", "purging", "dropped"}
      BY <1>10, <2>4 DEF Refuse, RemoveRead, Take, Forget, Purge, Hangup, Dropped,
                         Goto, locals
    <3> QED
      BY <1>10, <2>1, <2>2, <3>1, QuietStep DEF Holds, Looking, Op
  <2> QED
    BY <2>3, <2>4
<1>11. ASSUME Recall, NEW s \in Containers, Start(s) \/ Stop(s) PROVE OneInv'
  <2>1. UNCHANGED <<status, pc, job>>
    BY <1>11 DEF Start, Stop, files, locals
  <2>2. \A q \in Reqs : (Holds(q)' <=> Holds(q)) /\ (Looking(q)' <=> Looking(q))
    BY <2>1 DEF Holds, Looking, Op, Slug
  <2>3. TasksHold'
    BY <2>1, <2>2 DEF OneInv, TasksHold, Op
  <2>4. CASE AtRest'
    BY <2>3, <2>4 DEF AtRest, OneInv, Uncrossed, WorksAlone
  <2>5. CASE ~AtRest'
    BY <1>11, <2>1, <2>2, <2>3, <2>5, CrossedStays DEF OneInv, Uncrossed, WorksAlone
  <2> QED
    BY <2>4, <2>5
<1>12. CASE Crash
  BY <1>12 DEF Crash, NoJob, OneInv, Uncrossed, WorksAlone, TasksHold, Holds, Looking, Op
<1> QED
  BY <1>0, <1>1, <1>3, <1>4, <1>5, <1>7, <1>8, <1>9, <1>10, <1>11, <1>12,
     ClaimStep, LastWordStep, HistoryCases DEF Step, Outside

\* Installs work alone unless two requests crossed on their way to the flag,
\* or a claim was lost: whatever is installed, adopted, removed, refused or
\* dropped, and whatever fails.
THEOREM InstallsWorkAlone == HistorySpec => []WorksAlone
<1>1. HistoryInit => TypeInv /\ OneInv
  BY TypeInit, OneInit DEF HistoryInit
<1>2. TypeInv /\ OneInv /\ [HistoryNext]_historyVars => (TypeInv /\ OneInv)'
  BY TypeStep, HistorySteps, OneStep
<1>3. OneInv => WorksAlone
  BY DEF OneInv, Uncrossed
<1> QED
  BY <1>1, <1>2, <1>3, PTL DEF HistorySpec

-----------------------------------------------------------------------------
(* The book.  It is read and written back as a whole, and nothing locks    *)
(* it, so whoever goes by a book it read goes by the truth only until      *)
(* somebody else writes one: from then on it is overtaken, unless records  *)
(* have only gone.                                                         *)

WritesBook(r) == CommitWrite(r) \/ Forget(r)
Changed == {s \in Slugs : book'[s] # book[s]}

(* A step that does not write the book leaves what is recalled of it.      *)
LEMMA QuietBook ==
    ASSUME TypeInv, NEW r \in Reqs, Step(r), ~WritesBook(r)
    PROVE  UNCHANGED book /\ (pc[r] = "committing" => pc'[r] # "recorded") /\ pc[r] # "taken"
<1> USE DEF TypeInv, TypeOK, Goto, files
<1>1. CASE \/ Ask(r) \/ AskDeps(r) \/ Adopt(r) \/ Claim(r) \/ CommitRead(r)
           \/ WorkFailed(r) \/ Pulled(r) \/ Created(r) \/ CreateFailed(r)
           \/ UnitWritten(r) \/ UnitStarted(r) \/ Provided(r) \/ DepsWorked(r)
           \/ Undo(r) \/ Take(r)
  BY <1>1 DEF Ask, AskDeps, Adopt, Claim, CommitRead, WorkFailed, Pulled, Created,
              CreateFailed, UnitWritten, UnitStarted, Provided, DepsWorked, Undo, Take
<1>2. CASE CheckFlag(r) \/ CheckBook(r)
  BY <1>2 DEF CheckFlag, FlagLabel, CheckBook, BookLabel
<1>3. CASE CommitFailed(r)
  BY <1>3 DEF CommitFailed, Leave
<1>4. CASE \/ Refuse(r) \/ Finish(r) \/ Fail(r) \/ RemoveRead(r) \/ Purge(r)
           \/ Hangup(r) \/ Dropped(r)
  BY <1>4 DEF Refuse, Finish, Fail, RemoveRead, Purge, Hangup, Dropped
<1> QED
  BY <1>1, <1>2, <1>3, <1>4 DEF Step, WritesBook

LEMMA OneAuthor ==
    ASSUME TypeInv, NEW r \in Reqs, Step(r)
    PROVE  /\ Authors \subseteq {r}
           /\ Changed \subseteq Rewritten
           /\ ~WritesBook(r) => Authors = {} /\ Rewritten = {} /\ UNCHANGED book
<1>1. Authors \subseteq {r}
  BY OneMoves DEF Authors, OthersStand
<1>2. ASSUME ~WritesBook(r) PROVE Authors = {} /\ Rewritten = {} /\ UNCHANGED book
  <2>1. r \notin Authors /\ UNCHANGED book
    BY <1>2, QuietBook DEF Authors
  <2>2. Authors = {}
    BY <1>1, <2>1
  <2> QED
    BY <2>1, <2>2 DEF Rewritten
<1> QED
  BY <1>1, <1>2 DEF Changed, Rewritten

(* Who is not overtaken after somebody else's step was not before, and     *)
(* whatever the step changed is no longer recorded.                        *)
LEMMA NotOvertaken ==
    ASSUME TypeInv, Recall, NEW r \in Reqs, Step(r), NEW q \in Reqs, q \notin Authors,
           GoesByBook(q)', q \notin overtaken'
    PROVE  /\ q \notin overtaken
           /\ \A s \in Rewritten : book'[s] = NoRecord
           /\ \A s \in Slugs : book'[s] # NoRecord => book'[s] = book[s]
  BY OneAuthor DEF Recall, Changed

(* Where the record of an app is not in doubt after a step, the step left  *)
(* it alone, and it was not before; or the step wrote it, and was not      *)
(* overtaken.                                                              *)
LEMMA NotDoubtful ==
    ASSUME TypeInv, Recall, NEW r \in Reqs, Step(r), NEW s \in Containers, s \notin doubtful'
    PROVE  \/ s \notin doubtful /\ book'[s] = book[s]
           \/ Slug(r) = s /\ r \in Authors /\ r \notin overtaken
<1>1. CASE \E q \in Authors : Slug(q) = s /\ q \notin overtaken
  BY <1>1, OneAuthor
<1>2. CASE ~\E q \in Authors : Slug(q) = s /\ q \notin overtaken
  <2>1. s \notin doubtful /\ s \notin Rewritten
    BY <1>2 DEF Recall
  <2> QED
    BY <2>1 DEF Rewritten, Slugs
<1> QED
  BY <1>1, <1>2

-----------------------------------------------------------------------------
(* Ports.  An install is given its port when it looks at the book, and     *)
(* writes its record minutes later.  What it was given stays good, and its *)
(* app stays absent, unless it was overtaken.                              *)

Plans(r) ==
    /\ Slug(r) \in Containers
    /\ pc[r] \in {"checked", "working", "creating", "starting", "commit", "committing",
                  "undo"}

IsNew(r) == Slug(r) \notin Installed /\ \A s \in Installed : book[s].port # plan[r].port

PlansAreNew == \A r \in Reqs : Plans(r) => IsNew(r) \/ r \in overtaken

\* A purge is of an app that is not there, unless it came back meanwhile.
PurgesAbsent ==
    \A r \in Reqs :
        pc[r] = "purging" =>
            Slug(r) \in Containers /\ (Slug(r) \notin Installed \/ r \in overtaken)

\* Who deletes a container on purpose is a removal.
RemovalsTake ==
    \A r \in Reqs : pc[r] \in {"taking", "taken", "purging"} => Op(r) = "remove"

BookInv == PortsDistinct /\ PlansAreNew /\ PurgesAbsent /\ RemovalsTake

LEMMA BookInit == HistoryInit => BookInv
  BY DEF HistoryInit, Init, BookInv, PortsDistinct, PlansAreNew, PurgesAbsent, RemovalsTake,
         Plans, Installed, EmptyBook, Slugs

(* What a step of r does to the promises about r itself.                   *)
PlansAgain(r) == Plans(r)' => Plans(r) /\ Slug(r)' = Slug(r) /\ plan'[r].port = plan[r].port
LEMMA PlanMoves ==
    ASSUME TypeInv, NEW r \in Reqs, Step(r)
    PROVE  \/ PlansAgain(r)
           \/ CheckBook(r) /\ IsNew(r)' /\ ~WritesBook(r)
<1> USE DEF TypeInv, TypeOK
<1>1. CASE Ask(r) \/ AskDeps(r)
  BY <1>1 DEF Ask, AskDeps, Goto, Plans, PlansAgain
<1>2. CASE Adopt(r)
  BY <1>2, CatalogAssumption DEF Adopt, Goto, Plans, PlansAgain, Slug
<1>3. CASE Claim(r)
  BY <1>3 DEF Claim, Goto, Plans, PlansAgain, Slug, Record
<1>4. CASE CommitRead(r) \/ WorkFailed(r) \/ Pulled(r) \/ Created(r) \/ CreateFailed(r)
  BY <1>4 DEF CommitRead, WorkFailed, Pulled, Created, CreateFailed, Goto, Plans,
              PlansAgain, Slug, locals
<1>5. CASE UnitWritten(r) \/ DepsWorked(r) \/ Undo(r) \/ Take(r)
  BY <1>5 DEF UnitWritten, DepsWorked, Undo, Take, Goto, Plans, PlansAgain, Slug, locals
<1>6. CASE Provided(r)
  BY <1>6, CatalogAssumption DEF Provided, Goto, Plans, PlansAgain, Slug, locals
<1>7. CASE UnitStarted(r)
  BY <1>7 DEF UnitStarted, Goto, Plans, PlansAgain, Slug, locals
<1>8. CASE Leave(r)
  BY <1>8 DEF Leave, Plans, PlansAgain
<1>9. CASE CheckBook(r) /\ ~Leave(r)
  <2>1. ~BookRefuses(Slug(r))
    BY <1>9 DEF CheckBook
  <2>2. PICK p \in AllPorts :
          /\ PortFor(Slug(r), p)
          /\ plan' = [plan EXCEPT ![r] = [port |-> p, adopted |-> FALSE]]
    BY <1>9, <2>1 DEF CheckBook
  <2>3. plan'[r].port = p /\ Slug(r)' = Slug(r) /\ UNCHANGED book
    BY <1>9, <2>1, <2>2 DEF CheckBook, files, Slug
  <2>4. CASE Slug(r) \in Containers
    <3>1. \A s \in Installed : book[s].port # p
      BY <2>2, <2>4, CatalogAssumption DEF PortFor, IsFreePort, FreePorts, Installed
    <3>2. IsNew(r)'
      BY <2>1, <2>3, <3>1 DEF IsNew, BookRefuses, Installed
    <3>3. ~WritesBook(r)
      BY <1>9, <2>4 DEF CheckBook, BookLabel, WritesBook, CommitWrite, Forget
    <3> QED
      BY <1>9, <3>2, <3>3
  <2>5. CASE Slug(r) \notin Containers
    BY <2>3, <2>5 DEF Plans, PlansAgain
  <2> QED
    BY <2>4, <2>5
<1>10. CASE (CheckFlag(r) \/ CommitFailed(r) \/ RemoveRead(r) \/ Hangup(r)) /\ ~Leave(r)
  BY <1>10 DEF CheckFlag, CommitFailed, RemoveRead, Hangup, Goto, Plans, PlansAgain, Slug,
               locals
<1>11. CASE CommitWrite(r) \/ (Forget(r) /\ ~Leave(r))
  BY <1>11 DEF CommitWrite, Forget, Goto, Plans, PlansAgain, Slug, locals
<1>12. CASE Refuse(r) \/ Finish(r) \/ Fail(r) \/ Purge(r) \/ Dropped(r)
  BY <1>8, <1>12 DEF Refuse, Finish, Fail, Purge, Dropped
<1> QED
  BY <1>1, <1>2, <1>3, <1>4, <1>5, <1>6, <1>7, <1>8, <1>9, <1>10, <1>11, <1>12 DEF Step

LEMMA RemovalMoves ==
    ASSUME TypeInv, RemovalsTake, NEW r \in Reqs, Step(r)
    PROVE  /\ pc'[r] \in {"taking", "taken", "purging"} => Op(r)' = "remove"
           /\ pc'[r] = "purging" =>
                  /\ Slug(r)' = Slug(r) /\ Slug(r) \in Containers
                  /\ Forget(r) /\ book'[Slug(r)] = NoRecord
<1> USE DEF TypeInv, TypeOK
<1>1. CASE Forget(r) /\ ~Leave(r)
  <2>1. /\ pc'[r] = "purging" /\ pc[r] = "taken" /\ UNCHANGED job
        /\ Slug(r) \in Containers /\ book' = [snap[r] EXCEPT ![Slug(r)] = NoRecord]
    BY <1>1 DEF Forget, Goto, locals
  <2>2. book'[Slug(r)] = NoRecord
    BY <2>1 DEF Book, Slugs
  <2> QED
    BY <1>1, <2>1, <2>2 DEF RemovalsTake, Op, Slug
<1>2. CASE RemoveRead(r) /\ ~Leave(r)
  BY <1>2 DEF RemoveRead, Goto, Op
<1>3. CASE Take(r)
  BY <1>3 DEF Take, Goto, Op, locals, RemovalsTake
<1>4. ASSUME ~(Forget(r) /\ ~Leave(r)), ~(RemoveRead(r) /\ ~Leave(r)), ~Take(r)
      PROVE  pc'[r] \notin {"taking", "taken", "purging"}
  <2>1. CASE Leave(r)
    BY <2>1 DEF Leave
  <2>2. CASE ~Leave(r) /\ ( \/ Ask(r) \/ AskDeps(r) \/ CheckFlag(r) \/ CheckBook(r)
                            \/ Claim(r) \/ Adopt(r) \/ CommitRead(r) \/ CommitWrite(r)
                            \/ CommitFailed(r) \/ Undo(r) \/ Hangup(r))
    BY <2>2 DEF Ask, AskDeps, CheckFlag, CheckBook, Claim, Adopt, CommitRead, CommitWrite,
                CommitFailed, Undo, Hangup, Goto
  <2>3. CASE \/ WorkFailed(r) \/ Pulled(r) \/ Created(r) \/ CreateFailed(r)
             \/ UnitWritten(r) \/ UnitStarted(r) \/ Provided(r) \/ DepsWorked(r)
    BY <2>3 DEF WorkFailed, Pulled, Created, CreateFailed, UnitWritten, UnitStarted,
                Provided, DepsWorked, Goto
  <2>4. CASE Refuse(r) \/ Finish(r) \/ Fail(r) \/ Purge(r) \/ Dropped(r)
    BY <2>1, <2>4 DEF Refuse, Finish, Fail, Purge, Dropped
  <2> QED
    BY <1>4, <2>1, <2>2, <2>3, <2>4 DEF Step
<1> QED
  BY <1>1, <1>2, <1>3, <1>4

LEMMA PlansStep ==
    ASSUME TypeInv, BookInv, Recall, NEW r \in Reqs, Step(r)
    PROVE  PlansAreNew'
<1> SUFFICES ASSUME NEW q \in Reqs, Plans(q)', q \notin overtaken' PROVE IsNew(q)'
  BY DEF PlansAreNew
<1> USE DEF BookInv, PlansAreNew
<1>1. GoesByBook(q)'
  BY DEF Plans, GoesByBook
<1>2. CASE q # r
  <2>1. Plans(q) /\ Slug(q)' = Slug(q) /\ plan'[q] = plan[q] /\ q \notin Authors
    BY <1>2, OneMoves, OneAuthor DEF OthersStand, Plans, Slug
  <2>2. /\ q \notin overtaken
        /\ \A s \in Slugs : book'[s] # NoRecord => book'[s] = book[s]
    BY <1>1, <2>1, NotOvertaken
  <2> QED
    BY <2>1, <2>2 DEF IsNew, Installed
<1>3. CASE q = r /\ WritesBook(r)
  BY <1>3 DEF WritesBook, CommitWrite, Forget, Leave, Goto, Plans, TypeInv, TypeOK
<1>4. CASE q = r /\ ~WritesBook(r)
  <2>1. UNCHANGED book /\ r \notin Authors
    BY <1>4, OneAuthor
  <2>2. r \notin overtaken
    BY <1>1, <1>4, <2>1, NotOvertaken
  <2>3. CASE PlansAgain(r)
    BY <1>4, <2>1, <2>2, <2>3 DEF IsNew, Installed, PlansAgain
  <2> QED
    BY <1>4, <2>3, PlanMoves
<1> QED
  BY <1>2, <1>3, <1>4

LEMMA PurgesStep ==
    ASSUME TypeInv, BookInv, Recall, NEW r \in Reqs, Step(r)
    PROVE  PurgesAbsent'
<1> SUFFICES ASSUME NEW q \in Reqs, pc'[q] = "purging"
             PROVE  /\ Slug(q)' \in Containers
                    /\ q \notin overtaken' => Slug(q)' \notin Installed'
  BY DEF PurgesAbsent
<1> USE DEF BookInv, PurgesAbsent
<1>1. CASE q = r
  BY <1>1, RemovalMoves DEF Installed
<1>2. CASE q # r
  <2>1. pc[q] = "purging" /\ Slug(q)' = Slug(q) /\ Slug(q) \in Containers /\ q \notin Authors
    BY <1>2, OneMoves, OneAuthor DEF OthersStand, Slug
  <2>2. GoesByBook(q)'
    BY <2>1 DEF GoesByBook
  <2>3. ASSUME q \notin overtaken' PROVE Slug(q)' \notin Installed'
    <3>1. /\ q \notin overtaken
          /\ \A s \in Slugs : book'[s] # NoRecord => book'[s] = book[s]
      BY <2>1, <2>2, <2>3, NotOvertaken
    <3> QED
      BY <2>1, <3>1 DEF Installed, Slugs
  <2> QED
    BY <2>1, <2>3
<1> QED
  BY <1>1, <1>2

(* Of two records with one port, the one that was just written by a        *)
(* request that was not overtaken was planned for a port nobody has.       *)
LEMMA PortsStep ==
    ASSUME TypeInv, BookInv, Recall, NEW r \in Reqs, Step(r)
    PROVE  PortsDistinct'
<1> SUFFICES ASSUME NEW s \in Containers \cap Installed', NEW t \in Containers \cap Installed',
                    s # t, s \notin doubtful', t \notin doubtful'
             PROVE  book'[s].port # book'[t].port
  BY DEF PortsDistinct
<1> USE DEF TypeInv, TypeOK
<1>1. ASSUME NEW u \in Containers, NEW v \in Containers, u # v,
             u \in Installed', v \in Installed',
             Slug(r) = u, r \in Authors, r \notin overtaken, v \notin doubtful'
      PROVE  book'[u].port # book'[v].port
  <2>1. v \notin doubtful /\ book'[v] = book[v]
    BY <1>1, NotDoubtful
  <2>2. CommitWrite(r)
    <3>1. WritesBook(r)
      BY <1>1, OneAuthor
    <3>2. CASE Forget(r)
      <4>1. book' = [snap[r] EXCEPT ![u] = NoRecord] \/ UNCHANGED book
        BY <1>1, <3>2 DEF Forget
      <4>2. pc'[r] = "idle" \/ book'[u] = NoRecord
        BY <1>1, <3>2 DEF Forget, Leave, Goto, Book, Slugs
      <4>3. pc[r] = "taken"
        BY <3>2 DEF Forget
      <4>4. book' # book
        BY <1>1, <4>2, <4>3 DEF Authors, Installed
      <4>5. book'[u] = NoRecord
        BY <4>1, <4>4 DEF Book, Slugs
      <4> QED
        BY <1>1, <4>5 DEF Installed
    <3> QED
      BY <3>1, <3>2 DEF WritesBook
  <2>3. book'[u] = plan[r]
    BY <1>1, <2>2 DEF CommitWrite, Book, Slugs
  <2>4. IsNew(r)
    BY <1>1, <2>2 DEF CommitWrite, BookInv, PlansAreNew, Plans
  <2>5. v \in Installed
    BY <1>1, <2>1 DEF Installed
  <2> QED
    BY <2>1, <2>3, <2>4, <2>5 DEF IsNew
<1>2. CASE s \notin doubtful /\ book'[s] = book[s] /\ t \notin doubtful /\ book'[t] = book[t]
  BY <1>2 DEF BookInv, PortsDistinct, Installed
<1>3. CASE Slug(r) = s /\ r \in Authors /\ r \notin overtaken
  BY <1>1, <1>3
<1>4. CASE Slug(r) = t /\ r \in Authors /\ r \notin overtaken
  BY <1>1, <1>4
<1> QED
  BY <1>2, <1>3, <1>4, NotDoubtful

(* The engine's own steps and the daemon's death write no book.            *)
LEMMA OutsideRecall ==
    ASSUME TypeInv, Recall, Outside
    PROVE  /\ UNCHANGED book
           /\ doubtful' = doubtful
           /\ Crash \/ (/\ UNCHANGED <<pc, locals>>
                        /\ \A q \in overtaken \cap Reqs : GoesByBook(q) => q \in overtaken')
<1>1. UNCHANGED book /\ Authors = {}
  BY DEF Outside, Start, Stop, Crash, files, Authors
<1>2. Rewritten = {}
  BY <1>1 DEF Rewritten
<1>3. doubtful' = doubtful
  BY <1>1, <1>2 DEF Recall
<1>4. CASE ~Crash
  <2>1. UNCHANGED <<pc, locals>>
    BY <1>4 DEF Outside, Start, Stop, locals
  <2>2. \A q \in Reqs : GoesByBook(q)' <=> GoesByBook(q)
    BY <2>1 DEF GoesByBook, Slug, locals
  <2>3. \A q \in overtaken \cap Reqs : GoesByBook(q) => q \in overtaken'
    BY <1>1, <2>2 DEF Recall
  <2> QED
    BY <1>1, <1>3, <2>1, <2>3
<1> QED
  BY <1>1, <1>3, <1>4

LEMMA BookStep == TypeInv /\ BookInv /\ [HistoryNext]_historyVars => BookInv'
<1> SUFFICES ASSUME TypeInv, BookInv, [HistoryNext]_historyVars PROVE BookInv'
  OBVIOUS
<1>1. ASSUME Recall, NEW r \in Reqs, Step(r) PROVE BookInv'
  <2>1. RemovalsTake'
    <3>1. \A q \in Reqs \ {r} : pc'[q] = pc[q] /\ Op(q)' = Op(q)
      BY <1>1, OneMoves DEF OthersStand, Op
    <3> QED
      BY <1>1, <3>1, RemovalMoves DEF BookInv, RemovalsTake
  <2> QED
    BY <1>1, <2>1, PlansStep, PurgesStep, PortsStep DEF BookInv
<1>2. CASE Recall /\ Outside
  <2>1. PortsDistinct'
    BY <1>2, OutsideRecall DEF BookInv, PortsDistinct, Installed
  <2>2. CASE Crash
    BY <2>1, <2>2 DEF Crash, BookInv, PlansAreNew, Plans, PurgesAbsent, RemovalsTake
  <2>3. CASE ~Crash
    <3>1. /\ UNCHANGED <<book, pc, job, plan>>
          /\ \A q \in overtaken \cap Reqs : GoesByBook(q) => q \in overtaken'
      BY <1>2, <2>3, OutsideRecall DEF locals
    <3>2. PlansAreNew'
      BY <3>1 DEF BookInv, PlansAreNew, Plans, IsNew, Installed, Slug, GoesByBook
    <3>3. PurgesAbsent'
      BY <3>1 DEF BookInv, PurgesAbsent, Installed, Slug, GoesByBook
    <3>4. RemovalsTake'
      BY <3>1 DEF BookInv, RemovalsTake, Op
    <3> QED
      BY <2>1, <3>2, <3>3, <3>4 DEF BookInv
  <2> QED
    BY <2>2, <2>3
<1>3. CASE UNCHANGED historyVars
  BY <1>3 DEF historyVars, vars, BookInv, PortsDistinct, PlansAreNew, PurgesAbsent,
              RemovalsTake, Plans, IsNew, Installed, Slug, Op
<1> QED
  BY <1>1, <1>2, <1>3, HistoryCases

LEMMA BookAlways == HistorySpec => [](TypeInv /\ BookInv)
<1>1. HistoryInit => TypeInv /\ BookInv
  BY TypeInit, BookInit DEF HistoryInit
<1>2. TypeInv /\ BookInv /\ [HistoryNext]_historyVars => (TypeInv /\ BookInv)'
  BY TypeStep, HistorySteps, BookStep
<1> QED
  BY <1>1, <1>2, PTL DEF HistorySpec

\* Two container apps recorded with one port are the work of a request that
\* was overtaken, or that was about another app: a port that was free when the
\* book was looked at is free when the record is written, minutes later, unless
\* somebody has recorded an app in between.
THEOREM PortsAlwaysDistinct == HistorySpec => []PortsDistinct
<1>1. BookInv => PortsDistinct
  BY DEF BookInv
<1> QED
  BY <1>1, BookAlways, PTL

\* The container of an app that is installed is deleted by its removal, or by
\* an install of it that somebody overtook; no other clean-up hits it.
THEOREM OnlyRemovalsDelete == HistorySpec => OnlyRemovalDeletes
<1>1. ASSUME TypeInv, BookInv, [HistoryNext]_historyVars,
             NEW s \in Containers, s \in Installed,
             containers[s] # NoContainer, containers'[s] = NoContainer
      PROVE  \E r \in Reqs : Slug(r) = s /\ (Op(r) = "remove" \/ r \in overtaken)
  <2> USE <1>1 DEF TypeInv, TypeOK
  <2>1. ASSUME NEW r \in Reqs, Created(r) \/ CreateFailed(r) PROVE FALSE
    <3>1. Slug(r) = s
      BY <2>1 DEF Created, CreateFailed
    <3>2. plan[r].port \in Ports
      BY <2>1, <3>1 DEF Created, CreateFailed, PlansAPort
    <3> QED
      BY <2>1, <3>1, <3>2, NullAssumption DEF Created, CreateFailed, Container
  <2>2. ASSUME NEW r \in Reqs, Undo(r) PROVE Slug(r) = s /\ r \in overtaken
    <3>1. Slug(r) = s
      BY <2>2 DEF Undo
    <3>2. Plans(r)
      BY <2>2, <3>1 DEF Undo, Plans
    <3> QED
      BY <3>1, <3>2 DEF BookInv, PlansAreNew, IsNew
  <2>3. ASSUME NEW r \in Reqs, Take(r) \/ Dropped(r)
        PROVE  Slug(r) = s /\ Op(r) = "remove"
    BY <2>3 DEF Take, Dropped, TakeAway, BookInv, RemovalsTake
  <2>4. ASSUME NEW t \in Containers, Start(t) \/ Stop(t) PROVE FALSE
    <3>1. t = s /\ containers[t] \in Container
      BY <2>4 DEF Start, Stop
    <3>2. \A b \in BOOLEAN : [containers[t] EXCEPT !.up = b] \in Container
      BY <3>1 DEF Container
    <3> QED
      BY <2>4, <3>1, <3>2, NullAssumption DEF Start, Stop
  <2>5. CASE UNCHANGED containers
    BY <2>5
  <2>6. Next \/ UNCHANGED vars
    BY HistorySteps
  <2>7. \/ \E r \in Reqs : Created(r) \/ CreateFailed(r) \/ Undo(r) \/ Take(r) \/ Dropped(r)
        \/ \E t \in Containers : Start(t) \/ Stop(t)
        \/ UNCHANGED containers
    BY <2>6, NextCases
       DEF Ask, AskDeps, Refuse, CheckFlag, CheckBook, Claim, Adopt, WorkFailed, Pulled,
           UnitWritten, UnitStarted, Provided, DepsWorked, CommitRead, CommitWrite,
           CommitFailed, Finish, Fail, RemoveRead, Forget, Purge, Hangup, Crash, host, vars
  <2> QED
    BY <2>1, <2>2, <2>3, <2>4, <2>5, <2>7
<1>2. TypeInv /\ BookInv /\ [HistoryNext]_historyVars =>
         [\A s \in Containers :
             /\ s \in Installed
             /\ containers[s] # NoContainer
             /\ containers'[s] = NoContainer
             => \E r \in Reqs : Slug(r) = s /\ (Op(r) = "remove" \/ r \in overtaken)]_historyVars
  BY <1>1
<1> QED
  BY <1>2, BookAlways, PTL DEF HistorySpec, OnlyRemovalDeletes

\* The directory of an app that is installed is purged only by a removal of it
\* that was overtaken by the app's return.
THEOREM PurgesSpareInstalled == HistorySpec => PurgeSparesInstalled
<1>1. ASSUME TypeInv, BookInv, [HistoryNext]_historyVars,
             NEW s \in Containers \cap Installed, s \in appdata, s \notin appdata'
      PROVE  \E r \in overtaken : Slug(r) = s /\ pc[r] = "purging"
  <2>1. ASSUME NEW r \in Reqs, Purge(r) PROVE r \in overtaken /\ Slug(r) = s /\ pc[r] = "purging"
    BY <1>1, <2>1 DEF Purge, BookInv, PurgesAbsent
  <2>2. Next \/ UNCHANGED vars
    BY <1>1, HistorySteps
  <2>3. \/ \E r \in Reqs : Purge(r)
        \/ appdata \subseteq appdata'
    BY <2>2, NextCases
       DEF Ask, AskDeps, Refuse, CheckFlag, CheckBook, Claim, Adopt, WorkFailed, Pulled,
           Created, CreateFailed, UnitWritten, UnitStarted, Provided, DepsWorked, CommitRead,
           CommitWrite, CommitFailed, Undo, Finish, Fail, RemoveRead, Take, Forget, Hangup,
           Dropped, Start, Stop, Crash, host, vars
  <2> QED
    BY <1>1, <2>1, <2>3
<1>2. TypeInv /\ BookInv /\ [HistoryNext]_historyVars =>
         [\A s \in Containers \cap Installed :
             s \in appdata /\ s \notin appdata' =>
                 \E r \in overtaken : Slug(r) = s /\ pc[r] = "purging"]_historyVars
  BY <1>1
<1> QED
  BY <1>2, BookAlways, PTL DEF HistorySpec, PurgeSparesInstalled

-----------------------------------------------------------------------------
(* Every container has somebody to answer for it: it is in the book, its   *)
(* record is in doubt, or a request will record it or delete it.  This     *)
(* holds whatever races, and whether or not the disk takes what is written,*)
(* as long as the daemon lives and the engine deletes what it is asked to. *)

Answers(r, s) == Slug(r) = s /\ pc[r] \in {"commit", "committing", "undo"}
AnsweredFor(s) == \E r \in Reqs : Answers(r, s)

ContainersAnsweredFor ==
    \A s \in Containers :
        containers[s] # NoContainer => s \in Installed \cup doubtful \/ AnsweredFor(s)

(* What is there again after a removal took it is another request's.       *)
TakenAnsweredFor ==
    \A r \in Reqs :
        /\ pc[r] = "taken"
        /\ Slug(r) \in Containers
        /\ containers[Slug(r)] # NoContainer
        => AnsweredFor(Slug(r)) \/ r \in overtaken

AdoptsServices == \A r \in Reqs : Op(r) = "adopt" => Slug(r) \in Hosts

OrphanInv == ContainersAnsweredFor /\ TakenAnsweredFor /\ AdoptsServices

EngineHeeds == Faults \cap {"crash", "engine"} = {}

LEMMA OrphanInit == HistoryInit => OrphanInv
  BY DEF HistoryInit, Init, OrphanInv, ContainersAnsweredFor, TakenAnsweredFor,
         AdoptsServices, Op, NoJob

(* A step that writes no book, makes no container but one it answers for,  *)
(* and answers for as much as before.                                      *)
LEMMA QuietOrphan ==
    ASSUME TypeInv, OrphanInv, Recall, NEW r \in Reqs, Step(r), ~WritesBook(r),
           \A s \in Containers : containers'[s] # NoContainer =>
               containers[s] # NoContainer \/ Answers(r, s)',
           \A s \in Containers : Answers(r, s) =>
               Answers(r, s)' \/ containers'[s] = NoContainer,
           pc'[r] = "taken" /\ Slug(r)' \in Containers => containers'[Slug(r)'] = NoContainer,
           Op(r)' = "adopt" => Slug(r)' \in Hosts
    PROVE  OrphanInv'
<1>0. OthersStand(r)
  BY OneMoves
<1>1. \A q \in Reqs \ {r}, s \in Containers : Answers(q, s)' = Answers(q, s)
  BY <1>0 DEF OthersStand, Answers, Slug
<1>2. \A s \in Containers :
         AnsweredFor(s) => AnsweredFor(s)' \/ containers'[s] = NoContainer
  BY <1>1 DEF AnsweredFor
<1>3. \A s \in Containers : Answers(r, s)' => AnsweredFor(s)'
  BY DEF AnsweredFor
<1>4. \A q \in Reqs \ {r} : pc'[q] = pc[q] /\ Slug(q)' = Slug(q) /\ Op(q)' = Op(q)
  BY <1>0 DEF OthersStand, Slug, Op
<1>5. UNCHANGED book /\ Authors = {} /\ Rewritten = {}
  BY OneAuthor
<1>6. doubtful' = doubtful /\ Installed' = Installed
  BY <1>5 DEF Recall, Installed
<1>7. \A q \in Reqs \ {r} : q \in overtaken /\ GoesByBook(q) => q \in overtaken'
  BY <1>4, <1>5 DEF Recall, GoesByBook
<1>8. ContainersAnsweredFor'
  BY <1>2, <1>3, <1>6 DEF OrphanInv, ContainersAnsweredFor
<1>9. TakenAnsweredFor'
  BY <1>2, <1>3, <1>4, <1>7 DEF OrphanInv, TakenAnsweredFor, GoesByBook
<1>10. AdoptsServices'
  BY <1>4 DEF OrphanInv, AdoptsServices
<1> QED
  BY <1>8, <1>9, <1>10 DEF OrphanInv

(* A record that is written is answered for; one that a write drops is in  *)
(* doubt; and a removal whose app comes back meanwhile is overtaken.       *)
LEMMA CommitWriteOrphan ==
    ASSUME TypeInv, OrphanInv, Recall, NEW r \in Reqs, CommitWrite(r)
    PROVE  OrphanInv'
<1> USE DEF TypeInv, TypeOK
<1>0. Step(r)
  BY DEF Step
<1>1. OthersStand(r)
  BY <1>0, OneMoves
<1>2. /\ book' = [snap[r] EXCEPT ![Slug(r)] = plan[r]]
      /\ pc[r] = "committing" /\ pc'[r] = "recorded" /\ UNCHANGED <<containers, job>>
  BY DEF CommitWrite, Goto, host, locals
<1>3. r \in Authors /\ Slug(r) \in Rewritten
  BY <1>2 DEF Authors, Rewritten
<1>4. Slug(r) \in Containers => Slug(r) \in Installed'
  BY <1>2, NullAssumption DEF Installed, Book, Slugs
<1>5. \A q \in Reqs \ {r}, s \in Containers : Answers(q, s)' = Answers(q, s)
  BY <1>1 DEF OthersStand, Answers, Slug
<1>6. \A q \in Reqs : Slug(q)' = Slug(q) /\ Op(q)' = Op(q)
  BY <1>2 DEF Slug, Op
<1>7. \A s \in Containers \ {Slug(r)} :
         s \in Installed \cup doubtful => s \in Installed' \cup doubtful'
  BY <1>0, NotDoubtful DEF Installed
<1>8. ContainersAnsweredFor'
  BY <1>2, <1>4, <1>5, <1>7 DEF OrphanInv, ContainersAnsweredFor, AnsweredFor, Answers
<1>9. TakenAnsweredFor'
  <2>1. SUFFICES ASSUME NEW q \in Reqs, pc'[q] = "taken", Slug(q) \in Containers,
                        containers[Slug(q)] # NoContainer, q \notin overtaken'
                 PROVE  AnsweredFor(Slug(q))'
    BY <1>2, <1>6 DEF TakenAnsweredFor
  <2>2. q # r /\ pc[q] = "taken" /\ q \notin Authors
    BY <1>0, <1>1, <1>2, <2>1, OneAuthor DEF OthersStand
  <2>3. GoesByBook(q)'
    BY <1>6, <2>1 DEF GoesByBook
  <2>4. q \notin overtaken /\ \A s \in Rewritten : book'[s] = NoRecord
    BY <1>0, <2>1, <2>2, <2>3, NotOvertaken
  <2>5. Slug(q) # Slug(r)
    BY <1>3, <1>4, <2>1, <2>4 DEF Installed
  <2>6. PICK p \in Reqs : Answers(p, Slug(q))
    BY <2>1, <2>2, <2>4 DEF OrphanInv, TakenAnsweredFor, AnsweredFor
  <2>7. p # r
    BY <2>5, <2>6 DEF Answers
  <2>8. Answers(p, Slug(q))'
    BY <1>1, <1>6, <2>6, <2>7 DEF OthersStand, Answers
  <2> QED
    BY <2>8 DEF AnsweredFor
<1>10. AdoptsServices'
  BY <1>6 DEF OrphanInv, AdoptsServices
<1> QED
  BY <1>8, <1>9, <1>10 DEF OrphanInv

(* A record is dropped only when its container is gone or answered for, or *)
(* by a removal that was overtaken, and then it is in doubt.               *)
LEMMA ForgetOrphan ==
    ASSUME TypeInv, OrphanInv, Recall, NEW r \in Reqs, Forget(r)
    PROVE  OrphanInv'
<1> USE DEF TypeInv, TypeOK
<1>0. Step(r)
  BY DEF Step
<1>1. OthersStand(r)
  BY <1>0, OneMoves
<1>2. /\ UNCHANGED containers
      /\ pc[r] = "taken" /\ pc'[r] \in {"purging", "idle"}
      /\ Op(r)' = "adopt" => Op(r) = "adopt" /\ Slug(r)' = Slug(r)
  BY DEF Forget, host, locals, Leave, Goto, NoJob, Op, Slug
<1>3. \A q \in Reqs \ {r} : pc'[q] = pc[q] /\ Slug(q)' = Slug(q) /\ Op(q)' = Op(q)
  BY <1>1 DEF OthersStand, Slug, Op
<1>4. \A q \in Reqs, s \in Containers : Answers(q, s)' = Answers(q, s)
  BY <1>2, <1>3 DEF Answers
<1>5. \A s \in Containers : AnsweredFor(s)' = AnsweredFor(s)
  BY <1>4 DEF AnsweredFor
<1>6. ContainersAnsweredFor'
  <2>1. SUFFICES ASSUME NEW s \in Containers, containers[s] # NoContainer,
                        ~AnsweredFor(s), s \notin doubtful'
                 PROVE  s \in Installed'
    BY <1>2, <1>5 DEF ContainersAnsweredFor
  <2>2. s \in Installed \cup doubtful
    BY <2>1 DEF OrphanInv, ContainersAnsweredFor
  <2>3. CASE s \notin doubtful /\ book'[s] = book[s]
    BY <2>2, <2>3 DEF Installed
  <2>4. CASE Slug(r) = s /\ r \in Authors /\ r \notin overtaken
    BY <1>2, <2>1, <2>4 DEF OrphanInv, TakenAnsweredFor
  <2> QED
    BY <1>0, <2>1, <2>3, <2>4, NotDoubtful
<1>7. TakenAnsweredFor'
  <2>1. SUFFICES ASSUME NEW q \in Reqs, pc'[q] = "taken", Slug(q)' \in Containers,
                        containers[Slug(q)'] # NoContainer, q \notin overtaken'
                 PROVE  AnsweredFor(Slug(q))'
    BY <1>2 DEF TakenAnsweredFor
  <2>2. q # r /\ pc[q] = "taken" /\ Slug(q)' = Slug(q) /\ q \notin Authors
    BY <1>0, <1>2, <1>3, <2>1, OneAuthor
  <2>3. GoesByBook(q)'
    BY <2>1 DEF GoesByBook
  <2>4. q \notin overtaken
    BY <1>0, <2>1, <2>2, <2>3, NotOvertaken
  <2>5. AnsweredFor(Slug(q))
    BY <2>1, <2>2, <2>4 DEF OrphanInv, TakenAnsweredFor
  <2>6. PICK p \in Reqs : Answers(p, Slug(q))
    BY <2>5 DEF AnsweredFor
  <2>7. Answers(p, Slug(q))'
    BY <1>2, <1>3, <2>2, <2>6 DEF Answers
  <2> QED
    BY <2>7 DEF AnsweredFor
<1>8. AdoptsServices'
  BY <1>2, <1>3 DEF OrphanInv, AdoptsServices
<1> QED
  BY <1>6, <1>7, <1>8 DEF OrphanInv

LEMMA OrphanStep ==
    TypeInv /\ OrphanInv /\ EngineHeeds /\ [HistoryNext]_historyVars => OrphanInv'
<1> SUFFICES ASSUME TypeInv, OrphanInv, EngineHeeds, [HistoryNext]_historyVars
             PROVE  OrphanInv'
  OBVIOUS
<1> USE DEF TypeInv, TypeOK
<1>1. ASSUME Recall, NEW r \in Reqs,
             \/ Ask(r) \/ AskDeps(r) \/ Refuse(r) \/ CheckFlag(r) \/ CheckBook(r)
             \/ Claim(r) \/ WorkFailed(r) \/ Pulled(r) \/ UnitWritten(r) \/ UnitStarted(r)
             \/ Provided(r) \/ DepsWorked(r) \/ Finish(r) \/ Fail(r) \/ RemoveRead(r)
             \/ Purge(r) \/ Hangup(r),
             ~WritesBook(r)
      PROVE  OrphanInv'
  <2>1. Step(r) /\ UNCHANGED containers
    BY <1>1 DEF Step, Ask, AskDeps, Refuse, CheckFlag, CheckBook, Claim, WorkFailed, Pulled,
                UnitWritten, UnitStarted, Provided, DepsWorked, Finish, Fail, RemoveRead,
                Purge, Hangup, files, host
  <2>2. pc[r] \notin {"commit", "committing", "undo"} /\ pc'[r] # "taken"
    BY <1>1 DEF Ask, AskDeps, Refuse, CheckFlag, FlagLabel, CheckBook, BookLabel, Claim,
                WorkFailed, Pulled, UnitWritten, UnitStarted, Provided, DepsWorked, Finish,
                Fail, RemoveRead, Purge, Hangup, Goto, Leave
  <2>3. Op(r)' = "adopt" => Op(r) = "adopt" /\ Slug(r)' = Slug(r)
    <3>1. CASE Leave(r)
      BY <3>1 DEF Leave, NoJob, Op
    <3>2. CASE Ask(r) \/ AskDeps(r)
      BY <3>2 DEF Ask, AskDeps, Op
    <3>3. CASE ~Leave(r) /\ ~(Ask(r) \/ AskDeps(r))
      BY <1>1, <3>3
         DEF Refuse, CheckFlag, CheckBook, Claim, WorkFailed, Pulled, UnitWritten,
             UnitStarted, Provided, DepsWorked, Finish, Fail, RemoveRead, Purge, Hangup,
             locals, Op, Slug
    <3> QED
      BY <3>1, <3>2, <3>3
  <2> QED
    BY <1>1, <2>1, <2>2, <2>3, QuietOrphan DEF Answers, OrphanInv, AdoptsServices
<1>2. ASSUME Recall, NEW r \in Reqs, Adopt(r) \/ CommitRead(r), ~WritesBook(r)
      PROVE  OrphanInv'
  <2>1. /\ Step(r) /\ UNCHANGED containers
        /\ pc'[r] \in {"commit", "committing"}
        /\ Slug(r)' = Slug(r)
        /\ Op(r)' = "adopt" => Slug(r) \in Hosts
    <3>1. CASE Adopt(r)
      BY <3>1 DEF Step, Adopt, host, Goto, Slug, Op
    <3>2. CASE CommitRead(r)
      BY <3>2 DEF Step, CommitRead, host, Goto, Slug, Op, OrphanInv, AdoptsServices
    <3> QED
      BY <1>2, <3>1, <3>2
  <2> QED
    BY <1>2, <2>1, QuietOrphan DEF Answers
<1>3. ASSUME Recall, NEW r \in Reqs, Created(r) \/ CreateFailed(r) \/ Undo(r),
             ~WritesBook(r)
      PROVE  OrphanInv'
  <2>1. /\ Step(r) /\ UNCHANGED job
        /\ \A s \in Containers \ {Slug(r)} : containers'[s] = containers[s]
        /\ pc[r] = "creating" => pc'[r] \in {"commit", "undo"}
        /\ pc[r] = "undo" => containers' = [containers EXCEPT ![Slug(r)] = NoContainer]
        /\ pc[r] \in {"creating", "undo"} /\ pc'[r] # "taken"
    BY <1>3 DEF Step, Created, CreateFailed, Undo, files, locals, Goto, EngineHeeds
  <2> QED
    BY <1>3, <2>1, QuietOrphan DEF Answers, Slug, Op, OrphanInv, AdoptsServices
<1>4. ASSUME Recall, NEW r \in Reqs, CommitFailed(r), ~WritesBook(r) PROVE OrphanInv'
  <2>1. Step(r) /\ UNCHANGED containers /\ pc'[r] # "taken"
    BY <1>4 DEF Step, CommitFailed, host, Leave, Goto
  <2>2. Slug(r) \in Containers => Op(r) # "adopt"
    BY CatalogAssumption DEF OrphanInv, AdoptsServices
  <2>3. /\ \A s \in Containers : Answers(r, s) => Answers(r, s)'
        /\ Op(r)' = "adopt" => Op(r) = "adopt" /\ Slug(r)' = Slug(r)
    BY <1>4, <2>2 DEF CommitFailed, Leave, Goto, NoJob, Answers, Slug, Op, locals
  <2> QED
    BY <1>4, <2>1, <2>3, QuietOrphan DEF OrphanInv, AdoptsServices
<1>5. ASSUME Recall, NEW r \in Reqs, Take(r) \/ Dropped(r), ~WritesBook(r)
      PROVE  OrphanInv'
  <2>1. /\ Step(r)
        /\ \A s \in Containers : containers'[s] # NoContainer => containers[s] # NoContainer
        /\ pc[r] \in {"taking", "dropped"} /\ pc'[r] \in {"taken", "idle"}
        /\ Op(r)' = "adopt" => Op(r) = "adopt" /\ Slug(r)' = Slug(r)
    BY <1>5 DEF Step, Take, Dropped, TakeAway, locals, Leave, Goto, NoJob, Op, Slug
  <2>2. pc'[r] = "taken" /\ Slug(r)' \in Containers => containers'[Slug(r)'] = NoContainer
    <3>1. CASE Take(r)
      BY <3>1, CatalogAssumption DEF Take, TakeAway, EngineHeeds, locals, Slug
    <3>2. CASE Dropped(r)
      BY <3>2 DEF Dropped, Leave
    <3> QED
      BY <1>5, <3>1, <3>2
  <2> QED
    BY <1>5, <2>1, <2>2, QuietOrphan DEF Answers, OrphanInv, AdoptsServices
<1>6. CASE Recall /\ Outside
  <2>1. ~Crash
    BY DEF Crash, EngineHeeds
  <2>2. PICK s \in Containers : Start(s) \/ Stop(s)
    BY <1>6, <2>1 DEF Outside
  <2>3. \A t \in Containers : containers'[t] # NoContainer => containers[t] # NoContainer
    BY <2>2 DEF Start, Stop
  <2>4. /\ UNCHANGED <<book, pc, job>>
        /\ doubtful' = doubtful
        /\ \A q \in overtaken \cap Reqs : GoesByBook(q) => q \in overtaken'
    BY <1>6, <2>1, OutsideRecall DEF locals
  <2>5. ContainersAnsweredFor'
    BY <2>3, <2>4 DEF OrphanInv, ContainersAnsweredFor, AnsweredFor, Answers, Slug, Installed
  <2>6. TakenAnsweredFor'
    BY <2>3, <2>4 DEF OrphanInv, TakenAnsweredFor, AnsweredFor, Answers, Slug, GoesByBook
  <2>7. AdoptsServices'
    BY <2>4 DEF OrphanInv, AdoptsServices, Slug, Op
  <2> QED
    BY <2>5, <2>6, <2>7 DEF OrphanInv
<1>7. CASE UNCHANGED historyVars
  BY <1>7 DEF historyVars, vars, OrphanInv, ContainersAnsweredFor, TakenAnsweredFor,
              AnsweredFor, Answers, AdoptsServices, Slug, Op, Installed
<1> QED
  BY <1>1, <1>2, <1>3, <1>4, <1>5, <1>6, <1>7, CommitWriteOrphan, ForgetOrphan,
     HistoryCases DEF Step, WritesBook

\* A container that nobody is working on is in the book, or its record is in
\* doubt, however many installs and removals run at once and whatever fails but
\* the engine and the daemon: the Apps window shows all that runs under
\* WebDesk's name, unless a write of a stale book hid it.
THEOREM NeverOrphaned ==
    ASSUME EngineHeeds
    PROVE  HistorySpec => []NoOrphan
<1>1. HistoryInit => TypeInv /\ OrphanInv
  BY TypeInit, OrphanInit DEF HistoryInit
<1>2. TypeInv /\ OrphanInv /\ [HistoryNext]_historyVars => (TypeInv /\ OrphanInv)'
  BY TypeStep, HistorySteps, OrphanStep
<1>3. OrphanInv => NoOrphan
  BY DEF OrphanInv, ContainersAnsweredFor, AnsweredFor, Answers, NoOrphan, Busy
<1> QED
  BY <1>1, <1>2, <1>3, PTL DEF HistorySpec

=============================================================================
