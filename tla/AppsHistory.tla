----------------------------- MODULE AppsHistory ----------------------------
(***************************************************************************)
(* Apps with a history of the requests that got in each other's way.       *)
(*                                                                         *)
(* Nothing in the code keeps two requests apart: the flag is looked at and *)
(* later claimed, the book is read and later written back.  So what the    *)
(* manager promises is said of requests that may always overlap, and the   *)
(* three history variables, which no action of Apps reads, say which of    *)
(* them did.                                                               *)
(*  - crossed: since the manager was last at rest, two requests have       *)
(*    looked at the flag before either had claimed it, or a claim could    *)
(*    not be written.                                                      *)
(*  - overtaken: the requests about a container app that go by a book they *)
(*    have read, and somebody else has put a record into it since.         *)
(*  - doubtful: the container apps whose record was last written, or       *)
(*    dropped, by a request that had been overtaken or that was about      *)
(*    another app.                                                         *)
(***************************************************************************)
EXTENDS Apps

VARIABLES crossed, overtaken, doubtful

historyVars == <<vars, crossed, overtaken, doubtful>>

HistoryTypeOK ==
    /\ crossed \in BOOLEAN
    /\ overtaken \subseteq Reqs
    /\ doubtful \subseteq Containers

\* A request that has looked at the flag and has not claimed it yet.  The
\* adoption of a service never claims it, though it writes the last word to it.
Looking(r) ==
    \/ pc[r] = "half" /\ Slug(r) \in Containers
    \/ pc[r] = "checked"
    \/ Op(r) = "adopt"

AtRest == \A r \in Reqs : ~Looking(r) /\ ~Holds(r)
Crossing == \E q, r \in Reqs : q # r /\ Looking(q) /\ Looking(r)
ClaimLost ==
    \E r \in Reqs : /\ pc[r] = "checked" /\ pc'[r] = "working"
                     /\ status' # [state |-> "running", by |-> r]

\* A request about a container app that has read the book and has something
\* to do about it yet.
GoesByBook(r) ==
    /\ Slug(r) \in Containers
    /\ pc[r] \notin {"idle", "asked", "half", "recorded", "failing", "dropped"}

\* The request that writes the book in this step, and the records it writes.
Authors ==
    {r \in Reqs :
        \/ pc[r] = "committing" /\ pc'[r] = "recorded"
        \/ pc[r] = "taken" /\ pc'[r] # "taken" /\ (book' # book \/ pc'[r] = "purging")}
Rewritten == {Slug(r) : r \in Authors} \cup {s \in Slugs : book'[s] # book[s]}

Recall ==
    /\ crossed' = (~AtRest' /\ (crossed \/ Crossing' \/ ClaimLost))
    /\ overtaken' =
          {r \in Reqs \ Authors :
              /\ GoesByBook(r)'
              /\ r \in overtaken \/ \E s \in Rewritten : book'[s] # NoRecord}
    /\ doubtful' = (doubtful \cup (Rewritten \cap Containers))
                       \ {Slug(r) : r \in Authors \ overtaken}

HistoryInit ==
    /\ Init
    /\ crossed = FALSE
    /\ overtaken = {}
    /\ doubtful = {}

\* The next-state relation of Apps, with the history of each step.
Noted(Step) == Step /\ Recall

HistoryNext ==
    \/ \E r \in Reqs :
          \/ Noted(Ask(r)) \/ Noted(AskDeps(r))
          \/ Noted(Handler(r)) \/ Noted(Task(r)) \/ Noted(Hangup(r))
    \/ \E s \in Containers : Noted(Start(s)) \/ Noted(Stop(s))
    \/ Noted(Crash)

HistorySpec == HistoryInit /\ [][HistoryNext]_historyVars

-----------------------------------------------------------------------------
\* Installs are one at a time, host-wide (README.md:1286), as far as the flag
\* can keep them so: no two requests are past their claim together, whatever
\* kinds of install they are and whatever has failed, crashed or been removed,
\* unless two of them looked before either had claimed (apps.rs:1714, 1918;
\* deps.rs:832-835) or the disk would not take a claim.  Once the last of those
\* is over the promise is whole again.
WorksAlone == \A q, r \in Reqs : Holds(q) /\ Holds(r) /\ q # r => crossed

\* No two container records share a loopback port, so the proxy never shows
\* one app under the name of another: not even when requests write back books
\* they read long before.  Where two do, one of the records is the work of a
\* request that was overtaken, or that was about another app.
PortsDistinct ==
    \A s, t \in Containers \cap Installed :
        book[s].port = book[t].port => s = t \/ {s, t} \cap doubtful # {}

\* Somebody is in the middle of installing or removing s.
Busy(s) == \E r \in Reqs : Slug(r) = s /\ pc[r] \notin {"idle", "asked", "half"}

\* A container no request is working on is in the book: nothing runs on the
\* engine under WebDesk's name that the Apps window cannot show or remove.  A
\* record can be lost only to a write of a book that was out of date.
NoOrphan ==
    \A s \in Containers :
        containers[s] # NoContainer /\ ~Busy(s) => s \in Installed \cup doubtful

\* A container in the book is deleted by a removal of that app only: the
\* clean-up after a failed install (apps.rs:1976) hits an app that is installed
\* only if that app was recorded while the install was at work.
OnlyRemovalDeletes ==
    [][\A s \in Containers :
          /\ s \in Installed
          /\ containers[s] # NoContainer
          /\ containers'[s] = NoContainer
          => \E r \in Reqs : Slug(r) = s /\ (Op(r) = "remove" \/ r \in overtaken)]_historyVars

\* The directory of an app that is installed is deleted only if the app came
\* back while its removal was at work, between the record and the purge
\* (apps.rs:2656-2670): never by a removal that has not taken the record away,
\* could not, or lost its browser.
PurgeSparesInstalled ==
    [][\A s \in Containers \cap Installed :
          s \in appdata /\ s \notin appdata' =>
              \E r \in overtaken : Slug(r) = s /\ pc[r] = "purging"]_historyVars

=============================================================================
