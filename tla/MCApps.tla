------------------------------- MODULE MCApps -------------------------------
(***************************************************************************)
(* Instances of Apps for TLC.  One of them checks a liveness property, so  *)
(* no symmetry is declared.                                                *)
(***************************************************************************)
EXTENDS Apps

OnePort == {1}
MCHostPort == [h \in Hosts |-> 9]

\* FairSpec without the steps that take a crash, a browser that leaves or a
\* disk that fails: with no fault but "engine" they have no occasion.
RacedNext ==
    \/ \E r \in Reqs :
          \/ Ask(r) \/ AskDeps(r) \/ Refuse(r)
          \/ CheckFlag(r) \/ CheckBook(r) \/ Claim(r) \/ Adopt(r)
          \/ WorkFailed(r) \/ Pulled(r) \/ Created(r) \/ CreateFailed(r)
          \/ UnitWritten(r) \/ UnitStarted(r) \/ Provided(r) \/ DepsWorked(r)
          \/ CommitRead(r) \/ CommitWrite(r) \/ Undo(r) \/ Finish(r) \/ Fail(r)
          \/ RemoveRead(r) \/ Take(r) \/ Forget(r) \/ Purge(r)
    \/ \E s \in Containers : Start(s) \/ Stop(s)

RacedSpec ==
    /\ Init
    /\ [][RacedNext]_vars
    /\ \A r \in Reqs : WF_vars(Handler(r) \/ Task(r))
=============================================================================
