------------------------------ MODULE MCUpdate ------------------------------
(***************************************************************************)
(* Updates asked for in the browser, and the file their status is kept in, *)
(* in one instance for TLC: a behaviour is about the one or the other.     *)
(* SelfUpdate takes a write of the status to be one step, which is what    *)
(* Publish is about.  Updates by hand, which may be killed, are in MCParts.*)
(***************************************************************************)
EXTENDS SelfUpdate, Publish

VARIABLE stage

updateVars == <<stage, vars, publishVars>>

UpdateInit == stage \in {"update", "file"} /\ Init /\ PublishInit

Updating(Step) == stage = "update" /\ UNCHANGED <<stage, publishVars>> /\ Step
Publishing(Step) == stage = "file" /\ UNCHANGED <<stage, vars>> /\ Step

\* Next without the steps that take more than a browser: with neither "hand"
\* among the overlaps nor a fault but "launch" they have no occasion.
WebSteps ==
    \/ \E h \in Handlers :
          Updating(Check(h)) \/ Updating(Claim(h)) \/ Updating(Launch(h)) \/ Updating(Refused(h))
    \/ \E s \in Scripts :
          \/ Updating(Enter(s)) \/ Updating(Begin(s)) \/ Updating(Prepared(s))
          \/ Updating(Installed(s)) \/ Updating(Provisioned(s)) \/ Updating(Finish(s))
          \/ Updating(Fail(s)) \/ Updating(Leave(s)) \/ Updating(Collect(s))

FileSteps ==
    \/ \E w \in Caller :
          \/ Publishing(BeginCall(w)) \/ Publishing(OpenTemp(w)) \/ Publishing(Fill(w))
          \/ Publishing(FillFails(w)) \/ Publishing(Rename(w)) \/ Publishing(EndCall(w))
    \/ \E r \in Onlooker : Publishing(OpenToRead(r)) \/ Publishing(ReadText(r))
    \/ Publishing(DieWriting)

UpdateSpec ==
    /\ UpdateInit
    /\ [][WebSteps \/ FileSteps]_updateVars
    /\ \A h \in Handlers : WF_vars(Apply(h))
    /\ \A s \in Scripts : WF_vars(Run(s))
=============================================================================
