------------------------------- MODULE MCParts ------------------------------
(***************************************************************************)
(* The parts of the desk that share no state with one another, in one      *)
(* instance for TLC: what a step of one does cannot depend on another, so  *)
(* a behaviour is about one part, the one on stage, and the others stay as *)
(* they began.  The parts asked for an end keep the fairness they state.   *)
(***************************************************************************)
EXTENDS SelfUpdate, Terminal, Relay, Proxy, Certificate, Frames, Sample, Units, Provision

VARIABLE stage

partsVars ==
    <<stage, vars, terminalVars, relayVars, proxyVars, certificateVars, framesVars,
      sampleVars, unitsVars, provisionVars>>

PartsInit ==
    /\ stage \in {"update", "terminal", "relay", "proxy", "certificate",
                  "frames", "sample", "units", "provision"}
    /\ TerminalInit /\ RelayInit /\ ProxyInit
    /\ FramesInit /\ SampleInit /\ UnitsInit
    /\ Init /\ CertificateInit /\ ProvisionInit

\* A step of the part on stage.
On(part, Step) ==
    /\ stage = part /\ UNCHANGED stage
    /\ Step
    /\ part # "update" => UNCHANGED vars
    /\ part # "terminal" => UNCHANGED terminalVars
    /\ part # "relay" => UNCHANGED relayVars
    /\ part # "proxy" => UNCHANGED proxyVars
    /\ part # "certificate" => UNCHANGED certificateVars
    /\ part # "frames" => UNCHANGED framesVars
    /\ part # "sample" => UNCHANGED sampleVars
    /\ part # "units" => UNCHANGED unitsVars
    /\ part # "provision" => UNCHANGED provisionVars

\* The next-state relations of the parts, an alternative at a time, so that TLC
\* counts the steps of each.
UpdateSteps ==
    \/ \E h \in Handlers :
          \/ On("update", Check(h)) \/ On("update", Claim(h))
          \/ On("update", Launch(h)) \/ On("update", Refused(h))
    \/ \E s \in Scripts :
          \/ On("update", ByHand(s)) \/ On("update", Collect(s))
          \/ On("update", Enter(s)) \/ On("update", Begin(s))
          \/ On("update", Prepared(s)) \/ On("update", Installed(s))
          \/ On("update", Provisioned(s)) \/ On("update", Finish(s))
          \/ On("update", Fail(s)) \/ On("update", Leave(s))
          \/ On("update", DieEarly(s)) \/ On("update", Kill(s))
    \/ On("update", Crash) \/ On("update", Power)

TerminalSteps ==
    \/ On("terminal", OpenTerminal) \/ On("terminal", Type)
    \/ On("terminal", LeaveTerminal) \/ On("terminal", AnswerFarewell)
    \/ On("terminal", Take) \/ On("terminal", Write) \/ On("terminal", SeeGone)
    \/ On("terminal", KillShell) \/ On("terminal", AbortPump)
    \/ On("terminal", ReadChunk) \/ On("terminal", SendChunk) \/ On("terminal", EndReader)
    \/ On("terminal", ForwardChunk) \/ On("terminal", Farewell)
    \/ On("terminal", ForwardFails)
    \/ On("terminal", ShellReads) \/ On("terminal", ShellPrints)
    \/ On("terminal", ShellExits) \/ On("terminal", JobStarts) \/ On("terminal", JobEnds)

RelaySteps ==
    \/ On("relay", OpenRelay) \/ On("relay", Send) \/ On("relay", See)
    \/ On("relay", LeaveRelay) \/ On("relay", TakeMessage)
    \/ On("relay", SeeViewerGone) \/ On("relay", WriteOn)
    \/ On("relay", ReadPicture) \/ On("relay", SeeServerGone) \/ On("relay", SendOn)
    \/ On("relay", SayGoodbye) \/ On("relay", Select)
    \/ On("relay", Obey) \/ On("relay", Draw) \/ On("relay", ServerGoes)

ProxySteps ==
    \/ On("proxy", SignIn) \/ On("proxy", SignOut) \/ On("proxy", Manage)
    \/ On("proxy", Visit) \/ On("proxy", Handle) \/ On("proxy", Forward)
    \/ On("proxy", Relay) \/ On("proxy", Show)

CertificateSteps ==
    \/ On("certificate", Start) \/ On("certificate", MakeDirectory)
    \/ On("certificate", EmptyCert) \/ On("certificate", WriteCert)
    \/ On("certificate", EmptyKey) \/ On("certificate", WriteKey)
    \/ On("certificate", Stop) \/ On("certificate", KillDaemon)

BridgeSteps ==
    \/ On("frames", StartReading) \/ On("frames", BridgeWrites)
    \/ On("frames", ReadBytes) \/ On("frames", DecodeFails)
    \/ On("frames", DecodeFrame) \/ On("frames", NeedMore)
    \/ On("sample", Describe) \/ On("sample", SendRow) \/ On("sample", SendOther)
    \/ On("sample", TakeStray) \/ On("sample", TakeMeta) \/ On("sample", TakeRow)
    \/ On("sample", TakeClose) \/ On("sample", Deadline)
    \/ On("units", AskUnits) \/ On("units", HostMoves) \/ On("units", ListUnits)
    \/ On("units", ListUnitFiles) \/ On("units", Act)

ProvisionSteps ==
    \/ On("provision", SetUp) \/ On("provision", ChangeByHand)
    \/ On("provision", Look) \/ On("provision", Press)
    \/ On("provision", PlanAgain) \/ On("provision", InstallPackages)
    \/ On("provision", CheckEngine) \/ On("provision", CountContainers)
    \/ On("provision", RemovePodman) \/ On("provision", RemovePackage)

PartsNext ==
    \/ UpdateSteps \/ TerminalSteps \/ RelaySteps \/ ProxySteps
    \/ CertificateSteps \/ BridgeSteps \/ ProvisionSteps

PartsSpec ==
    /\ PartsInit /\ [][PartsNext]_partsVars
    /\ TerminalFairness /\ RelayFairness /\ ProxyFairness

-----------------------------------------------------------------------------
\* Every part keeps its types, whatever order of messages, faults and ends it
\* meets.
PartsTypeOK ==
    /\ TypeOK /\ CertificateTypeOK /\ ProxyTypeOK
    /\ TerminalTypeOK /\ RelayTypeOK
    /\ FramesTypeOK /\ SampleTypeOK
=============================================================================
