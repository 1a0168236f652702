---------------------------- MODULE Parts_proofs ----------------------------
(***************************************************************************)
(* Proofs about the instance that has the parts of the desk side by side:  *)
(* it is an instance of each of them, so that what is proved of a part     *)
(* holds in it, and a counterexample to it is one to the part.             *)
(***************************************************************************)
EXTENDS MCParts, Web_proofs, Host_proofs

(* A step of the instance is one of the part on stage. *)
LEMMA StepsOfParts ==
    ASSUME PartsNext
    PROVE  \/ Next /\ On("update", TRUE)
           \/ TerminalNext /\ On("terminal", TRUE)
           \/ RelayNext /\ On("relay", TRUE)
           \/ ProxyNext /\ On("proxy", TRUE)
           \/ CertificateNext /\ On("certificate", TRUE)
           \/ FramesNext /\ On("frames", TRUE)
           \/ SampleNext /\ On("sample", TRUE)
           \/ UnitsNext /\ On("units", TRUE)
           \/ ProvisionNext /\ On("provision", TRUE)
<1>1. CASE UpdateSteps
  BY <1>1 DEF UpdateSteps, On, Next, Apply, Run
<1>2. CASE TerminalSteps
  BY <1>2 DEF TerminalSteps, On, TerminalNext, HandlerStep, ReaderStep, PumpStep
<1>3. CASE RelaySteps
  BY <1>3 DEF RelaySteps, On, RelayNext, ToApp, ToBrowser
<1>4. CASE ProxySteps
  BY <1>4 DEF ProxySteps, On, ProxyNext, Serve
<1>5. CASE CertificateSteps
  BY <1>5 DEF CertificateSteps, On, CertificateNext
<1>6. CASE BridgeSteps
  BY <1>6 DEF BridgeSteps, On, FramesNext, SampleNext, UnitsNext
<1>7. CASE ProvisionSteps
  BY <1>7 DEF ProvisionSteps, On, ProvisionNext
<1> QED BY <1>1, <1>2, <1>3, <1>4, <1>5, <1>6, <1>7 DEF PartsNext

(* What a step of the instance is to each part: a step of its own, or none. *)
LEMMA StepOfEach ==
    ASSUME [PartsNext]_partsVars
    PROVE  /\ [Next]_vars
           /\ [TerminalNext]_terminalVars
           /\ [RelayNext]_relayVars
           /\ [ProxyNext]_proxyVars
           /\ [CertificateNext]_certificateVars
           /\ [FramesNext]_framesVars
           /\ [SampleNext]_sampleVars
           /\ [UnitsNext]_unitsVars
           /\ [ProvisionNext]_provisionVars
<1>1. CASE UNCHANGED partsVars
  BY <1>1 DEF partsVars
<1>2. CASE PartsNext
  BY <1>2, StepsOfParts DEF On
<1> QED BY <1>1, <1>2

(* The instance with the parts side by side is an instance of each of them. *)
(* Nothing that is found of a part in it is owed to another, and what is    *)
(* proved of a part, of the code of that part alone, is true in it.         *)
THEOREM EachPartIsItself ==
    PartsSpec => /\ Spec /\ TerminalSpec /\ RelaySpec /\ ProxySpec
                 /\ CertificateSpec /\ FramesSpec /\ SampleSpec
                 /\ UnitsSpec /\ ProvisionSpec
<1>1. PartsInit => /\ Init /\ TerminalInit /\ RelayInit /\ ProxyInit
                   /\ CertificateInit /\ FramesInit /\ SampleInit
                   /\ UnitsInit /\ ProvisionInit
  BY DEF PartsInit
<1> QED
  BY <1>1, StepOfEach, PTL
  DEF PartsSpec, Spec, TerminalSpec, RelaySpec, ProxySpec, CertificateSpec,
      FramesSpec, SampleSpec, UnitsSpec, ProvisionSpec

(* Every part keeps its types, whatever order of messages, faults and ends  *)
(* it meets and however many of anything there are.                         *)
THEOREM PartsHaveTypes == PartsSpec => []PartsTypeOK
<1>1. TypeOK /\ CertificateTypeOK /\ ProxyTypeOK /\ TerminalTypeOK /\ RelayTypeOK
      /\ FramesTypeOK /\ SampleTypeOK => PartsTypeOK
  BY DEF PartsTypeOK
<1> QED
  BY <1>1, EachPartIsItself, UpdateTypes, CertificateTypes, ProxyTypes,
     TerminalHasTypes, RelayHasTypes, FramesHaveTypes, SampleHasTypes, PTL
=============================================================================
