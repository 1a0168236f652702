---------------------------- MODULE Publish_proofs --------------------------
(***************************************************************************)
(* Publish reads whole files and implements AtomicFile, however many calls *)
(* are under way together, whatever fails on the disk and whenever a       *)
(* caller dies.  The argument is about the call that has met nobody: it is *)
(* alone between its open and its rename, what it has in hand is named by  *)
(* the temporary name alone, and holds what it put in itself.              *)
(***************************************************************************)
EXTENDS Publish, TLAPS

CallsMatch ==
    \A w \in Caller :
        IF step[w] = "idle" THEN call[w] \in {NotCalling, SaidOk, SaidErr}
                            ELSE \E v \in Values : call[w] = Calling(v)

(* Who is amid has an inode in hand, and nobody else has. *)
InHand == \A w \in Caller : (w \in Amid <=> fd[w] \in Inodes)

(* A call that has met nobody is alone, over the temporary file, which      *)
(* holds what it has put there.                                             *)
Alone ==
    \A w \in Amid \ met :
        /\ \A x \in Amid : x = w
        /\ fd[w] = temp
        /\ step[w] = "fill" => content[temp] = Empty
        /\ step[w] = "rename" => content[temp] = Meant(w)

(* Whoever has met another has, and may yet rename, a spoiled inode only. *)
Together ==
    /\ met \subseteq Amid
    /\ \A w \in met : fd[w] \in spoiled
    /\ met # {} => temp \in spoiled \cup {NoInode}

(* The temporary file is none that anybody reads. *)
TempApart ==
    temp \in Inodes => temp # file /\ \A r \in Onlooker : rfd[r] # temp

IInv ==
    /\ PublishTypeOK
    /\ CallsMatch
    /\ InHand
    /\ Alone
    /\ Together
    /\ TempApart
    /\ ReadsWhole

LEMMA CallsDiffer ==
    /\ NotCalling # SaidOk /\ NotCalling # SaidErr /\ SaidOk # SaidErr
    /\ \A v : Calling(v) \notin {NotCalling, SaidOk, SaidErr}
    /\ \A v : Calling(v).to = v
    /\ \A u, v : Calling(u) = Calling(v) => u = v
<1>1. /\ NotCalling.at = "idle" /\ SaidOk.at = "ok" /\ SaidErr.at = "err"
      /\ \A v : Calling(v).at = "busy" /\ Calling(v).to = v
  BY DEF NotCalling, SaidOk, SaidErr, Calling
<1> QED
  BY <1>1

LEMMA IInit == PublishInit => IInv
  BY PublishAssumption, CallsDiffer
     DEF PublishInit, IInv, PublishTypeOK, Calls, CallsMatch, InHand, Alone, Amid,
         Together, TempApart, ReadsWhole

(* What the open of a call takes in hand is named by nothing that is read. *)
LEMMA OpenTakes ==
    ASSUME IInv, NEW w \in Caller, OpenTemp(w)
    PROVE  \E i \in Inodes :
              /\ i # file /\ \A r \in Onlooker : rfd[r] # i
              /\ temp' = i
              /\ content' = [content EXCEPT ![i] = Empty]
              /\ fd' = [fd EXCEPT ![w] = i]
              /\ Meets(w, i)
<1> USE PublishAssumption DEF IInv, PublishTypeOK
<1>1. CASE temp = NoInode
  <2>1. NewInode \in Inodes /\ Unnamed(NewInode)
    BY <1>1 DEF OpenTemp, NewInode
  <2> QED
    BY <1>1, <2>1 DEF OpenTemp, Unnamed
<1>2. CASE temp \in Inodes
  BY <1>2 DEF OpenTemp, TempApart
<1> QED BY <1>1, <1>2

LEMMA IStep == IInv /\ [PublishNext]_publishVars => IInv'
<1> SUFFICES ASSUME IInv, [PublishNext]_publishVars PROVE IInv'
  OBVIOUS
<1> USE PublishAssumption DEF IInv, PublishTypeOK
<1>0. CASE UNCHANGED publishVars
  BY <1>0 DEF publishVars, CallsMatch, InHand, Alone, Amid, Together, TempApart,
              ReadsWhole, Meant
<1>1. ASSUME NEW w \in Caller, BeginCall(w) PROVE IInv'
  <2>1. PICK v \in Values : call' = [call EXCEPT ![w] = Calling(v)]
    BY <1>1 DEF BeginCall
  <2>2. PublishTypeOK' /\ CallsMatch'
    BY <1>1, <2>1 DEF BeginCall, Calls, CallsMatch
  <2>3. step[w] = "idle"
    BY <1>1, CallsDiffer DEF BeginCall, CallsMatch
  <2>4. Amid' = Amid
    BY <1>1, <2>3 DEF BeginCall, Amid
  <2>5. Alone'
    BY <1>1, <2>1, <2>3, <2>4 DEF BeginCall, Alone, Meant, Amid
  <2> QED
    BY <1>1, <2>2, <2>4, <2>5 DEF BeginCall, InHand, Together, TempApart, ReadsWhole
<1>2. ASSUME NEW w \in Caller, OpenTemp(w) PROVE IInv'
  <2>1. PICK i \in Inodes :
              /\ i # file /\ \A r \in Onlooker : rfd[r] # i
              /\ temp' = i
              /\ content' = [content EXCEPT ![i] = Empty]
              /\ fd' = [fd EXCEPT ![w] = i]
              /\ Meets(w, i)
    BY <1>2, OpenTakes
  <2>2. step[w] = "open" /\ step' = [step EXCEPT ![w] = "fill"]
        /\ UNCHANGED <<file, call, rfd>>
    BY <1>2 DEF OpenTemp
  <2>3. w \notin Amid /\ Amid' = Amid \cup {w}
    BY <2>2 DEF Amid
  <2>4. \A x \in Amid : fd[x] \in Inodes
    BY DEF InHand, Amid
  <2>5. PublishTypeOK' /\ CallsMatch'
    BY <2>1, <2>2, <2>3, <2>4 DEF CallsMatch, Meets, Amid
  <2>6. InHand' /\ TempApart' /\ ReadsWhole'
    BY <2>1, <2>2, <2>3 DEF InHand, TempApart, ReadsWhole, Meets
  <2>7. CASE Amid = {}
    <3>1. met' = {} /\ Amid' = {w}
      BY <2>1, <2>3, <2>7 DEF Meets, Together
    <3>2. Alone' /\ Together'
      BY <2>1, <2>2, <3>1 DEF Alone, Together
    <3> QED BY <2>5, <2>6, <3>2
  <2>8. CASE Amid # {}
    <3>1. met' = Amid' /\ spoiled' = spoiled \cup {i} \cup {fd[x] : x \in Amid}
      BY <2>1, <2>3, <2>8 DEF Meets, Together
    <3>2. \A x \in Amid' : fd'[x] \in spoiled'
      BY <2>1, <2>3, <3>1 DEF Amid
    <3>3. Alone' /\ Together'
      BY <2>1, <3>1, <3>2 DEF Alone, Together
    <3> QED BY <2>5, <2>6, <3>3
  <2> QED BY <2>7, <2>8
<1>3. ASSUME NEW w \in Caller, Fill(w) PROVE IInv'
  <2>1. /\ step[w] = "fill" /\ step' = [step EXCEPT ![w] = "rename"]
        /\ UNCHANGED <<temp, file, call, fd, rfd, met, spoiled>>
    BY <1>3 DEF Fill
  <2>2. w \in Amid /\ Amid' = Amid /\ fd[w] \in Inodes
    BY <2>1 DEF Amid, InHand
  <2>3. Meant(w) \in Values
    BY <2>1, CallsDiffer DEF CallsMatch, Meant
  <2>4. PICK c \in Values \cup {Torn} :
           /\ content' = [content EXCEPT ![fd[w]] = c]
           /\ content[fd[w]] = Empty => c = Meant(w)
    BY <1>3, <2>3 DEF Fill
  <2>5. PublishTypeOK' /\ CallsMatch' /\ InHand' /\ Together' /\ TempApart'
    BY <2>1, <2>2, <2>4 DEF CallsMatch, InHand, Together, TempApart
  <2>6. CASE w \in met
    <3>1. fd[w] \in spoiled /\ \A x \in Amid : x \in met
      BY <2>2, <2>6 DEF Together, Alone
    <3>2. Alone' /\ ReadsWhole'
      BY <2>1, <2>2, <2>4, <3>1 DEF Alone, ReadsWhole
    <3> QED BY <2>5, <3>2
  <2>7. CASE w \notin met
    <3>1. fd[w] = temp /\ content[temp] = Empty /\ Amid = {w}
      BY <2>1, <2>2, <2>7 DEF Alone
    <3>2. Alone' /\ ReadsWhole'
      BY <2>1, <2>2, <2>4, <3>1 DEF Alone, ReadsWhole, TempApart, Meant
    <3> QED BY <2>5, <3>2
  <2> QED BY <2>6, <2>7
<1>4. ASSUME NEW w \in Caller, NEW a \in {SaidOk, SaidErr}, Answers(w, a),
             w \in Amid \/ step[w] = "open",
             content' \in [Inodes -> Values \cup {Empty, Torn}],
             \A i \in Inodes : content'[i] # content[i] => i = fd[w] /\ w \in Amid,
             temp' \in {temp, NoInode},
             temp' # temp => content' = content /\ w \in Amid,
             file' = file \/ (file' = temp /\ temp \in Inodes /\ temp' = NoInode),
             file' # file => w \in Amid /\ step[w] = "rename",
             rfd' = rfd
      PROVE  IInv'
  <2>1. /\ call' = [call EXCEPT ![w] = a]
        /\ step' = [step EXCEPT ![w] = "idle"]
        /\ fd' = [fd EXCEPT ![w] = NoInode]
        /\ met' = met \ {w} /\ spoiled' = spoiled
    BY <1>4 DEF Answers
  <2>2. Amid' = Amid \ {w}
    BY <2>1 DEF Amid
  <2>3. PublishTypeOK' /\ CallsMatch'
    BY <1>4, <2>1 DEF CallsMatch, Calls
  <2>4. InHand' /\ TempApart'
    BY <1>4, <2>1, <2>2 DEF InHand, TempApart
  <2>5. Together'
    BY <1>4, <2>1, <2>2 DEF Together
  <2>6. Alone'
    BY <1>4, <2>1, <2>2 DEF Alone, Meant, Amid
  <2>7. ReadsWhole'
    <3>1. SUFFICES ASSUME NEW i \in Inodes \ spoiled,
                          i = file' \/ \E r \in Onlooker : rfd[r] = i
                   PROVE  content'[i] \in Values
      BY <1>4, <2>1 DEF ReadsWhole
    <3>2. CASE i = file \/ \E r \in Onlooker : rfd[r] = i
      <4>1. content[i] \in Values /\ i # temp
        BY <3>1, <3>2 DEF ReadsWhole, TempApart
      <4>2. w \in Amid => fd[w] # i
        BY <3>1, <4>1 DEF Alone, Together
      <4> QED BY <1>4, <4>1, <4>2
    <3>3. CASE i = temp /\ file' # file
      <4>1. w \in Amid /\ step[w] = "rename" /\ content' = content /\ temp' # temp
        BY <1>4, <3>3
      <4>2. w \notin met
        BY <3>1, <3>3 DEF Together
      <4>3. content[i] = Meant(w)
        BY <3>3, <4>1, <4>2 DEF Alone
      <4>4. Meant(w) \in Values
        BY <4>1, CallsDiffer DEF CallsMatch, Meant
      <4> QED BY <4>1, <4>3, <4>4
    <3> QED BY <1>4, <3>1, <3>2, <3>3
  <2> QED BY <2>3, <2>4, <2>5, <2>6, <2>7
<1>5. ASSUME NEW w \in Caller, FillFails(w) PROVE IInv'
  <2>1. w \in Amid \/ step[w] = "open"
    BY <1>5 DEF FillFails, Amid
  <2>2. fd[w] # NoInode => w \in Amid /\ fd[w] \in Inodes
    BY DEF InHand
  <2>3. /\ content' \in [Inodes -> Values \cup {Empty, Torn}]
        /\ \A i \in Inodes : content'[i] # content[i] => i = fd[w] /\ w \in Amid
    BY <1>5, <2>2 DEF FillFails
  <2> QED BY <1>4, <1>5, <2>1, <2>3 DEF FillFails
<1>6. ASSUME NEW w \in Caller, Rename(w) PROVE IInv'
  <2>1. w \in Amid /\ step[w] = "rename"
    BY <1>6 DEF Rename, Amid
  <2>2. PICK a \in {SaidOk, SaidErr} : Answers(w, a)
    BY <1>6 DEF Rename
  <2>3. \/ temp \in Inodes /\ file' = temp /\ temp' = NoInode
        \/ UNCHANGED <<temp, file>>
    BY <1>6 DEF Rename
  <2>4. content' = content /\ rfd' = rfd
    BY <1>6 DEF Rename
  <2> QED BY <1>4, <2>1, <2>2, <2>3, <2>4
<1>7. ASSUME NEW w \in Caller, EndCall(w) PROVE IInv'
  <2>1. step[w] = "idle"
    BY <1>7, CallsDiffer DEF EndCall, CallsMatch
  <2>2. PublishTypeOK' /\ CallsMatch' /\ Amid' = Amid
    BY <1>7, <2>1 DEF EndCall, Calls, CallsMatch, Amid
  <2>3. Alone'
    BY <1>7, <2>1, <2>2 DEF EndCall, Alone, Amid, Meant
  <2> QED
    BY <1>7, <2>2, <2>3 DEF EndCall, InHand, Together, TempApart, ReadsWhole
<1>8. ASSUME NEW r \in Onlooker, OpenToRead(r) PROVE IInv'
  BY <1>8 DEF OpenToRead, CallsMatch, InHand, Alone, Amid, Together, TempApart,
              ReadsWhole, Meant
<1>9. ASSUME NEW r \in Onlooker, ReadText(r) PROVE IInv'
  BY <1>9 DEF ReadText, CallsMatch, InHand, Alone, Amid, Together, TempApart,
              ReadsWhole, Meant
<1>10. CASE DieWriting
  BY <1>10 DEF DieWriting, Calls, CallsMatch, InHand, Alone, Amid, Together,
               TempApart, ReadsWhole
<1> QED
  BY <1>0, <1>1, <1>2, <1>3, <1>5, <1>6, <1>7, <1>8, <1>9, <1>10 DEF PublishNext

LEMMA Invariant == PublishSpec => []IInv
  BY IInit, IStep, PTL DEF PublishSpec

\* No reader ever sees half of a state file, however many calls write it and
\* however they fail, but in an inode that two calls had in hand together.
THEOREM ReadersSeeWholeFiles == PublishSpec => []ReadsWhole
<1>1. IInv => ReadsWhole
  BY DEF IInv
<1> QED
  BY Invariant, <1>1, PTL

-----------------------------------------------------------------------------
\* Every step of the sequence is a step of a file that is replaced at once,
\* or none that anybody can tell.
LEMMA RefinesInit == PublishInit => Atomic!Init
  BY DEF PublishInit, Atomic!Init, View, NotCalling, Atomic!Idle

(* How a call that has met another may end: with any text in the file. *)
LEMMA Muddled ==
    ASSUME IInv, NEW w \in met, NEW a \in {SaidOk, SaidErr}, Answers(w, a),
           file' = file \/ file' \in Inodes, IInv'
    PROVE  Atomic!Muddle(w)
<1> USE DEF IInv, PublishTypeOK, NotCalling, SaidOk, SaidErr, Atomic!Ok, Atomic!Err
<1>1. View' \in {View} \cup Values \cup {Empty, Torn}
  <2>1. CASE file' = NoInode
    BY <2>1, PublishAssumption DEF View
  <2>2. CASE file' \in Inodes
    BY <2>2, PublishAssumption DEF View
  <2> QED BY <2>1, <2>2
<1> QED
  BY <1>1 DEF Answers, Atomic!Muddle

LEMMA RefinesStep ==
    ASSUME IInv, IInv', [PublishNext]_publishVars
    PROVE  [Atomic!Next]_(Atomic!vars)
<1> USE DEF IInv, PublishTypeOK, NotCalling, SaidOk, SaidErr, Calling,
            Atomic!Idle, Atomic!Ok, Atomic!Err, Atomic!Busy
<1>0. CASE UNCHANGED publishVars
  BY <1>0 DEF publishVars, View, Atomic!vars
<1>1. ASSUME NEW w \in Caller, BeginCall(w) PROVE Atomic!Begin(w)
  BY <1>1 DEF BeginCall, View, Atomic!Begin
<1>2. ASSUME NEW w \in Caller, OpenTemp(w)
      PROVE  Atomic!Meet \/ UNCHANGED Atomic!vars
  <2>1. PICK i \in Inodes :
              /\ i # file
              /\ content' = [content EXCEPT ![i] = Empty]
              /\ Meets(w, i)
    BY <1>2, OpenTakes
  <2>2. View' = View /\ call' = call
    BY <1>2, <2>1 DEF OpenTemp, View
  <2>3. CASE Amid = {}
    BY <2>1, <2>2, <2>3 DEF Meets, Atomic!vars
  <2>4. CASE Amid # {}
    <3> DEFINE S == Amid \cup {w}
    <3>1. S \in SUBSET Caller
      BY DEF Amid
    <3>2. \A x \in S : Atomic!UnderWay(x)
      BY <1>2 DEF OpenTemp, Amid, CallsMatch, Atomic!UnderWay
    <3>3. \E x, y \in S : x # y
      BY <1>2, <2>4 DEF OpenTemp, Amid
    <3>4. met' = met \cup S
      BY <2>1, <2>4 DEF Meets
    <3> HIDE DEF S
    <3> QED BY <2>2, <3>1, <3>2, <3>3, <3>4 DEF Atomic!Meet
  <2> QED BY <2>3, <2>4
<1>3. ASSUME NEW w \in Caller, Fill(w)
      PROVE  Atomic!Mangle \/ UNCHANGED Atomic!vars
  <2>1. w \in Amid /\ fd[w] \in Inodes
        /\ UNCHANGED <<file, call, met>>
        /\ \A i \in Inodes : i # fd[w] => content'[i] = content[i]
    BY <1>3 DEF Fill, Amid, InHand
  <2>2. CASE w \in met /\ file \in Inodes
    <3>1. View' \in Values \cup {Empty, Torn}
      BY <2>1, <2>2, PublishAssumption DEF View
    <3> QED BY <2>1, <2>2, <3>1 DEF Atomic!Mangle
  <2>3. CASE w \notin met
    <3>1. fd[w] # file
      BY <2>1, <2>3 DEF Alone, TempApart
    <3> QED BY <2>1, <3>1 DEF View, Atomic!vars
  <2>4. CASE file = NoInode
    BY <2>1, <2>4 DEF View, Atomic!vars
  <2> QED BY <2>2, <2>3, <2>4
<1>4. ASSUME NEW w \in Caller, FillFails(w) PROVE Atomic!Abort(w) \/ Atomic!Muddle(w)
  <2>1. CASE w \in met
    BY <1>4, <2>1, Muddled DEF FillFails
  <2>2. CASE w \notin met
    <3>1. fd[w] \in Inodes => fd[w] # file
      BY <2>2 DEF Alone, TempApart, InHand
    <3>2. View' = View
      BY <1>4, <3>1, PublishAssumption DEF FillFails, View
    <3>3. Atomic!UnderWay(w)
      BY <1>4 DEF FillFails, CallsMatch, Atomic!UnderWay
    <3>4. met' = met
      BY <1>4, <2>2 DEF FillFails, Answers
    <3> QED
      BY <1>4, <2>2, <3>2, <3>3, <3>4 DEF FillFails, Answers, Atomic!Abort
  <2> QED BY <2>1, <2>2
<1>5. ASSUME NEW w \in Caller, Rename(w)
      PROVE  Atomic!Commit(w) \/ Atomic!Abort(w) \/ Atomic!Muddle(w)
  <2>1. CASE w \in met
    BY <1>5, <2>1, Muddled DEF Rename
  <2>2. CASE w \notin met
    <3>1. PICK v \in Values : call[w] = Calling(v)
      BY <1>5 DEF Rename, CallsMatch
    <3>2. w \in Amid
      BY <1>5 DEF Rename, Amid
    <3>3. temp \in Inodes /\ content[temp] = v
      BY <1>5, <2>2, <3>1, <3>2 DEF Rename, Alone, InHand, Meant
    <3>4. met' = met
      BY <1>5, <2>2 DEF Rename, Answers
    <3>5. CASE file' = temp /\ Answers(w, SaidOk)
      <4>1. View' = v
        BY <1>5, <3>3, <3>5, PublishAssumption DEF Rename, View
      <4> QED
        BY <2>2, <3>1, <3>4, <3>5, <4>1 DEF Answers, Atomic!Commit
    <3>6. CASE UNCHANGED <<temp, file>> /\ Answers(w, SaidErr)
      <4>1. View' = View
        BY <1>5, <3>6 DEF Rename, View
      <4> QED
        BY <2>2, <3>1, <3>4, <3>6, <4>1 DEF Answers, Atomic!Abort, Atomic!UnderWay
    <3> QED BY <1>5, <3>5, <3>6 DEF Rename
  <2> QED BY <2>1, <2>2
<1>6. ASSUME NEW w \in Caller, EndCall(w) PROVE Atomic!Return(w)
  BY <1>6 DEF EndCall, View, Atomic!Return
<1>7. ASSUME NEW r \in Onlooker, OpenToRead(r) \/ ReadText(r)
      PROVE  UNCHANGED Atomic!vars
  BY <1>7 DEF OpenToRead, ReadText, View, Atomic!vars
<1>8. ASSUME DieWriting PROVE Atomic!Crash
  BY <1>8 DEF DieWriting, View, Atomic!Crash
<1> QED
  BY <1>0, <1>1, <1>2, <1>3, <1>4, <1>5, <1>6, <1>7, <1>8 DEF PublishNext, Atomic!Next

\* A state file is replaced in one step, and every caller is told the truth
\* about whether it was, but for calls that met at the temporary file: and
\* what they leave, the next call of its own repairs.
THEOREM PublishImplementsAtomicFile == PublishSpec => ImplementsAtomicFile
<1>1. IInv /\ IInv' /\ [PublishNext]_publishVars => [Atomic!Next]_(Atomic!vars)
  BY RefinesStep
<1> QED
  BY Invariant, RefinesInit, <1>1, PTL
     DEF PublishSpec, Atomic!Spec, ImplementsAtomicFile

=============================================================================
