------------------------------- MODULE Publish ------------------------------
(***************************************************************************)
(* How the daemon and its updater replace a state file: apps.json,         *)
(* apps.status and update.status are each written to a temporary file of   *)
(* one fixed name beside them, which is then renamed over them.            *)
(*                                                                         *)
(* A directory entry points at an inode, and so does every descriptor that *)
(* is open: truncating the temporary file empties the inode it names, for  *)
(* everybody who has it open, and renaming moves the entry and nothing     *)
(* else.  The code holds no lock around the sequence, so calls may be at   *)
(* it together; met and spoiled are history, and say which calls have been *)
(* between their open and their rename together, and which inodes such     *)
(* calls have had in hand.                                                 *)
(***************************************************************************)
CONSTANTS
    Caller,      \* handlers, tasks and processes that may write the file
    Onlooker,    \* those that may read it
    Values,      \* whole contents
    Inodes,
    NoInode, NoFile, Empty, Torn,
    PublishFaults   \* subset of {"disk", "crash"}

ASSUME PublishAssumption ==
    /\ NoInode \notin Inodes
    /\ {NoFile, Empty, Torn} \cap Values = {}

VARIABLES
    temp,        \* the inode that the temporary name points at
    file,        \* the inode that the file's own name points at
    content,     \* what each inode holds
    call,        \* of each caller: no call, a call under way, or its answer
    fd,          \* the inode each caller has open, or has just closed
    step,        \* how far each caller has got
    rfd,         \* the inode each onlooker has open
    met,         \* history: the callers whose call has met another
    spoiled      \* history: the inodes that calls that met have had in hand

publishVars == <<temp, file, content, call, fd, step, rfd, met, spoiled>>

NotCalling == [at |-> "idle"]
Calling(v) == [at |-> "busy", to |-> v]
SaidOk == [at |-> "ok"]
SaidErr == [at |-> "err"]
Calls == {NotCalling, SaidOk, SaidErr} \cup {Calling(v) : v \in Values}

PublishTypeOK ==
    /\ temp \in Inodes \cup {NoInode}
    /\ file \in Inodes \cup {NoInode}
    /\ content \in [Inodes -> Values \cup {Empty, Torn}]
    /\ call \in [Caller -> Calls]
    /\ fd \in [Caller -> Inodes \cup {NoInode}]
    /\ step \in [Caller -> {"idle", "open", "fill", "rename"}]
    /\ rfd \in [Onlooker -> Inodes \cup {NoInode}]
    /\ met \subseteq Caller
    /\ spoiled \subseteq Inodes

PublishInit ==
    /\ temp = NoInode
    /\ file = NoInode
    /\ content = [i \in Inodes |-> Empty]
    /\ call = [w \in Caller |-> NotCalling]
    /\ fd = [w \in Caller |-> NoInode]
    /\ step = [w \in Caller |-> "idle"]
    /\ rfd = [r \in Onlooker |-> NoInode]
    /\ met = {}
    /\ spoiled = {}

\* An inode nothing points at is given to a new file.
Unnamed(i) ==
    /\ i \notin {temp, file}
    /\ \A w \in Caller : fd[w] # i
    /\ \A r \in Onlooker : rfd[r] # i
NewInode == CHOOSE i \in Inodes : Unnamed(i)

Meant(w) == call[w].to

\* The callers that are between their open and their rename.
Amid == {w \in Caller : step[w] \in {"fill", "rename"}}

\* History of an open: whoever else is amid has met this call, and what they
\* have in hand is spoiled; a call that is there alone starts clean.
Meets(w, i) ==
    /\ met' = IF Amid = {} THEN met ELSE met \cup Amid \cup {w}
    /\ spoiled' = IF Amid = {}
                  THEN spoiled \ {i}
                  ELSE spoiled \cup {i} \cup {fd[x] : x \in Amid}

Answers(w, a) ==
    /\ call' = [call EXCEPT ![w] = a]
    /\ step' = [step EXCEPT ![w] = "idle"]
    /\ fd' = [fd EXCEPT ![w] = NoInode]
    /\ met' = met \ {w}
    /\ UNCHANGED spoiled

-----------------------------------------------------------------------------
BeginCall(w) ==
    /\ call[w] = NotCalling
    /\ \E v \in Values : call' = [call EXCEPT ![w] = Calling(v)]
    /\ step' = [step EXCEPT ![w] = "open"]
    /\ UNCHANGED <<temp, file, content, fd, rfd, met, spoiled>>

\* Mutant: the file itself is opened and truncated.
OpenInPlace(w) ==
    /\ step[w] = "open"
    /\ LET i == IF file = NoInode THEN NewInode ELSE file IN
          /\ file' = i
          /\ temp' = i
          /\ content' = [content EXCEPT ![i] = Empty]
          /\ fd' = [fd EXCEPT ![w] = i]
          /\ Meets(w, i)
    /\ step' = [step EXCEPT ![w] = "fill"]
    /\ UNCHANGED <<call, rfd>>

\* The first half of std::fs::write: create the temporary file, or truncate
\* the one that is there, whoever left it or is still writing to it.
OpenTemp(w) ==
    /\ step[w] = "open"
    /\ temp = NoInode => \E i \in Inodes : Unnamed(i)
    /\ LET i == IF temp = NoInode THEN NewInode ELSE temp IN
          /\ temp' = i
          /\ content' = [content EXCEPT ![i] = Empty]
          /\ fd' = [fd EXCEPT ![w] = i]
          /\ Meets(w, i)
    /\ step' = [step EXCEPT ![w] = "fill"]
    /\ UNCHANGED <<file, call, rfd>>

\* The second half.  Over an inode somebody else has written since it was
\* truncated, the longer text shows past the end of the shorter.
Fill(w) ==
    /\ step[w] = "fill"
    /\ \E c \in {Meant(w)} \cup (IF content[fd[w]] = Empty THEN {} ELSE {Torn}) :
          content' = [content EXCEPT ![fd[w]] = c]
    /\ step' = [step EXCEPT ![w] = "rename"]
    /\ UNCHANGED <<temp, file, call, fd, rfd, met, spoiled>>

\* Either half fails, and the temporary file is left as it is.
FillFails(w) ==
    /\ "disk" \in PublishFaults
    /\ step[w] \in {"open", "fill"}
    /\ content' = IF fd[w] = NoInode
                  THEN content ELSE [content EXCEPT ![fd[w]] = Torn]
    /\ Answers(w, SaidErr)
    /\ UNCHANGED <<temp, file, rfd>>

\* Mutant: the answer of rename is not looked at.
RenameUnchecked(w) ==
    /\ step[w] = "rename"
    /\ \/ temp # NoInode /\ file' = temp /\ temp' = NoInode
       \/ "disk" \in PublishFaults /\ UNCHANGED <<temp, file>>
    /\ Answers(w, SaidOk)
    /\ UNCHANGED <<content, rfd>>

\* rename moves whatever the temporary name points at by now; if another
\* caller has moved it already there is nothing to move.
Rename(w) ==
    /\ step[w] = "rename"
    /\ \/ /\ temp # NoInode
          /\ file' = temp
          /\ temp' = NoInode
          /\ Answers(w, SaidOk)
       \/ /\ temp = NoInode \/ "disk" \in PublishFaults
          /\ Answers(w, SaidErr)
          /\ UNCHANGED <<temp, file>>
    /\ UNCHANGED <<content, rfd>>

EndCall(w) ==
    /\ call[w] \in {SaidOk, SaidErr}
    /\ call' = [call EXCEPT ![w] = NotCalling]
    /\ UNCHANGED <<temp, file, content, fd, step, rfd, met, spoiled>>

\* The process dies; both files stay as they are.
DieWriting ==
    /\ "crash" \in PublishFaults
    /\ call' = [w \in Caller |-> NotCalling]
    /\ fd' = [w \in Caller |-> NoInode]
    /\ step' = [w \in Caller |-> "idle"]
    /\ met' = {}
    /\ UNCHANGED <<temp, file, content, rfd, spoiled>>

\* read_to_string: open what the name points at, then read it.
OpenToRead(r) ==
    /\ rfd[r] = NoInode
    /\ rfd' = [rfd EXCEPT ![r] = file]
    /\ UNCHANGED <<temp, file, content, call, fd, step, met, spoiled>>

ReadText(r) ==
    /\ rfd[r] # NoInode
    /\ rfd' = [rfd EXCEPT ![r] = NoInode]
    /\ UNCHANGED <<temp, file, content, call, fd, step, met, spoiled>>

PublishNext ==
    \/ \E w \in Caller : \/ BeginCall(w) \/ OpenTemp(w) \/ Fill(w) \/ FillFails(w)
                         \/ Rename(w) \/ EndCall(w)
    \/ \E r \in Onlooker : OpenToRead(r) \/ ReadText(r)
    \/ DieWriting

PublishSpec == PublishInit /\ [][PublishNext]_publishVars

-----------------------------------------------------------------------------
\* Nobody reads half a file (apps.rs:278, update.rs:152): what is there to
\* read, for whoever opens the file next and for whoever has one of its
\* inodes open, is a text that some caller meant as a whole, however calls
\* fail and die.  The one exception is an inode that two calls had in hand
\* together, and the next file to be written by a call of its own ends it.
ReadsWhole ==
    \A i \in Inodes \ spoiled :
        i = file \/ (\E r \in Onlooker : rfd[r] = i) => content[i] \in Values

\* The file behaves as one that is replaced in a single step, and a caller is
\* told the truth about whether its text is the one that is read: this is
\* what lets install undo the container whose record "could not be recorded".
\* Only calls that met one another at the temporary file are owed less, and
\* only until they have answered.
View == IF file = NoInode THEN NoFile ELSE content[file]
Atomic == INSTANCE AtomicFile WITH value <- View, Mangled <- {Empty, Torn}
ImplementsAtomicFile == Atomic!Spec

=============================================================================
