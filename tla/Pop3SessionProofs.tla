------------------------- MODULE Pop3SessionProofs -------------------------
(***************************************************************************)
(* Proofs about Pop3Session, for every value of the constants that        *)
(* satisfies ConstantsAssumption: the type invariant, and that the replies *)
(* of a session and its phase stay consistent with its deletion marks and  *)
(* its login (AuthBeforeTransaction, ReplyConsistent).                     *)
(***************************************************************************)
EXTENDS Pop3Session, FiniteSetTheorems, TLAPS

(***************************************************************************)
(* The marks of a session are indices into its snapshot: DELE checks       *)
(* 0 <= index < len(self.messages), and the snapshot is taken (Accept)     *)
(* before any mark exists.                                                 *)
(***************************************************************************)
MarksInSnapshot ==
    \A s \in Session :
        /\ deleted[s] \subseteq 0..Len(messages[s]) - 1
        /\ stage[s] = "new" => deleted[s] = {} /\ reply[s] = NoReply

(***************************************************************************)
(* What the inductive invariant says of one session t:                    *)
(*  - its marks are indices into its snapshot;                             *)
(*  - before its thread starts it has no mark, no reply and an open       *)
(*    socket (Accept replaces the snapshot only then);                     *)
(*  - once it has closed its socket inside the loop, its last reply is    *)
(*    QUIT's: every later line raises at its send_line, so a DELE or RSET *)
(*    after QUIT changes the marks with no reply to contradict;            *)
(*  - AuthBeforeTransaction and ReplyConsistent for t.                     *)
(***************************************************************************)
MarksOk(t) == deleted[t] \subseteq 0..Len(messages[t]) - 1

FreshOk(t) ==
    stage[t] \in {"new", "loading"} =>
        deleted[t] = {} /\ reply[t] = NoReply /\ sockOpen[t]

ClosedOk(t) == stage[t] = "running" /\ ~sockOpen[t] => reply[t].verb = "QUIT"

LoginOk(t) == phase[t] = "TRANSACTION" => username[t] = USERNAME

ReplyOk(t) ==
    /\ reply[t].ok /\ reply[t].verb = "STAT" =>
           reply[t].count = Cardinality(Unmarked(t))
    /\ reply[t].ok /\ reply[t].verb \in {"LIST", "UIDL", "RETR", "TOP"} =>
           reply[t].ids \subseteq Unmarked(t)

SessionInv(t) ==
    MarksOk(t) /\ FreshOk(t) /\ ClosedOk(t) /\ LoginOk(t) /\ ReplyOk(t)

-----------------------------------------------------------------------------
LEMMA ListingType ==
    ASSUME NEW S \in SUBSET InitFiles
    PROVE  Listing(S) \subseteq Seq(InitFiles)
<1>1. IsFiniteSet(S) /\ Cardinality(S) \in Nat
  BY ConstantsAssumption, FS_Subset, FS_CardinalityType
<1>. QED
  BY <1>1 DEF Listing

LEMMA BatchesType == Batches \subseteq Seq(Commands)
<1> SUFFICES ASSUME NEW k \in 1..MaxBatch, NEW b \in [1..k -> Commands]
             PROVE  b \in Seq(Commands)
  BY DEF Batches
<1>1. k \in Nat
  BY ConstantsAssumption
<1>. QED
  BY <1>1

\* The type invariant together with the bound on the marks it relies on.
TypeInv == TypeOK /\ MarksInSnapshot

\* The marks of a session are finite, so len(self.deleted) is a number.
LEMMA MarksFinite ==
    ASSUME TypeInv, NEW s \in Session
    PROVE  IsFiniteSet(deleted[s]) /\ Cardinality(deleted[s]) \in Nat
<1>1. IsFiniteSet(0..Len(messages[s]) - 1)
  BY FS_Interval DEF TypeInv, TypeOK
<1>2. deleted[s] \subseteq 0..Len(messages[s]) - 1
  BY DEF TypeInv, MarksInSnapshot
<1>. QED
  BY <1>1, <1>2, FS_Subset, FS_CardinalityType

\* The line a handler dispatches is one of the commands a client may send.
LEMMA CmdType ==
    ASSUME TypeOK, NEW s \in Session, buffer[s] # <<>>
    PROVE  /\ Cmd(s) \in Commands
           /\ Cmd(s).verb \in {c.verb : c \in Commands}
           /\ Cmd(s).args \in Seq(STRING)
           /\ Tail(buffer[s]) \in Seq(Commands)
<1>1. Cmd(s) \in Commands /\ Tail(buffer[s]) \in Seq(Commands)
  BY DEF TypeOK, Cmd
<1>. QED
  BY <1>1, ConstantsAssumption

\* int() of an argument it accepts is an integer.
LEMMA IndexType ==
    ASSUME TypeOK, NEW s \in Session, buffer[s] # <<>>, Parses(s, 1)
    PROVE  Index(s) \in Int
BY CmdType, ConstantsAssumption DEF Parses, Index

\* What a reply, and the end of the loop an exception causes, do to the
\* typed variables.
LEMMA SendType ==
    ASSUME TypeOK, NEW s \in Session, buffer[s] # <<>>, NEW r \in Reply,
           Send(s, r) \/ SendThenRaise(s, r) \/ (Raise(s) /\ UNCHANGED reply)
    PROVE  /\ reply' \in [Session -> Reply]
           /\ buffer' \in [Session -> Seq(Commands)]
           /\ stage' \in [Session -> Stages]
<1>1. Tail(buffer[s]) \in Seq(Commands)
  BY CmdType
<1>2. "closing" \in Stages /\ <<>> \in Seq(Commands)
  BY DEF Stages
<1>3. CASE Raise(s) /\ UNCHANGED reply
  BY <1>2, <1>3 DEF Raise, TypeOK
<1>4. CASE ~sockOpen[s] /\ (Send(s, r) \/ SendThenRaise(s, r))
  <2>1. Raise(s)
    BY <1>4 DEF Send, SendThenRaise
  <2>. QED
    BY <1>2, <2>1 DEF Raise, TypeOK
<1>5. CASE sockOpen[s] /\ Send(s, r)
  <2>1. /\ reply' = [reply EXCEPT ![s] = r]
        /\ buffer' = [buffer EXCEPT ![s] = Tail(buffer[s])]
        /\ stage' = stage
    BY <1>5 DEF Send
  <2>. QED
    BY <1>1, <2>1 DEF TypeOK
<1>6. CASE sockOpen[s] /\ SendThenRaise(s, r)
  <2>1. /\ reply' = [reply EXCEPT ![s] = r]
        /\ buffer' = [buffer EXCEPT ![s] = <<>>]
        /\ stage' = [stage EXCEPT ![s] = "closing"]
    BY <1>6 DEF SendThenRaise
  <2>. QED
    BY <1>2, <2>1 DEF TypeOK
<1>. QED
  BY <1>3, <1>4, <1>5, <1>6

\* A reply, or the exception that ends the loop, changes only session s.
LEMMA SendFrame ==
    ASSUME NEW s \in Session, stage \in [Session -> Stages],
           reply \in [Session -> Reply], NEW r,
           Send(s, r) \/ SendThenRaise(s, r) \/ (Raise(s) /\ UNCHANGED reply)
    PROVE  /\ \A t \in Session \ {s} : stage'[t] = stage[t] /\ reply'[t] = reply[t]
           /\ stage'[s] \in {stage[s], "closing"}
BY DEF Send, SendThenRaise, Raise

(***************************************************************************)
(* The common shape of a command handler: it answers (or raises), may     *)
(* change the login and phase within their types, and replaces the marks *)
(* of its session by a set D of snapshot indices.                          *)
(***************************************************************************)
LEMMA HandlerType ==
    ASSUME TypeInv, NEW s \in Session, buffer[s] # <<>>, stage[s] = "running",
           \E r \in Reply :
               Send(s, r) \/ SendThenRaise(s, r) \/ (Raise(s) /\ UNCHANGED reply),
           UNCHANGED <<files, listener, messages, loaded, todo>>,
           sockOpen' \in [Session -> BOOLEAN],
           phase' \in [Session -> {"AUTH", "TRANSACTION"}],
           username' \in [Session -> {EMPTY, USERNAME}],
           \E D \in SUBSET (0..Len(messages[s]) - 1) :
               deleted' = [deleted EXCEPT ![s] = D]
    PROVE  TypeInv'
<1>r. PICK r \in Reply :
          Send(s, r) \/ SendThenRaise(s, r) \/ (Raise(s) /\ UNCHANGED reply)
  OBVIOUS
<1>d. PICK D \in SUBSET (0..Len(messages[s]) - 1) :
           deleted' = [deleted EXCEPT ![s] = D]
  BY Zenon
<1>1. /\ reply' \in [Session -> Reply]
      /\ buffer' \in [Session -> Seq(Commands)]
      /\ stage' \in [Session -> Stages]
  BY <1>r, SendType DEF TypeInv
<1>2. /\ \A t \in Session \ {s} : stage'[t] = stage[t] /\ reply'[t] = reply[t]
      /\ stage'[s] \in {stage[s], "closing"}
  <2>1. stage \in [Session -> Stages] /\ reply \in [Session -> Reply]
    BY DEF TypeInv, TypeOK
  <2>. QED
    BY <1>r, <2>1, SendFrame
<1>3. deleted' \in [Session -> SUBSET Nat]
  BY <1>d DEF TypeInv, TypeOK
<1>4. TypeOK'
  BY <1>1, <1>3 DEF TypeInv, TypeOK
<1>5. MarksInSnapshot'
  <2> SUFFICES ASSUME NEW t \in Session
               PROVE  /\ deleted'[t] \subseteq 0..Len(messages'[t]) - 1
                      /\ stage'[t] = "new" => deleted'[t] = {} /\ reply'[t] = NoReply
    BY DEF MarksInSnapshot
  <2>1. CASE t = s
    <3>1. deleted'[s] = D /\ messages'[s] = messages[s]
      BY <1>d DEF TypeInv, TypeOK
    <3>2. stage'[s] # "new"
      BY <1>2
    <3>3. deleted'[s] \subseteq 0..Len(messages'[s]) - 1
      BY <3>1, Zenon
    <3>. QED
      BY <2>1, <3>2, <3>3
  <2>2. CASE t # s
    BY <1>d, <1>2, <2>2 DEF TypeInv, TypeOK, MarksInSnapshot
  <2>. QED
    BY <2>1, <2>2
<1>. QED
  BY <1>4, <1>5 DEF TypeInv

\* A handler that leaves the marks alone replaces them by themselves.
LEMMA KeepMarks ==
    ASSUME TypeInv, NEW s \in Session
    PROVE  /\ deleted = [deleted EXCEPT ![s] = deleted[s]]
           /\ deleted[s] \in SUBSET (0..Len(messages[s]) - 1)
BY DEF TypeInv, TypeOK, MarksInSnapshot

\* A reply to the command being dispatched has the reply type.
LEMMA VerbReply ==
    ASSUME TypeOK, NEW s \in Session, buffer[s] # <<>>, NEW v, v = Cmd(s).verb
    PROVE  /\ Ok(v) \in Reply
           /\ Err(v) \in Reply
           /\ \A c \in Int, I \in SUBSET Int :
                 [verb |-> v, ok |-> TRUE, count |-> c, ids |-> I] \in Reply
<1>1. v \in {c.verb : c \in Commands}
  BY CmdType
<1>. QED
  BY <1>1 DEF Ok, Err, Reply

\* The replies of a handler that takes a message number.
LEMMA IndexReply ==
    ASSUME TypeOK, NEW s \in Session, buffer[s] # <<>>, Parses(s, 1),
           NEW v, v = Cmd(s).verb
    PROVE  /\ [verb |-> v, ok |-> TRUE, count |-> 0, ids |-> {Index(s) + 1}] \in Reply
           /\ Err(v) \in Reply
           /\ Ok(v) \in Reply
<1>1. v \in {c.verb : c \in Commands}
  BY CmdType
<1>2. Index(s) \in Int
  BY IndexType
<1>. QED
  BY <1>1, <1>2 DEF Reply, Err, Ok

\* A handler that only answers (or raises) keeps the type invariant.
LEMMA ReplyOnly ==
    ASSUME TypeInv, NEW s \in Session, buffer[s] # <<>>, stage[s] = "running",
           \E r \in Reply :
               Send(s, r) \/ SendThenRaise(s, r) \/ (Raise(s) /\ UNCHANGED reply),
           UNCHANGED <<files, listener, phase, username, messages, loaded,
                       deleted, sockOpen, todo>>
    PROVE  TypeInv'
<1>1. deleted = [deleted EXCEPT ![s] = deleted[s]]
      /\ deleted[s] \in SUBSET (0..Len(messages[s]) - 1)
  BY KeepMarks, Zenon
<1>2. /\ sockOpen' \in [Session -> BOOLEAN]
      /\ phase' \in [Session -> {"AUTH", "TRANSACTION"}]
      /\ username' \in [Session -> {EMPTY, USERNAME}]
      /\ \E D \in SUBSET (0..Len(messages[s]) - 1) :
             deleted' = [deleted EXCEPT ![s] = D]
  BY <1>1 DEF TypeInv, TypeOK
<1>. QED
  BY <1>2, HandlerType, Zenon

-----------------------------------------------------------------------------
LEMMA TypeInit == Init => TypeInv
<1> SUFFICES ASSUME Init PROVE TypeInv
  OBVIOUS
<1>1. NoReply \in Reply
  BY DEF NoReply, Reply
<1>2. EMPTY \in {EMPTY, USERNAME} /\ "new" \in Stages
  BY DEF Stages
<1>3. /\ <<>> \in Seq(InitFiles) /\ <<>> \in Seq(Commands)
      /\ {} \in SUBSET Nat /\ 0 \in Nat
  OBVIOUS
<1>4. TypeOK
  <2>1. files \in SUBSET InitFiles /\ listener \in {"up", "crashed"}
    BY DEF Init
  <2>2. stage \in [Session -> Stages] /\ phase \in [Session -> {"AUTH", "TRANSACTION"}]
    BY <1>2 DEF Init
  <2>3. username \in [Session -> {EMPTY, USERNAME}]
    BY <1>2 DEF Init
  <2>4. messages \in [Session -> Seq(InitFiles)] /\ buffer \in [Session -> Seq(Commands)]
    BY <1>3 DEF Init
  <2>5. /\ loaded \in [Session -> Nat] /\ deleted \in [Session -> SUBSET Nat]
        /\ todo \in [Session -> SUBSET Nat] /\ sockOpen \in [Session -> BOOLEAN]
    BY <1>3 DEF Init
  <2>6. reply \in [Session -> Reply]
    BY <1>1 DEF Init
  <2>. QED
    BY <2>1, <2>2, <2>3, <2>4, <2>5, <2>6 DEF TypeOK
<1>5. MarksInSnapshot
  BY DEF Init, MarksInSnapshot
<1>. QED
  BY <1>4, <1>5 DEF TypeInv

LEMMA TypeStep == TypeInv /\ [Next]_vars => TypeInv'
<1> SUFFICES ASSUME TypeInv, [Next]_vars PROVE TypeInv'
  OBVIOUS
<1>. USE DEF TypeInv
<1>1. CASE UNCHANGED vars
  BY <1>1 DEF vars, TypeOK, MarksInSnapshot
<1>2. CASE Terminated
  BY <1>2 DEF Terminated, vars, TypeOK, MarksInSnapshot
<1>3. ASSUME NEW s \in Session, Accept(s) PROVE TypeInv'
  <2>1. PICK seq \in Listing(files) : messages' = [messages EXCEPT ![s] = seq]
    BY <1>3, Zenon DEF Accept
  <2>2. seq \in Seq(InitFiles)
    <3>1. files \in SUBSET InitFiles
      BY DEF TypeOK
    <3>. QED
      BY <2>1, <3>1, ListingType, Zenon
  <2>. QED
    BY <1>3, <2>1, <2>2 DEF Accept, TypeOK, MarksInSnapshot, Stages
<1>4. ASSUME NEW s \in Session, LoadFile(s) PROVE TypeInv'
  BY <1>4 DEF LoadFile, TypeOK, MarksInSnapshot
<1>5. ASSUME NEW s \in Session, StartThread(s) PROVE TypeInv'
  BY <1>5 DEF StartThread, TypeOK, MarksInSnapshot, Stages
<1>6. ASSUME NEW s \in Session, Recv(s) PROVE TypeInv'
  BY <1>6, BatchesType DEF Recv, TypeOK, MarksInSnapshot
<1>7. ASSUME NEW s \in Session, PeerClose(s) PROVE TypeInv'
  BY <1>7 DEF PeerClose, TypeOK, MarksInSnapshot, Stages
<1>8. ASSUME NEW s \in Session, SessionStep(s) PROVE TypeInv'
  <2>0. \E D \in SUBSET (0..Len(messages[s]) - 1) : deleted = [deleted EXCEPT ![s] = D]
    <3>1. deleted = [deleted EXCEPT ![s] = deleted[s]]
          /\ deleted[s] \in SUBSET (0..Len(messages[s]) - 1)
      BY KeepMarks, Zenon
    <3>. QED
      BY <3>1
  <2>1. CASE User(s)
    <3>1. buffer[s] # <<>> /\ stage[s] = "running" /\ Cmd(s).verb = "USER"
      BY <2>1 DEF User, Takes
    <3>2. Ok("USER") \in Reply /\ Err("USER") \in Reply
      BY <3>1, VerbReply, Zenon
    <3>3. \E r \in Reply :
              Send(s, r) \/ SendThenRaise(s, r) \/ (Raise(s) /\ UNCHANGED reply)
      BY <2>1, <3>2 DEF User
    <3>4. /\ UNCHANGED <<files, listener, messages, loaded, todo>>
          /\ sockOpen' \in [Session -> BOOLEAN]
          /\ phase' \in [Session -> {"AUTH", "TRANSACTION"}]
          /\ username' \in [Session -> {EMPTY, USERNAME}]
          /\ \E D \in SUBSET (0..Len(messages[s]) - 1) :
                 deleted' = [deleted EXCEPT ![s] = D]
      BY <2>0, <2>1 DEF User, TypeOK
    <3>. QED
      BY <3>1, <3>3, <3>4, HandlerType, Zenon
  <2>2. CASE Pass(s)
    <3>1. buffer[s] # <<>> /\ stage[s] = "running" /\ Cmd(s).verb = "PASS"
      BY <2>2 DEF Pass, Takes
    <3>2. Ok("PASS") \in Reply /\ Err("PASS") \in Reply
      BY <3>1, VerbReply, Zenon
    <3>3. \E r \in Reply :
              Send(s, r) \/ SendThenRaise(s, r) \/ (Raise(s) /\ UNCHANGED reply)
      BY <2>2, <3>2 DEF Pass
    <3>4. /\ UNCHANGED <<files, listener, messages, loaded, todo>>
          /\ sockOpen' \in [Session -> BOOLEAN]
          /\ phase' \in [Session -> {"AUTH", "TRANSACTION"}]
          /\ username' \in [Session -> {EMPTY, USERNAME}]
          /\ \E D \in SUBSET (0..Len(messages[s]) - 1) :
                 deleted' = [deleted EXCEPT ![s] = D]
      BY <2>0, <2>2 DEF Pass, TypeOK
    <3>. QED
      BY <3>1, <3>3, <3>4, HandlerType, Zenon
  <2>3. CASE Quit(s)
    <3>1. buffer[s] # <<>> /\ stage[s] = "running" /\ Cmd(s).verb = "QUIT"
      BY <2>3 DEF Quit, Takes
    <3>2. Ok("QUIT") \in Reply
      BY <3>1, VerbReply, Zenon
    <3>3. \E r \in Reply :
              Send(s, r) \/ SendThenRaise(s, r) \/ (Raise(s) /\ UNCHANGED reply)
      BY <2>3, <3>2 DEF Quit
    <3>4. /\ UNCHANGED <<files, listener, messages, loaded, todo>>
          /\ sockOpen' \in [Session -> BOOLEAN]
          /\ phase' \in [Session -> {"AUTH", "TRANSACTION"}]
          /\ username' \in [Session -> {EMPTY, USERNAME}]
          /\ \E D \in SUBSET (0..Len(messages[s]) - 1) :
                 deleted' = [deleted EXCEPT ![s] = D]
      BY <2>0, <2>3 DEF Quit, TypeOK
    <3>. QED
      BY <3>1, <3>3, <3>4, HandlerType, Zenon
  <2>4. CASE AuthOther(s) \/ TransOther(s) \/ Noop(s)
    <3>1. buffer[s] # <<>> /\ stage[s] = "running"
      BY <2>4 DEF AuthOther, TransOther, Noop, Takes
    <3>2. Err(Cmd(s).verb) \in Reply /\ Ok(Cmd(s).verb) \in Reply
      BY <3>1, VerbReply, Zenon
    <3>3. \E r \in Reply :
              Send(s, r) \/ SendThenRaise(s, r) \/ (Raise(s) /\ UNCHANGED reply)
      BY <2>4, <3>2 DEF AuthOther, TransOther, Noop, Takes
    <3>4. UNCHANGED <<files, listener, phase, username, messages, loaded,
                      deleted, sockOpen, todo>>
      BY <2>4 DEF AuthOther, TransOther, Noop
    <3>. QED
      BY <3>1, <3>3, <3>4, ReplyOnly, Zenon
  <2>5. CASE Stat(s)
    <3>1. buffer[s] # <<>> /\ stage[s] = "running" /\ Cmd(s).verb = "STAT"
      BY <2>5 DEF Stat, Takes
    <3>2. Len(messages[s]) - Cardinality(deleted[s]) \in Int
      BY MarksFinite DEF TypeOK
    <3>3. [verb |-> "STAT", ok |-> TRUE,
           count |-> Len(messages[s]) - Cardinality(deleted[s]), ids |-> {}] \in Reply
      BY <3>1, <3>2, VerbReply, Zenon
    <3>4. \E r \in Reply :
              Send(s, r) \/ SendThenRaise(s, r) \/ (Raise(s) /\ UNCHANGED reply)
      BY <2>5, <3>3 DEF Stat
    <3>5. UNCHANGED <<files, listener, phase, username, messages, loaded,
                      deleted, sockOpen, todo>>
      BY <2>5 DEF Stat
    <3>. QED
      BY <3>1, <3>4, <3>5, ReplyOnly, Zenon
  <2>6. CASE List(s) \/ Uidl(s)
    <3>1. PICK v \in {"LIST", "UIDL"} : IndexReport(s, v)
      BY <2>6 DEF List, Uidl
    <3>2. buffer[s] # <<>> /\ stage[s] = "running" /\ Cmd(s).verb = v
      BY <3>1 DEF IndexReport, Takes
    <3>3. v \in {c.verb : c \in Commands}
      BY <3>2, CmdType DEF TypeInv
    <3>4. \E r \in Reply :
              Send(s, r) \/ SendThenRaise(s, r) \/ (Raise(s) /\ UNCHANGED reply)
      <4>1. CASE Parses(s, 1)
        <5>1. Index(s) \in Int
          BY <3>2, <4>1, IndexType DEF TypeInv
        <5>2. Send(s, IF Visible(s, Index(s))
                        THEN [verb |-> v, ok |-> TRUE, count |-> 0,
                              ids |-> {Index(s) + 1}]
                        ELSE Err(v))
          BY <3>1, <4>1 DEF IndexReport, Parses
        <5>3. [verb |-> v, ok |-> TRUE, count |-> 0, ids |-> {Index(s) + 1}] \in Reply
              /\ Err(v) \in Reply
          BY <3>3, <5>1 DEF Reply, Err
        <5>. QED
          BY <5>2, <5>3
      <4>2. CASE ~Parses(s, 1) /\ Cmd(s).args = <<>>
        <5>1. Send(s, [verb |-> v, ok |-> TRUE, count |-> Len(messages[s]),
                       ids |-> Listed(s)])
          BY <3>1, <4>2 DEF IndexReport
        <5>2. [verb |-> v, ok |-> TRUE, count |-> Len(messages[s]), ids |-> Listed(s)]
                  \in Reply
          BY <3>3 DEF Reply, Listed, TypeInv, TypeOK
        <5>. QED
          BY <5>1, <5>2
      <4>3. CASE ~Parses(s, 1) /\ Cmd(s).args # <<>>
        <5>1. Raise(s) /\ UNCHANGED reply
          BY <3>1, <4>3 DEF IndexReport, Raise
        <5>2. NoReply \in Reply
          BY DEF NoReply, Reply
        <5>. QED
          BY <5>1, <5>2
      <4>. QED
        BY <4>1, <4>2, <4>3
    <3>5. UNCHANGED <<files, listener, phase, username, messages, loaded,
                      deleted, sockOpen, todo>>
      BY <3>1 DEF IndexReport
    <3>. QED
      BY <3>2, <3>4, <3>5, ReplyOnly, Zenon
  <2>7. CASE Retr(s)
    <3>1. buffer[s] # <<>> /\ stage[s] = "running" /\ Cmd(s).verb = "RETR"
      BY <2>7 DEF Retr, Takes
    <3>2. \E r \in Reply :
              Send(s, r) \/ SendThenRaise(s, r) \/ (Raise(s) /\ UNCHANGED reply)
      <4>1. CASE Parses(s, 1)
        <5>1. [verb |-> "RETR", ok |-> TRUE, count |-> 0, ids |-> {Index(s) + 1}] \in Reply
              /\ Err("RETR") \in Reply
          BY <3>1, <4>1, IndexReply, Zenon DEF TypeInv
        <5>. QED
          BY <2>7, <4>1, <5>1 DEF Retr
      <4>2. CASE ~Parses(s, 1)
        <5>1. Raise(s) /\ UNCHANGED reply
          BY <2>7, <4>2 DEF Retr, Raise
        <5>2. NoReply \in Reply
          BY DEF NoReply, Reply
        <5>. QED
          BY <5>1, <5>2
      <4>. QED
        BY <4>1, <4>2
    <3>3. UNCHANGED <<files, listener, phase, username, messages, loaded,
                      deleted, sockOpen, todo>>
      BY <2>7 DEF Retr
    <3>. QED
      BY <3>1, <3>2, <3>3, ReplyOnly, Zenon
  <2>8. CASE Top(s)
    <3>1. buffer[s] # <<>> /\ stage[s] = "running" /\ Cmd(s).verb = "TOP"
      BY <2>8 DEF Top, Takes
    <3>2. \E r \in Reply :
              Send(s, r) \/ SendThenRaise(s, r) \/ (Raise(s) /\ UNCHANGED reply)
      <4>1. CASE Parses(s, 1) /\ Parses(s, 2)
        <5>1. [verb |-> "TOP", ok |-> TRUE, count |-> 0, ids |-> {Index(s) + 1}] \in Reply
              /\ Err("TOP") \in Reply
          BY <3>1, <4>1, IndexReply, Zenon DEF TypeInv
        <5>. QED
          BY <2>8, <4>1, <5>1 DEF Top
      <4>2. CASE ~(Parses(s, 1) /\ Parses(s, 2))
        <5>1. Raise(s) /\ UNCHANGED reply
          BY <2>8, <4>2 DEF Top, Raise
        <5>2. NoReply \in Reply
          BY DEF NoReply, Reply
        <5>. QED
          BY <5>1, <5>2
      <4>. QED
        BY <4>1, <4>2
    <3>3. UNCHANGED <<files, listener, phase, username, messages, loaded,
                      deleted, sockOpen, todo>>
      BY <2>8 DEF Top
    <3>. QED
      BY <3>1, <3>2, <3>3, ReplyOnly, Zenon
  <2>9. CASE Dele(s)
    <3>1. buffer[s] # <<>> /\ stage[s] = "running" /\ Cmd(s).verb = "DELE"
      BY <2>9 DEF Dele, Takes
    <3>2. deleted[s] \in SUBSET (0..Len(messages[s]) - 1)
      BY DEF TypeInv, MarksInSnapshot
    <3>3. /\ \E r \in Reply :
                 Send(s, r) \/ SendThenRaise(s, r) \/ (Raise(s) /\ UNCHANGED reply)
          /\ \E D \in SUBSET (0..Len(messages[s]) - 1) :
                 deleted' = [deleted EXCEPT ![s] = D]
      <4>1. CASE Parses(s, 1) /\ InRange(s, Index(s))
        <5>1. Ok("DELE") \in Reply
          BY <3>1, <4>1, IndexReply, Zenon DEF TypeInv
        <5>2. deleted[s] \cup {Index(s)} \in SUBSET (0..Len(messages[s]) - 1)
          <6>1. Index(s) \in Int
            BY <3>1, <4>1, IndexType DEF TypeInv
          <6>. QED
            BY <3>2, <4>1, <6>1 DEF InRange
        <5>3. /\ Send(s, Ok("DELE"))
              /\ deleted' = [deleted EXCEPT ![s] = deleted[s] \cup {Index(s)}]
          BY <2>9, <4>1 DEF Dele
        <5>. QED
          BY <5>1, <5>2, <5>3, Zenon
      <4>2. CASE Parses(s, 1) /\ ~InRange(s, Index(s))
        <5>1. Err("DELE") \in Reply
          BY <3>1, <4>2, IndexReply, Zenon DEF TypeInv
        <5>2. deleted' = [deleted EXCEPT ![s] = deleted[s]]
          BY <2>9, <4>2, KeepMarks, Zenon DEF Dele
        <5>3. Send(s, Err("DELE"))
          BY <2>9, <4>2 DEF Dele
        <5>. QED
          BY <3>2, <5>1, <5>2, <5>3, Zenon
      <4>3. CASE ~Parses(s, 1)
        <5>1. NoReply \in Reply
          BY DEF NoReply, Reply
        <5>2. deleted' = [deleted EXCEPT ![s] = deleted[s]]
          BY <2>9, <4>3, KeepMarks, Zenon DEF Dele
        <5>3. Raise(s) /\ UNCHANGED reply
          BY <2>9, <4>3 DEF Dele, Raise
        <5>. QED
          BY <3>2, <5>1, <5>2, <5>3, Zenon
      <4>. QED
        BY <4>1, <4>2, <4>3, Zenon
    <3>4. /\ UNCHANGED <<files, listener, messages, loaded, todo>>
          /\ sockOpen' \in [Session -> BOOLEAN]
          /\ phase' \in [Session -> {"AUTH", "TRANSACTION"}]
          /\ username' \in [Session -> {EMPTY, USERNAME}]
      BY <2>9 DEF Dele, TypeInv, TypeOK
    <3>. QED
      BY <3>1, <3>3, <3>4, HandlerType, Zenon
  <2>10. CASE Rset(s)
    <3>1. buffer[s] # <<>> /\ stage[s] = "running" /\ Cmd(s).verb = "RSET"
      BY <2>10 DEF Rset, Takes
    <3>2. Ok("RSET") \in Reply
      BY <3>1, VerbReply, Zenon DEF TypeInv
    <3>3. /\ \E r \in Reply :
                 Send(s, r) \/ SendThenRaise(s, r) \/ (Raise(s) /\ UNCHANGED reply)
          /\ \E D \in SUBSET (0..Len(messages[s]) - 1) :
                 deleted' = [deleted EXCEPT ![s] = D]
      <4>1. Send(s, Ok("RSET")) /\ deleted' = [deleted EXCEPT ![s] = {}]
        BY <2>10 DEF Rset
      <4>2. {} \in SUBSET (0..Len(messages[s]) - 1)
        OBVIOUS
      <4>. QED
        BY <3>2, <4>1, <4>2, Zenon
    <3>4. /\ UNCHANGED <<files, listener, messages, loaded, todo>>
          /\ sockOpen' \in [Session -> BOOLEAN]
          /\ phase' \in [Session -> {"AUTH", "TRANSACTION"}]
          /\ username' \in [Session -> {EMPTY, USERNAME}]
      BY <2>10 DEF Rset, TypeInv, TypeOK
    <3>. QED
      BY <3>1, <3>3, <3>4, HandlerType, Zenon
  <2>11. CASE RecvOnClosed(s) \/ Cleanup(s)
    <3>1. stage[s] \in {"running", "closing"}
      BY <2>11 DEF RecvOnClosed, Cleanup
    <3>2. deleted[s] \in SUBSET Nat
      BY DEF TypeInv, TypeOK
    <3>3. TypeOK'
      <4>1. /\ stage' \in [Session -> Stages]
            /\ sockOpen' \in [Session -> BOOLEAN]
            /\ todo' \in [Session -> SUBSET Nat]
        <5>1. CASE RecvOnClosed(s)
          BY <5>1 DEF RecvOnClosed, TypeInv, TypeOK, Stages
        <5>2. CASE Cleanup(s)
          BY <3>2, <5>2 DEF Cleanup, TypeInv, TypeOK, Stages
        <5>. QED
          BY <2>11, <5>1, <5>2
      <4>2. UNCHANGED <<files, listener, phase, username, messages, loaded,
                        deleted, buffer, reply>>
        BY <2>11 DEF RecvOnClosed, Cleanup
      <4>. QED
        BY <4>1, <4>2 DEF TypeInv, TypeOK
    <3>4. MarksInSnapshot'
      BY <2>11, <3>1 DEF RecvOnClosed, Cleanup, TypeInv, TypeOK, MarksInSnapshot
    <3>. QED
      BY <3>3, <3>4 DEF TypeInv
  <2>12. CASE CleanupExists(s) \/ CleanupRemove(s)
    <3>1. stage[s] \in {"commit", "remove"}
      BY <2>12 DEF CleanupExists, CleanupRemove
    <3>2. todo[s] \ {Max(todo[s])} \in SUBSET Nat
          /\ files \ {MarkPath(Max(todo[s]))} \in SUBSET InitFiles
      BY DEF TypeInv, TypeOK
    <3>3. TypeOK'
      <4>1. /\ stage' \in [Session -> Stages]
            /\ files' \in SUBSET InitFiles
            /\ todo' \in [Session -> SUBSET Nat]
        <5>0. /\ {"done", "remove", "commit", "aborted"} \subseteq Stages
              /\ stage \in [Session -> Stages]
              /\ todo \in [Session -> SUBSET Nat]
              /\ files \in SUBSET InitFiles
          BY DEF Stages, TypeInv, TypeOK
        <5>1. CASE CleanupExists(s)
          <6>1. stage' \in [Session -> Stages]
            BY <5>0, <5>1 DEF CleanupExists
          <6>2. files' \in SUBSET InitFiles /\ todo' \in [Session -> SUBSET Nat]
            BY <3>2, <5>0, <5>1 DEF CleanupExists
          <6>. QED
            BY <6>1, <6>2
        <5>2. CASE CleanupRemove(s)
          <6>1. stage' \in [Session -> Stages]
            BY <5>0, <5>2 DEF CleanupRemove
          <6>2. files' \in SUBSET InitFiles /\ todo' \in [Session -> SUBSET Nat]
            BY <3>2, <5>0, <5>2 DEF CleanupRemove
          <6>. QED
            BY <6>1, <6>2
        <5>. QED
          BY <2>12, <5>1, <5>2
      <4>2. UNCHANGED <<listener, phase, username, messages, loaded, deleted,
                        sockOpen, buffer, reply>>
        BY <2>12 DEF CleanupExists, CleanupRemove
      <4>. QED
        BY <4>1, <4>2 DEF TypeInv, TypeOK
    <3>4. MarksInSnapshot'
      BY <2>12, <3>1 DEF CleanupExists, CleanupRemove, TypeInv, TypeOK,
         MarksInSnapshot
    <3>. QED
      BY <3>3, <3>4 DEF TypeInv
  <2>. QED
    BY <1>8, <2>1, <2>2, <2>3, <2>4, <2>5, <2>6, <2>7, <2>8, <2>9, <2>10,
       <2>11, <2>12 DEF SessionStep
<1>. QED
  BY <1>1, <1>2, <1>3, <1>4, <1>5, <1>6, <1>7, <1>8 DEF Next, ListenerStep

(***************************************************************************)
(* Type correctness: in every reachable state each variable holds a value *)
(* of its type; in particular STAT's len(self.messages) -                 *)
(* len(self.deleted) is a number and every message a session holds is a  *)
(* file of the initial mailbox.                                            *)
(***************************************************************************)
THEOREM TypeCorrect == Spec => []TypeOK
<1>1. Init => TypeInv
  BY TypeInit
<1>2. TypeInv /\ [Next]_vars => TypeInv'
  BY TypeStep
<1>3. TypeInv => TypeOK
  BY DEF TypeInv
<1>. QED
  BY <1>1, <1>2, <1>3, PTL DEF Spec

-----------------------------------------------------------------------------
(***************************************************************************)
(* len(self.messages) - len(self.deleted) counts the unmarked messages    *)
(* when every mark is an index of the snapshot.                            *)
(***************************************************************************)
LEMMA UnmarkedCount ==
    ASSUME NEW n \in Nat, NEW D \in SUBSET (0..n - 1)
    PROVE  Cardinality({k \in 1..n : k - 1 \notin D}) = n - Cardinality(D)
<1> DEFINE M == {k \in 1..n : k - 1 \in D}
           f == [d \in D |-> d + 1]
<1>1. IsFiniteSet(0..n - 1) /\ IsFiniteSet(1..n) /\ Cardinality(1..n) = n
  BY FS_Interval
<1>2. IsFiniteSet(D)
  BY <1>1, FS_Subset, Zenon
<1>3. f \in Bijection(D, M)
  BY DEF Bijection, Injection, Surjection, IsInjective
<1>4. Cardinality(M) = Cardinality(D)
  BY <1>2, <1>3, FS_Bijection DEF ExistsBijection
<1>5. {k \in 1..n : k - 1 \notin D} = (1..n) \ M /\ (1..n) \cap M = M
  OBVIOUS
<1>6. Cardinality((1..n) \ M) = Cardinality(1..n) - Cardinality((1..n) \cap M)
  BY <1>1, FS_Difference, Zenon
<1>7. Cardinality({k \in 1..n : k - 1 \notin D}) = Cardinality((1..n) \ M)
  BY <1>5, Zenon
<1>8. Cardinality((1..n) \cap M) = Cardinality(M)
  BY <1>5, Zenon
<1>. QED
  BY <1>1, <1>4, <1>6, <1>7, <1>8

-----------------------------------------------------------------------------
(***************************************************************************)
(* The session invariant.  A step of one session thread, or of the        *)
(* listener for it, changes only that session's part of the state, so    *)
(* SessionInv(t) need only be re-established for the session that moved. *)
(***************************************************************************)
SInv == \A t \in Session : SessionInv(t)

\* The part of the state SessionInv(t) reads.
View(t) == <<stage[t], phase[t], username[t], messages[t], deleted[t],
             sockOpen[t], reply[t]>>

\* A step that leaves session t's part of the state alone keeps SessionInv(t).
LEMMA SessionFrame ==
    ASSUME NEW t, SessionInv(t), View(t)' = View(t)
    PROVE  SessionInv(t)'
<1>1. /\ stage'[t] = stage[t] /\ phase'[t] = phase[t]
      /\ username'[t] = username[t] /\ messages'[t] = messages[t]
      /\ deleted'[t] = deleted[t] /\ sockOpen'[t] = sockOpen[t]
      /\ reply'[t] = reply[t]
  BY DEF View
<1>. QED
  BY <1>1 DEF SessionInv, MarksOk, FreshOk, ClosedOk, LoginOk, ReplyOk, Unmarked

\* The per-session variables are functions on Session.
LEMMA Domains ==
    ASSUME TypeOK
    PROVE  /\ DOMAIN stage = Session /\ DOMAIN phase = Session
           /\ DOMAIN username = Session /\ DOMAIN messages = Session
           /\ DOMAIN deleted = Session /\ DOMAIN sockOpen = Session
           /\ DOMAIN reply = Session
BY DEF TypeOK

\* A reply, or the exception that ends the loop, leaves session t's part.
LEMMA SendOther ==
    ASSUME NEW s, NEW t, s # t, DOMAIN stage = Session, DOMAIN reply = Session,
           t \in Session, NEW r,
           Send(s, r) \/ SendThenRaise(s, r) \/ Raise(s)
    PROVE  stage'[t] = stage[t] /\ reply'[t] = reply[t]
BY DEF Send, SendThenRaise, Raise


\* Every step of session s, or of the listener for s, leaves session t alone.
LEMMA Local ==
    ASSUME TypeOK, NEW s \in Session, NEW t \in Session, s # t,
           \/ Accept(s) \/ ListenerStep(s) \/ Recv(s) \/ PeerClose(s)
           \/ SessionStep(s)
    PROVE  View(t)' = View(t)
<1>0. /\ DOMAIN stage = Session /\ DOMAIN phase = Session
      /\ DOMAIN username = Session /\ DOMAIN messages = Session
      /\ DOMAIN deleted = Session /\ DOMAIN sockOpen = Session
      /\ DOMAIN reply = Session
  BY Domains
<1>. USE <1>0 DEF View
<1>1. CASE Accept(s)
  BY <1>1 DEF Accept
<1>2. CASE ListenerStep(s)
  BY <1>2 DEF ListenerStep, LoadFile, StartThread
<1>3. CASE Recv(s) \/ PeerClose(s)
  BY <1>3 DEF Recv, PeerClose
<1>4. CASE SessionStep(s)
  <2>. USE DEF Send, SendThenRaise, Raise
  <2>1. CASE User(s) \/ Pass(s) \/ Quit(s) \/ AuthOther(s)
    BY <2>1 DEF User, Pass, Quit, AuthOther
  <2>2. CASE Stat(s) \/ Noop(s) \/ TransOther(s) \/ Rset(s)
    BY <2>2 DEF Stat, Noop, TransOther, Rset
  <2>3. CASE List(s) \/ Uidl(s)
    BY <2>3 DEF List, Uidl, IndexReport
  <2>4. CASE Retr(s)
    BY <2>4 DEF Retr
  <2>5. CASE Top(s)
    BY <2>5 DEF Top
  <2>6. CASE Dele(s)
    BY <2>6 DEF Dele
  <2>7. CASE RecvOnClosed(s) \/ Cleanup(s) \/ CleanupExists(s) \/ CleanupRemove(s)
    BY <2>7 DEF RecvOnClosed, Cleanup, CleanupExists, CleanupRemove
  <2>. QED
    BY <1>4, <2>1, <2>2, <2>3, <2>4, <2>5, <2>6, <2>7 DEF SessionStep
<1>. QED
  BY <1>1, <1>2, <1>3, <1>4


-----------------------------------------------------------------------------
(***************************************************************************)
(* What a reply must be for ReplyOk to hold after the step.                *)
(***************************************************************************)
\* The reply and what it describes are unchanged.
LEMMA ReplyKept ==
    ASSUME NEW t, ReplyOk(t), reply'[t] = reply[t],
           deleted'[t] = deleted[t], messages'[t] = messages[t]
    PROVE  ReplyOk(t)'
BY DEF ReplyOk, Unmarked

\* An error, or a reply that describes no message.
LEMMA ReplyVacuous ==
    ASSUME NEW t,
           ~reply'[t].ok \/ reply'[t].verb \notin {"STAT", "LIST", "UIDL", "RETR", "TOP"}
    PROVE  ReplyOk(t)'
BY DEF ReplyOk

\* A reply about the message with 0-based index i, which is not marked.
LEMMA ReplyIndex ==
    ASSUME NEW t, Len(messages'[t]) \in Nat, NEW i \in Int, 0 <= i,
           i < Len(messages'[t]), i \notin deleted'[t],
           reply'[t].verb # "STAT", reply'[t].ids = {i + 1}
    PROVE  ReplyOk(t)'
BY DEF ReplyOk, Unmarked

\* The LIST or UIDL listing of every unmarked message.
LEMMA ReplyListed ==
    ASSUME NEW t, Len(messages'[t]) \in Nat, reply'[t].verb # "STAT",
           reply'[t].ids = Listed(t)'
    PROVE  ReplyOk(t)'
BY DEF ReplyOk, Unmarked, Listed

\* STAT's count, len(self.messages) - len(self.deleted).
LEMMA ReplyStat ==
    ASSUME NEW t, Len(messages'[t]) \in Nat,
           deleted'[t] \subseteq 0..Len(messages'[t]) - 1,
           reply'[t].verb = "STAT",
           reply'[t].count = Len(messages'[t]) - Cardinality(deleted'[t])
    PROVE  ReplyOk(t)'
<1>1. Cardinality({k \in 1..Len(messages'[t]) : k - 1 \notin deleted'[t]})
        = Len(messages'[t]) - Cardinality(deleted'[t])
  BY UnmarkedCount, Zenon
<1>. QED
  BY <1>1 DEF ReplyOk, Unmarked


-----------------------------------------------------------------------------
\* The type invariant after the step gives the bound on the marks.
LEMMA MarksAfter ==
    ASSUME TypeInv', NEW s \in Session
    PROVE  MarksOk(s)'
BY DEF TypeInv, MarksInSnapshot, MarksOk

(***************************************************************************)
(* The steps of session s outside the command handlers: the listener's    *)
(* accept, load and start, the receive loop's exits and cleanup_deleted.   *)
(***************************************************************************)
LEMMA OwnOther ==
    ASSUME TypeInv, TypeInv', NEW s \in Session, SessionInv(s),
           \/ Accept(s) \/ ListenerStep(s) \/ Recv(s) \/ PeerClose(s)
           \/ RecvOnClosed(s) \/ Cleanup(s) \/ CleanupExists(s)
           \/ CleanupRemove(s)
    PROVE  SessionInv(s)'
<1>0. /\ DOMAIN stage = Session /\ DOMAIN phase = Session
      /\ DOMAIN username = Session /\ DOMAIN messages = Session
      /\ DOMAIN deleted = Session /\ DOMAIN sockOpen = Session
      /\ DOMAIN reply = Session
  BY Domains DEF TypeInv
<1>m. MarksOk(s)'
  BY MarksAfter
<1>1. CASE Accept(s)
  <2>1. /\ stage[s] = "new" /\ stage'[s] = "loading"
        /\ deleted'[s] = deleted[s] /\ reply'[s] = reply[s]
        /\ sockOpen'[s] = sockOpen[s] /\ phase'[s] = phase[s]
        /\ username'[s] = username[s]
    BY <1>0, <1>1 DEF Accept
  <2>2. deleted[s] = {} /\ reply[s] = NoReply /\ sockOpen[s]
    BY <2>1 DEF SessionInv, FreshOk
  <2>3. FreshOk(s)' /\ ClosedOk(s)' /\ LoginOk(s)'
    BY <2>1, <2>2 DEF SessionInv, FreshOk, ClosedOk, LoginOk
  <2>4. ReplyOk(s)'
    <3>0. reply'[s] = NoReply
      BY <2>1, <2>2
    <3>1. reply'[s].verb = "none"
      BY <3>0 DEF NoReply
    <3>. QED
      BY <3>1, ReplyVacuous
  <2>. QED
    BY <1>m, <2>3, <2>4 DEF SessionInv
<1>2. CASE LoadFile(s) \/ Recv(s)
  <2>1. View(s)' = View(s)
    BY <1>0, <1>2 DEF LoadFile, Recv, View
  <2>. QED
    BY <2>1, SessionFrame
<1>3. CASE StartThread(s)
  <2>1. /\ stage[s] = "loading" /\ stage'[s] = "running"
        /\ deleted'[s] = deleted[s] /\ reply'[s] = reply[s]
        /\ sockOpen'[s] = sockOpen[s] /\ phase'[s] = phase[s]
        /\ username'[s] = username[s] /\ messages'[s] = messages[s]
    BY <1>0, <1>3 DEF StartThread
  <2>2. sockOpen[s]
    BY <2>1 DEF SessionInv, FreshOk
  <2>3. FreshOk(s)' /\ ClosedOk(s)' /\ LoginOk(s)'
    BY <2>1, <2>2 DEF SessionInv, FreshOk, ClosedOk, LoginOk
  <2>4. ReplyOk(s)'
    BY <2>1, ReplyKept DEF SessionInv
  <2>. QED
    BY <1>m, <2>3, <2>4 DEF SessionInv
<1>4. CASE PeerClose(s) \/ RecvOnClosed(s) \/ Cleanup(s) \/ CleanupExists(s)
           \/ CleanupRemove(s)
  <2>1. /\ stage'[s] \notin {"new", "loading", "running"}
        /\ deleted'[s] = deleted[s] /\ reply'[s] = reply[s]
        /\ phase'[s] = phase[s] /\ username'[s] = username[s]
        /\ messages'[s] = messages[s]
    BY <1>0, <1>4 DEF PeerClose, RecvOnClosed, Cleanup, CleanupExists,
       CleanupRemove
  <2>2. FreshOk(s)' /\ ClosedOk(s)' /\ LoginOk(s)'
    BY <2>1 DEF SessionInv, FreshOk, ClosedOk, LoginOk
  <2>3. ReplyOk(s)'
    BY <2>1, ReplyKept DEF SessionInv
  <2>. QED
    BY <1>m, <2>2, <2>3 DEF SessionInv
<1>. QED
  BY <1>1, <1>2, <1>3, <1>4 DEF ListenerStep


-----------------------------------------------------------------------------
(***************************************************************************)
(* The command handlers.  On a socket QUIT has closed, every handler      *)
(* raises at its first send_line: the thread leaves the loop with the     *)
(* reply unchanged, which ClosedOk says is QUIT's and so describes no      *)
(* message, whatever the handler did to the marks before it raised.       *)
(***************************************************************************)
\* A message number is a natural number below the snapshot's length.
LEMMA LenNat ==
    ASSUME TypeOK, NEW s \in Session
    PROVE  Len(messages[s]) \in Nat
BY DEF TypeOK

\* On an open socket a reply is sent; the thread stays in the loop or, when
\* a later send_line raises, leaves it.
LEMMA OpenSend ==
    ASSUME NEW s, DOMAIN reply = Session, DOMAIN stage = Session,
           s \in Session, stage[s] = "running", sockOpen[s], NEW r,
           Send(s, r) \/ SendThenRaise(s, r)
    PROVE  reply'[s] = r /\ stage'[s] \in {"running", "closing"}
BY DEF Send, SendThenRaise, Raise

\* A step of the thread after the socket was closed inside the loop.
LEMMA ClosedHandler ==
    ASSUME TypeInv', NEW s \in Session, SessionInv(s), stage[s] = "running",
           ~sockOpen[s], stage'[s] = "closing", reply'[s] = reply[s],
           phase'[s] = phase[s], username'[s] = username[s]
    PROVE  SessionInv(s)'
<1>1. reply'[s].verb = "QUIT"
  BY DEF SessionInv, ClosedOk
<1>2. ReplyOk(s)'
  BY <1>1, ReplyVacuous
<1>3. FreshOk(s)' /\ ClosedOk(s)' /\ LoginOk(s)'
  BY DEF SessionInv, FreshOk, ClosedOk, LoginOk
<1>. QED
  BY <1>2, <1>3, MarksAfter DEF SessionInv

\* A step of the thread on an open socket, once its reply and login are
\* known to be consistent.
LEMMA OpenHandler ==
    ASSUME TypeInv', NEW s \in Session, stage'[s] \in {"running", "closing"},
           sockOpen'[s] \/ reply'[s].verb = "QUIT", LoginOk(s)', ReplyOk(s)'
    PROVE  SessionInv(s)'
BY MarksAfter DEF SessionInv, FreshOk, ClosedOk


\* USER, PASS and QUIT, the handlers that change the login or the socket.
LEMMA OwnLogin ==
    ASSUME TypeInv, TypeInv', NEW s \in Session, SessionInv(s),
           User(s) \/ Pass(s) \/ Quit(s)
    PROVE  SessionInv(s)'
<1>0. /\ DOMAIN stage = Session /\ DOMAIN phase = Session
      /\ DOMAIN username = Session /\ DOMAIN sockOpen = Session
      /\ DOMAIN reply = Session
  BY Domains DEF TypeInv
<1>1. stage[s] = "running"
  BY DEF User, Pass, Quit, Takes
<1>2. CASE ~sockOpen[s]
  <2>1. /\ stage'[s] = "closing" /\ reply'[s] = reply[s]
        /\ phase'[s] = phase[s] /\ username'[s] = username[s]
    BY <1>0, <1>2 DEF User, Pass, Quit, Send, Raise
  <2>. QED
    BY <1>1, <1>2, <2>1, ClosedHandler
<1>3. CASE sockOpen[s] /\ User(s)
  <2>a. /\ Send(s, IF UserOk(s) THEN Ok("USER") ELSE Err("USER"))
        /\ username' = IF UserOk(s) THEN [username EXCEPT ![s] = USERNAME]
                                    ELSE username
        /\ UNCHANGED <<phase, sockOpen>>
    BY <1>3 DEF User
  <2>b. /\ reply' = [reply EXCEPT ![s] = IF UserOk(s) THEN Ok("USER") ELSE Err("USER")]
        /\ stage' = stage
    BY <1>3, <2>a, Zenon DEF Send
  <2>1. /\ stage'[s] = "running" /\ sockOpen'[s] /\ reply'[s].verb = "USER"
        /\ phase'[s] = phase[s] /\ username'[s] \in {username[s], USERNAME}
    BY <1>0, <1>1, <1>3, <2>a, <2>b DEF Ok, Err
  <2>2. LoginOk(s)'
    BY <2>1 DEF SessionInv, LoginOk
  <2>3. ReplyOk(s)'
    BY <2>1, ReplyVacuous
  <2>. QED
    BY <2>1, <2>2, <2>3, OpenHandler
<1>4. CASE sockOpen[s] /\ Pass(s)
  <2>a. /\ Send(s, IF PassOk(s) THEN Ok("PASS") ELSE Err("PASS"))
        /\ phase' = IF PassOk(s) THEN [phase EXCEPT ![s] = "TRANSACTION"]
                                 ELSE phase
        /\ UNCHANGED <<username, sockOpen>>
    BY <1>4 DEF Pass
  <2>b. /\ reply' = [reply EXCEPT ![s] = IF PassOk(s) THEN Ok("PASS") ELSE Err("PASS")]
        /\ stage' = stage
    BY <1>4, <2>a, Zenon DEF Send
  <2>1. /\ stage'[s] = "running" /\ sockOpen'[s] /\ reply'[s].verb = "PASS"
        /\ username'[s] = username[s]
        /\ phase'[s] \in {phase[s], IF PassOk(s) THEN "TRANSACTION" ELSE phase[s]}
    BY <1>0, <1>1, <1>4, <2>a, <2>b DEF Ok, Err
  <2>2. LoginOk(s)'
    BY <2>1 DEF SessionInv, LoginOk, PassOk
  <2>3. ReplyOk(s)'
    BY <2>1, ReplyVacuous
  <2>. QED
    BY <2>1, <2>2, <2>3, OpenHandler
<1>5. CASE sockOpen[s] /\ Quit(s)
  <2>a. Send(s, Ok("QUIT")) /\ UNCHANGED <<phase, username>>
    BY <1>5 DEF Quit
  <2>b. reply' = [reply EXCEPT ![s] = Ok("QUIT")] /\ stage' = stage
    BY <1>5, <2>a, Zenon DEF Send
  <2>1. /\ stage'[s] = "running" /\ reply'[s].verb = "QUIT"
        /\ phase'[s] = phase[s] /\ username'[s] = username[s]
    BY <1>0, <1>1, <2>a, <2>b DEF Ok
  <2>2. LoginOk(s)'
    BY <2>1 DEF SessionInv, LoginOk
  <2>3. ReplyOk(s)'
    BY <2>1, ReplyVacuous
  <2>. QED
    BY <2>1, <2>2, <2>3, OpenHandler
<1>. QED
  BY <1>2, <1>3, <1>4, <1>5

\* The handlers that only answer, with an error or a bare +OK, and RSET.
LEMMA OwnPlain ==
    ASSUME TypeInv, TypeInv', NEW s \in Session, SessionInv(s),
           AuthOther(s) \/ TransOther(s) \/ Noop(s) \/ Rset(s)
    PROVE  SessionInv(s)'
<1>0. /\ DOMAIN stage = Session /\ DOMAIN phase = Session
      /\ DOMAIN username = Session /\ DOMAIN sockOpen = Session
      /\ DOMAIN reply = Session
  BY Domains DEF TypeInv
<1>1. stage[s] = "running"
  BY DEF AuthOther, TransOther, Noop, Rset, Takes
<1>2. /\ phase'[s] = phase[s] /\ username'[s] = username[s]
      /\ sockOpen'[s] = sockOpen[s]
  BY <1>0 DEF AuthOther, TransOther, Noop, Rset
<1>3. CASE ~sockOpen[s]
  <2>1. stage'[s] = "closing" /\ reply'[s] = reply[s]
    BY <1>0, <1>3 DEF AuthOther, TransOther, Noop, Rset, Send, Raise
  <2>. QED
    BY <1>1, <1>2, <1>3, <2>1, ClosedHandler
<1>4. CASE sockOpen[s]
  <2>a. \E r \in {Err(Cmd(s).verb), Ok("NOOP"), Ok("RSET")} : Send(s, r)
    BY DEF AuthOther, TransOther, Noop, Rset
  <2>b. PICK r \in {Err(Cmd(s).verb), Ok("NOOP"), Ok("RSET")} :
             reply' = [reply EXCEPT ![s] = r] /\ stage' = stage
    BY <1>4, <2>a, Zenon DEF Send
  <2>1. /\ stage'[s] = "running"
        /\ ~reply'[s].ok \/ reply'[s].verb \in {"NOOP", "RSET"}
    BY <1>0, <1>1, <2>b DEF Ok, Err
  <2>2. LoginOk(s)'
    BY <1>2 DEF SessionInv, LoginOk
  <2>3. ReplyOk(s)'
    BY <2>1, ReplyVacuous
  <2>4. sockOpen'[s] /\ stage'[s] \in {"running", "closing"}
    BY <1>2, <1>4, <2>1
  <2>. QED
    BY <2>2, <2>3, <2>4, OpenHandler
<1>. QED
  BY <1>3, <1>4


\* STAT: its count is the number of unmarked messages (UnmarkedCount).
LEMMA OwnStat ==
    ASSUME TypeInv, TypeInv', NEW s \in Session, SessionInv(s), Stat(s)
    PROVE  SessionInv(s)'
<1>0. /\ DOMAIN stage = Session /\ DOMAIN phase = Session
      /\ DOMAIN username = Session /\ DOMAIN sockOpen = Session
      /\ DOMAIN reply = Session /\ DOMAIN messages = Session
      /\ DOMAIN deleted = Session
  BY Domains DEF TypeInv
<1>1. stage[s] = "running"
  BY DEF Stat, Takes
<1>2. /\ phase'[s] = phase[s] /\ username'[s] = username[s]
      /\ sockOpen'[s] = sockOpen[s] /\ messages'[s] = messages[s]
      /\ deleted'[s] = deleted[s]
  BY DEF Stat
<1> DEFINE R == [verb |-> "STAT", ok |-> TRUE,
                 count |-> Len(messages[s]) - Cardinality(deleted[s]), ids |-> {}]
<1>3. Send(s, R)
  BY DEF Stat
<1>4. CASE ~sockOpen[s]
  <2>1. stage'[s] = "closing" /\ reply'[s] = reply[s]
    BY <1>0, <1>3, <1>4 DEF Send, Raise
  <2>. QED
    BY <1>1, <1>2, <1>4, <2>1, ClosedHandler
<1>5. CASE sockOpen[s]
  <2>1. reply' = [reply EXCEPT ![s] = R] /\ stage' = stage
    BY <1>3, <1>5, Zenon DEF Send
  <2>2. reply'[s] = R /\ stage'[s] = "running"
    BY <1>0, <1>1, <2>1
  <2>3. Len(messages'[s]) \in Nat
    BY <1>2, LenNat DEF TypeInv
  <2>4. deleted'[s] \subseteq 0..Len(messages'[s]) - 1
    BY <1>2 DEF SessionInv, MarksOk
  <2>5. ReplyOk(s)'
    BY <1>2, <2>2, <2>3, <2>4, ReplyStat
  <2>6. LoginOk(s)'
    BY <1>2 DEF SessionInv, LoginOk
  <2>7. sockOpen'[s] /\ stage'[s] \in {"running", "closing"}
    BY <1>2, <1>5, <2>2
  <2>. QED
    BY <2>5, <2>6, <2>7, OpenHandler
<1>. QED
  BY <1>4, <1>5

\* LIST and UIDL: the listing shows the unmarked messages, a single entry a
\* visible one.
LEMMA OwnIndexReport ==
    ASSUME TypeInv, TypeInv', NEW s \in Session, SessionInv(s),
           NEW v \in {"LIST", "UIDL"}, IndexReport(s, v)
    PROVE  SessionInv(s)'
<1>0. /\ DOMAIN stage = Session /\ DOMAIN phase = Session
      /\ DOMAIN username = Session /\ DOMAIN sockOpen = Session
      /\ DOMAIN reply = Session /\ DOMAIN messages = Session
      /\ DOMAIN deleted = Session
  BY Domains DEF TypeInv
<1>1. stage[s] = "running" /\ buffer[s] # <<>>
  BY DEF IndexReport, Takes
<1>2. /\ phase'[s] = phase[s] /\ username'[s] = username[s]
      /\ sockOpen'[s] = sockOpen[s] /\ messages'[s] = messages[s]
      /\ deleted'[s] = deleted[s]
  BY DEF IndexReport
<1>3. CASE ~sockOpen[s]
  <2>1. stage'[s] = "closing" /\ reply'[s] = reply[s]
    BY <1>0, <1>3 DEF IndexReport, Send, Raise
  <2>. QED
    BY <1>1, <1>2, <1>3, <2>1, ClosedHandler
<1>4. CASE sockOpen[s]
  <2>l. LoginOk(s)'
    BY <1>2 DEF SessionInv, LoginOk
  <2>o. sockOpen'[s]
    BY <1>2, <1>4
  <2>n. Len(messages'[s]) \in Nat
    BY <1>2, LenNat DEF TypeInv
  <2>1. CASE Cmd(s).args = <<>>
    <3> DEFINE R == [verb |-> v, ok |-> TRUE, count |-> Len(messages[s]),
                     ids |-> Listed(s)]
    <3>0. ~Parses(s, 1)
      BY <2>1 DEF Parses
    <3>1. Send(s, R)
      BY <2>1, <3>0, Zenon DEF IndexReport
    <3>2. reply' = [reply EXCEPT ![s] = R] /\ stage' = stage
      BY <1>4, <3>1, Zenon DEF Send
    <3>3. reply'[s] = R /\ stage'[s] = "running"
      BY <1>0, <1>1, <3>2
    <3>4. Listed(s)' = Listed(s)
      BY <1>2 DEF Listed
    <3>5. ReplyOk(s)'
      BY <2>n, <3>3, <3>4, ReplyListed
    <3>. QED
      BY <2>l, <2>o, <3>3, <3>5, OpenHandler
  <2>2. CASE Cmd(s).args # <<>> /\ ~Parses(s, 1)
    <3>1. Raise(s)
      BY <2>2 DEF IndexReport
    <3>2. stage'[s] = "closing" /\ reply'[s] = reply[s]
      BY <1>0, <3>1 DEF Raise
    <3>3. ReplyOk(s)'
      BY <1>2, <3>2, ReplyKept DEF SessionInv
    <3>. QED
      BY <2>l, <2>o, <3>2, <3>3, OpenHandler
  <2>3. CASE Parses(s, 1)
    <3> DEFINE R == [verb |-> v, ok |-> TRUE, count |-> 0, ids |-> {Index(s) + 1}]
    <3>0. Cmd(s).args # <<>>
      BY <2>3 DEF Parses
    <3>1. Send(s, IF Visible(s, Index(s)) THEN R ELSE Err(v))
      BY <2>3, <3>0, Zenon DEF IndexReport
    <3>2. reply' = [reply EXCEPT ![s] = IF Visible(s, Index(s)) THEN R ELSE Err(v)]
          /\ stage' = stage
      BY <1>4, <3>1, Zenon DEF Send
    <3>3. stage'[s] = "running"
      BY <1>0, <1>1, <3>2
    <3>4. CASE Visible(s, Index(s))
      <4>1. reply'[s] = R
        BY <1>0, <3>2, <3>4
      <4>2. Index(s) \in Int
        BY <1>1, <2>3, IndexType DEF TypeInv
      <4>3. /\ 0 <= Index(s) /\ Index(s) < Len(messages'[s])
            /\ Index(s) \notin deleted'[s]
        BY <1>2, <3>4 DEF Visible, InRange
      <4>5. reply'[s].verb # "STAT" /\ reply'[s].ids = {Index(s) + 1}
        BY <4>1
      <4>4. ReplyOk(s)'
        BY <2>n, <4>2, <4>3, <4>5, ReplyIndex, Zenon
      <4>. QED
        BY <2>l, <2>o, <3>3, <4>4, OpenHandler
    <3>5. CASE ~Visible(s, Index(s))
      <4>1. ~reply'[s].ok
        BY <1>0, <3>2, <3>5 DEF Err
      <4>2. ReplyOk(s)'
        BY <4>1, ReplyVacuous
      <4>. QED
        BY <2>l, <2>o, <3>3, <4>2, OpenHandler
    <3>. QED
      BY <3>4, <3>5
  <2>. QED
    BY <2>1, <2>2, <2>3
<1>. QED
  BY <1>3, <1>4


\* RETR and TOP report only a visible message, also when the body's decode
\* raises after the +OK line.
LEMMA OwnFetch ==
    ASSUME TypeInv, TypeInv', NEW s \in Session, SessionInv(s),
           Retr(s) \/ Top(s)
    PROVE  SessionInv(s)'
<1>0. /\ DOMAIN stage = Session /\ DOMAIN phase = Session
      /\ DOMAIN username = Session /\ DOMAIN sockOpen = Session
      /\ DOMAIN reply = Session /\ DOMAIN messages = Session
      /\ DOMAIN deleted = Session
  BY Domains DEF TypeInv
<1>1. stage[s] = "running" /\ buffer[s] # <<>>
  BY DEF Retr, Top, Takes
<1>2. /\ phase'[s] = phase[s] /\ username'[s] = username[s]
      /\ sockOpen'[s] = sockOpen[s] /\ messages'[s] = messages[s]
      /\ deleted'[s] = deleted[s]
  BY DEF Retr, Top
<1>3. CASE ~sockOpen[s]
  <2>1. stage'[s] = "closing" /\ reply'[s] = reply[s]
    BY <1>0, <1>3 DEF Retr, Top, Send, SendThenRaise, Raise
  <2>. QED
    BY <1>1, <1>2, <1>3, <2>1, ClosedHandler
<1>4. CASE sockOpen[s]
  <2>l. LoginOk(s)'
    BY <1>2 DEF SessionInv, LoginOk
  <2>o. sockOpen'[s]
    BY <1>2, <1>4
  <2>1. CASE ~Parses(s, 1) \/ (Top(s) /\ ~Parses(s, 2))
    <3>1. Raise(s)
      BY <2>1 DEF Retr, Top
    <3>2. stage'[s] = "closing" /\ reply'[s] = reply[s]
      BY <1>0, <3>1 DEF Raise
    <3>3. ReplyOk(s)'
      BY <1>2, <3>2, ReplyKept DEF SessionInv
    <3>. QED
      BY <2>l, <2>o, <3>2, <3>3, OpenHandler
  <2>2. CASE Parses(s, 1) /\ (Top(s) => Parses(s, 2)) /\ ~Visible(s, Index(s))
    <3>1. \E v \in {"RETR", "TOP"} : Send(s, Err(v))
      BY <2>2 DEF Retr, Top
    <3>2. PICK v \in {"RETR", "TOP"} :
               reply' = [reply EXCEPT ![s] = Err(v)] /\ stage' = stage
      BY <1>4, <3>1, Zenon DEF Send
    <3>3. stage'[s] = "running" /\ ~reply'[s].ok
      BY <1>0, <1>1, <3>2 DEF Err
    <3>4. ReplyOk(s)'
      BY <3>3, ReplyVacuous
    <3>. QED
      BY <2>l, <2>o, <3>3, <3>4, OpenHandler
  <2>3. CASE Parses(s, 1) /\ (Top(s) => Parses(s, 2)) /\ Visible(s, Index(s))
    <3> DEFINE R(v) == [verb |-> v, ok |-> TRUE, count |-> 0,
                        ids |-> {Index(s) + 1}]
    <3>1. Send(s, R("RETR")) \/ SendThenRaise(s, R("RETR"))
          \/ Send(s, R("TOP")) \/ SendThenRaise(s, R("TOP"))
      <4>1. CASE Retr(s)
        <5>1. Parses(s, 1) /\ Visible(s, Index(s))
          BY <2>3
        <5>. QED
          BY <4>1, <5>1 DEF Retr
      <4>2. CASE Top(s)
        <5>1. Parses(s, 1) /\ Parses(s, 2) /\ Visible(s, Index(s))
          BY <2>3, <4>2
        <5>. QED
          BY <4>2, <5>1 DEF Top
      <4>. QED
        BY <4>1, <4>2
    <3>2. PICK v \in {"RETR", "TOP"} : Send(s, R(v)) \/ SendThenRaise(s, R(v))
      BY <3>1, Zenon
    <3>3. reply'[s] = R(v) /\ stage'[s] \in {"running", "closing"}
      BY <1>0, <1>1, <1>4, <3>2, OpenSend, Zenon
    <3>4. Index(s) \in Int /\ Len(messages'[s]) \in Nat
      BY <1>1, <1>2, <2>3, IndexType, LenNat DEF TypeInv
    <3>5. /\ 0 <= Index(s) /\ Index(s) < Len(messages'[s])
          /\ Index(s) \notin deleted'[s]
      BY <1>2, <2>3 DEF Visible, InRange
    <3>7. reply'[s].verb # "STAT" /\ reply'[s].ids = {Index(s) + 1}
      BY <3>2, <3>3
    <3>6. ReplyOk(s)'
      BY <3>4, <3>5, <3>7, ReplyIndex, Zenon
    <3>. QED
      BY <2>l, <2>o, <3>3, <3>6, OpenHandler
  <2>. QED
    BY <2>1, <2>2, <2>3
<1>. QED
  BY <1>3, <1>4


\* DELE adds a mark and answers +OK or -ERR: neither reply reports messages.
\* After QUIT the mark is still added, but the reply stays QUIT's.
LEMMA OwnDele ==
    ASSUME TypeInv, TypeInv', NEW s \in Session, SessionInv(s), Dele(s)
    PROVE  SessionInv(s)'
<1>0. /\ DOMAIN stage = Session /\ DOMAIN phase = Session
      /\ DOMAIN username = Session /\ DOMAIN sockOpen = Session
      /\ DOMAIN reply = Session /\ DOMAIN messages = Session
      /\ DOMAIN deleted = Session
  BY Domains DEF TypeInv
<1>1. stage[s] = "running" /\ buffer[s] # <<>>
  BY DEF Dele, Takes
<1>2. /\ phase'[s] = phase[s] /\ username'[s] = username[s]
      /\ sockOpen'[s] = sockOpen[s] /\ messages'[s] = messages[s]
  BY DEF Dele
<1>3. CASE ~sockOpen[s]
  <2>1. stage'[s] = "closing" /\ reply'[s] = reply[s]
    BY <1>0, <1>3 DEF Dele, Send, Raise
  <2>. QED
    BY <1>1, <1>2, <1>3, <2>1, ClosedHandler
<1>4. CASE sockOpen[s]
  <2>l. LoginOk(s)'
    BY <1>2 DEF SessionInv, LoginOk
  <2>o. sockOpen'[s]
    BY <1>2, <1>4
  <2>1. CASE ~Parses(s, 1)
    <3>1. Raise(s) /\ deleted' = deleted
      BY <2>1 DEF Dele
    <3>2. stage'[s] = "closing" /\ reply'[s] = reply[s]
      BY <1>0, <3>1 DEF Raise
    <3>3. ReplyOk(s)'
      BY <1>2, <3>1, <3>2, ReplyKept DEF SessionInv
    <3>. QED
      BY <2>l, <2>o, <3>2, <3>3, OpenHandler
  <2>2. CASE Parses(s, 1)
    <3>1. Send(s, Ok("DELE")) \/ Send(s, Err("DELE"))
      BY <2>2, Zenon DEF Dele
    <3>2. PICK r \in {Ok("DELE"), Err("DELE")} :
               reply' = [reply EXCEPT ![s] = r] /\ stage' = stage
      BY <1>4, <3>1, Zenon DEF Send
    <3>3. stage'[s] = "running" /\ reply'[s].verb = "DELE"
      BY <1>0, <1>1, <3>2 DEF Ok, Err
    <3>4. ReplyOk(s)'
      BY <3>3, ReplyVacuous
    <3>. QED
      BY <2>l, <2>o, <3>3, <3>4, OpenHandler
  <2>. QED
    BY <2>1, <2>2
<1>. QED
  BY <1>3, <1>4


\* In the initial state no session has been accepted: no marks, no reply.
LEMMA SInvInit == Init => SInv
<1> SUFFICES ASSUME Init, NEW t \in Session PROVE SessionInv(t)
  BY DEF SInv
<1>1. /\ stage[t] = "new" /\ phase[t] = "AUTH" /\ deleted[t] = {}
      /\ sockOpen[t] /\ reply[t] = NoReply
  BY DEF Init
<1>2. reply[t].verb = "none"
  BY <1>1 DEF NoReply
<1>. QED
  BY <1>1, <1>2 DEF SessionInv, MarksOk, FreshOk, ClosedOk, LoginOk, ReplyOk

\* Every step keeps SessionInv of every session: a step of another thread
\* leaves the session's part of the state alone, and each step of its own
\* thread is one of the handler lemmas above.
LEMMA SInvStep == TypeInv /\ TypeInv' /\ SInv /\ [Next]_vars => SInv'
<1> SUFFICES ASSUME TypeInv, TypeInv', SInv, [Next]_vars, NEW t \in Session
             PROVE  SessionInv(t)'
  BY DEF SInv
<1>0. SessionInv(t)
  BY DEF SInv
<1>1. CASE UNCHANGED vars \/ Terminated
  <2>1. View(t)' = View(t)
    BY <1>1 DEF vars, Terminated, View
  <2>. QED
    BY <1>0, <2>1, SessionFrame
<1>2. CASE \E s \in Session :
             \/ Accept(s) \/ ListenerStep(s) \/ Recv(s) \/ PeerClose(s)
             \/ SessionStep(s)
  <2>1. PICK s \in Session :
             \/ Accept(s) \/ ListenerStep(s) \/ Recv(s) \/ PeerClose(s)
             \/ SessionStep(s)
    BY <1>2
  <2>2. CASE s # t
    <3>1. View(t)' = View(t)
      BY <2>1, <2>2, Local DEF TypeInv
    <3>. QED
      BY <1>0, <3>1, SessionFrame
  <2>3. CASE s = t
    <3>0. SessionInv(s)
      BY <1>0, <2>3
    <3>1. CASE \/ Accept(s) \/ ListenerStep(s) \/ Recv(s) \/ PeerClose(s)
               \/ RecvOnClosed(s) \/ Cleanup(s) \/ CleanupExists(s)
               \/ CleanupRemove(s)
      BY <3>0, <3>1, <2>3, OwnOther
    <3>2. CASE User(s) \/ Pass(s) \/ Quit(s)
      BY <3>0, <3>2, <2>3, OwnLogin
    <3>3. CASE AuthOther(s) \/ TransOther(s) \/ Noop(s) \/ Rset(s)
      BY <3>0, <3>3, <2>3, OwnPlain
    <3>4. CASE Stat(s)
      BY <3>0, <3>4, <2>3, OwnStat
    <3>5. CASE List(s)
      BY <3>0, <3>5, <2>3, OwnIndexReport DEF List
    <3>6. CASE Uidl(s)
      BY <3>0, <3>6, <2>3, OwnIndexReport DEF Uidl
    <3>7. CASE Retr(s) \/ Top(s)
      BY <3>0, <3>7, <2>3, OwnFetch
    <3>8. CASE Dele(s)
      BY <3>0, <3>8, <2>3, OwnDele
    <3>. QED
      BY <2>1, <3>1, <3>2, <3>3, <3>4, <3>5, <3>6, <3>7, <3>8 DEF SessionStep
  <2>. QED
    BY <2>2, <2>3
<1>. QED
  BY <1>1, <1>2 DEF Next

(***************************************************************************)
(* The POP3 server never lets a session into the transaction state without *)
(* the configured user name (handle_auth's PASS branch), and whatever the  *)
(* last reply of a connection reports about the mailbox (STAT's count, the *)
(* numbers LIST, UIDL, RETR and TOP report) still agrees with the          *)
(* session's marks: proved for every mailbox, user and number of sessions. *)
(***************************************************************************)
THEOREM ReplyCorrect == Spec => [](AuthBeforeTransaction /\ ReplyConsistent)
<1>1. Init => TypeInv /\ SInv
  BY TypeInit, SInvInit
<1>2. TypeInv /\ SInv /\ [Next]_vars => (TypeInv /\ SInv)'
  BY TypeStep, SInvStep
<1>3. SInv => AuthBeforeTransaction /\ ReplyConsistent
  BY DEF SInv, SessionInv, LoginOk, ReplyOk, AuthBeforeTransaction,
         ReplyConsistent
<1>. QED
  BY <1>1, <1>2, <1>3, PTL DEF Spec


\* The POP3 server never lets a session into the TRANSACTION state without
\* the configured user name: handle_auth's PASS branch is the only way in.
THEOREM LoginEnforced == Spec => []AuthBeforeTransaction
BY ReplyCorrect, PTL

\* Every STAT count and every message number LIST, UIDL, RETR or TOP sent
\* on a connection still agrees with that session's DELE marks.
THEOREM RepliesMatchMarks == Spec => []ReplyConsistent
BY ReplyCorrect, PTL

=============================================================================
