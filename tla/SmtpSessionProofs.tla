------------------------- MODULE SmtpSessionProofs -------------------------
(***************************************************************************)
(* Proofs about SmtpSession, for every value of the constants that         *)
(* satisfies ConstantsAssumption: the type invariant, and that a session  *)
(* collects message data only while it is authenticated and outside an     *)
(* AUTH LOGIN exchange.                                                     *)
(***************************************************************************)
EXTENDS SmtpSession, TLAPS

\* The status codes handle sends, as TypeOK lists them.
Codes == {0, 220, 221, 235, 250, 252, 334, 354, 500, 501, 504, 530, 535}

\* The next-state relation, one disjunct per handler branch group.
LEMMA NextCases ==
    ASSUME [Next]_vars
    PROVE  \/ UNCHANGED vars \/ Terminated \/ Tick
           \/ \E s \in Session :
                 \/ Connect(s) \/ DataChunk(s) \/ UsernameLine(s)
                 \/ PasswordLine(s) \/ Helo(s) \/ Auth(s) \/ Mail(s)
                 \/ Rcpt(s) \/ Data(s) \/ Quit(s) \/ Rset(s) \/ Other(s)
                 \/ Undecodable(s) \/ PeerClose(s)
BY DEF Next, Handle

\* A DATA chunk is a sequence of lines.
LEMMA ChunkSeq == Chunks \subseteq Seq({"L", "DOT"})
<1> SUFFICES ASSUME NEW c \in Chunks PROVE c \in Seq({"L", "DOT"})
  OBVIOUS
<1>1. PICK k \in 1..2 : c \in [1..k -> {"L", "DOT"}]
  BY DEF Chunks
<1>. QED
  BY <1>1

-----------------------------------------------------------------------------
\* The initial state is well typed.
LEMMA TypeInit == Init => TypeOK
<1> SUFFICES ASSUME Init PROVE TypeOK
  OBVIOUS
<1>1. MaxMsgs \in Nat /\ MaxTime \in Nat
  BY ConstantsAssumption
<1>. QED
  BY <1>1 DEF Init, TypeOK

\* Every step keeps the state well typed.
LEMMA TypeStep == TypeOK /\ [Next]_vars => TypeOK'
<1> SUFFICES ASSUME TypeOK, [Next]_vars PROVE TypeOK'
  OBVIOUS
<1>0. MaxMsgs \in Nat /\ MaxTime \in Nat /\ BadArg \notin Addresses
      /\ NONE \notin Addresses
  BY ConstantsAssumption
<1>a. authState \in [Session -> {"none", "username", "password"}]
  BY DEF TypeOK
<1>b. reply \in [Session -> Codes]
  BY DEF TypeOK, Codes
<1>c. mailFrom \in [Session -> Addresses \cup {NONE}]
  BY DEF TypeOK
<1>d. rcptTo \in [Session -> SUBSET Addresses]
  BY DEF TypeOK
<1>e. inData \in [Session -> BOOLEAN] /\ authed \in [Session -> BOOLEAN]
  BY DEF TypeOK
<1>f. dataBuf \in [Session -> Seq({"L", "DOT"})]
  BY DEF TypeOK
<1>g. authUser \in [Session -> Users \cup {NONE, BadToken}]
  BY DEF TypeOK
<1>h. /\ accepted \in SUBSET [id : 1..MaxMsgs, from : Addresses \cup {NONE}]
      /\ nextId \in 1..MaxMsgs + 1
  BY DEF TypeOK
<1>1. CASE UNCHANGED vars \/ Terminated
  BY <1>1 DEF vars, Terminated, TypeOK
<1>2. CASE Tick
  <2>1. now' = now + 1 /\ now < MaxTime
        /\ UNCHANGED <<phase, mailFrom, rcptTo, inData, dataBuf, authed,
                       authUser, authState, reply, store, accepted, nextId>>
    BY <1>2 DEF Tick
  <2>2. now' \in 0..MaxTime
    BY <2>1, <1>0 DEF TypeOK
  <2>. QED
    BY <2>1, <2>2 DEF TypeOK
<1>3. ASSUME NEW s \in Session, Connect(s)
      PROVE  TypeOK'
  <2>1. /\ phase' = [phase EXCEPT ![s] = "open"]
        /\ reply' = [reply EXCEPT ![s] = 220]
        /\ UNCHANGED <<mailFrom, rcptTo, inData, dataBuf, authed, authUser,
                       authState, now, store, accepted, nextId>>
    BY <1>3 DEF Connect
  <2>. QED
    BY <1>0, <2>1 DEF TypeOK
<1>4. ASSUME NEW s \in Session, PeerClose(s) \/ Undecodable(s)
      PROVE  TypeOK'
  <2>1. /\ phase' = [phase EXCEPT ![s] = "closed"]
        /\ UNCHANGED <<mailFrom, rcptTo, inData, dataBuf, authed, authUser,
                       authState, reply, now, store, accepted, nextId>>
    BY <1>4 DEF PeerClose, Undecodable
  <2>. QED
    BY <1>0, <2>1 DEF TypeOK
<1>5. ASSUME NEW s \in Session, Quit(s)
      PROVE  TypeOK'
  <2>1. /\ phase' = [phase EXCEPT ![s] = "closed"]
        /\ reply' = [reply EXCEPT ![s] = 221]
        /\ UNCHANGED <<mailFrom, rcptTo, inData, dataBuf, authed, authUser,
                       authState, now, store, accepted, nextId>>
    BY <1>5 DEF Quit, Command
  <2>. QED
    BY <1>0, <2>1 DEF TypeOK
<1>6. ASSUME NEW s \in Session, Helo(s) \/ Other(s)
      PROVE  TypeOK'
  <2>1. /\ reply' \in {[reply EXCEPT ![s] = 250], [reply EXCEPT ![s] = 252],
                       [reply EXCEPT ![s] = 500]}
        /\ UNCHANGED <<phase, mailFrom, rcptTo, inData, dataBuf, authed,
                       authUser, authState, now, store, accepted, nextId>>
    BY <1>6 DEF Helo, Other, Answer
  <2>2. reply' \in [Session -> Codes]
    BY <2>1, <1>b DEF Codes
  <2>. QED
    BY <2>1, <2>2 DEF TypeOK, Codes
<1>7. ASSUME NEW s \in Session, Auth(s)
      PROVE  TypeOK'
  <2>1. /\ \/ authState' = [authState EXCEPT ![s] = "username"]
              /\ reply' = [reply EXCEPT ![s] = 334]
           \/ authState' = authState /\ reply' = [reply EXCEPT ![s] = 504]
        /\ UNCHANGED <<phase, mailFrom, rcptTo, inData, dataBuf, authed,
                       authUser, now, store, accepted, nextId>>
    BY <1>7 DEF Auth, Answer
  <2>2. /\ authState' \in [Session -> {"none", "username", "password"}]
        /\ reply' \in [Session -> Codes]
    BY <2>1, <1>a, <1>b DEF Codes
  <2>3. UNCHANGED <<phase, mailFrom, rcptTo, inData, dataBuf, authed,
                    authUser, now, store, accepted, nextId>>
    BY <2>1
  <2>. QED
    BY <2>2, <2>3 DEF TypeOK, Codes
<1>9. ASSUME NEW s \in Session, Mail(s)
      PROVE  TypeOK'
  <2>1. PICK a \in Addresses \cup {BadArg} :
             \/ ~authed[s] /\ Answer(s, 530)
             \/ /\ authed[s] /\ a # BadArg
                /\ mailFrom' = [mailFrom EXCEPT ![s] = a]
                /\ reply' = [reply EXCEPT ![s] = 250]
                /\ UNCHANGED <<phase, rcptTo, inData, dataBuf, authed, authUser,
                               authState, now, store, accepted, nextId>>
             \/ authed[s] /\ a = BadArg /\ Answer(s, 501)
    BY <1>9 DEF Mail
  <2>2. UNCHANGED <<phase, rcptTo, inData, dataBuf, authed, authUser,
                    authState, now, store, accepted, nextId>>
    BY <2>1 DEF Answer
  <2>3. /\ mailFrom' \in [Session -> Addresses \cup {NONE}]
        /\ reply' \in [Session -> Codes]
    BY <2>1, <1>0, <1>b, <1>c DEF Answer, Codes
  <2>. QED
    BY <2>2, <2>3 DEF TypeOK, Codes
<1>10. ASSUME NEW s \in Session, Rcpt(s)
       PROVE  TypeOK'
  <2>1. PICK a \in Addresses \cup {BadArg} :
             \/ ~authed[s] /\ Answer(s, 530)
             \/ /\ authed[s] /\ a # BadArg
                /\ rcptTo' = [rcptTo EXCEPT ![s] = @ \cup {a}]
                /\ reply' = [reply EXCEPT ![s] = 250]
                /\ UNCHANGED <<phase, mailFrom, inData, dataBuf, authed,
                               authUser, authState, now, store, accepted,
                               nextId>>
             \/ authed[s] /\ a = BadArg /\ Answer(s, 501)
    BY <1>10 DEF Rcpt
  <2>2. UNCHANGED <<phase, mailFrom, inData, dataBuf, authed, authUser,
                    authState, now, store, accepted, nextId>>
    BY <2>1 DEF Answer
  <2>3. /\ rcptTo' \in [Session -> SUBSET Addresses]
        /\ reply' \in [Session -> Codes]
    BY <2>1, <1>0, <1>b, <1>d DEF Answer, Codes
  <2>. QED
    BY <2>2, <2>3 DEF TypeOK, Codes
<1>11. ASSUME NEW s \in Session, Data(s)
       PROVE  TypeOK'
  <2>1. /\ \/ /\ inData' = inData /\ dataBuf' = dataBuf
              /\ reply' = [reply EXCEPT ![s] = 530]
           \/ /\ inData' = [inData EXCEPT ![s] = TRUE]
              /\ dataBuf' = [dataBuf EXCEPT ![s] = <<>>]
              /\ reply' = [reply EXCEPT ![s] = 354]
        /\ UNCHANGED <<phase, mailFrom, rcptTo, authed, authUser, authState,
                       now, store, accepted, nextId>>
    BY <1>11 DEF Data, Answer
  <2>2. /\ inData' \in [Session -> BOOLEAN]
        /\ dataBuf' \in [Session -> Seq({"L", "DOT"})]
        /\ reply' \in [Session -> Codes]
    <3>0. /\ inData' = inData \/ inData' = [inData EXCEPT ![s] = TRUE]
          /\ dataBuf' = dataBuf \/ dataBuf' = [dataBuf EXCEPT ![s] = <<>>]
      BY <2>1
    <3>1. inData' \in [Session -> BOOLEAN]
      <4>1. CASE inData' = inData
        BY <4>1, <1>e
      <4>2. CASE inData' = [inData EXCEPT ![s] = TRUE]
        BY <4>2, <1>e
      <4>. QED
        BY <3>0, <4>1, <4>2
    <3>2. dataBuf' \in [Session -> Seq({"L", "DOT"})]
      <4>1. CASE dataBuf' = dataBuf
        BY <4>1, <1>f
      <4>2. CASE dataBuf' = [dataBuf EXCEPT ![s] = <<>>]
        BY <4>2, <1>f
      <4>. QED
        BY <3>0, <4>1, <4>2
    <3>3. reply' \in [Session -> Codes]
      BY <2>1, <1>b DEF Codes
    <3>. QED
      BY <3>1, <3>2, <3>3
  <2>3. UNCHANGED <<phase, mailFrom, rcptTo, authed, authUser, authState,
                    now, store, accepted, nextId>>
    BY <2>1
  <2>. QED
    BY <2>2, <2>3 DEF TypeOK, Codes
<1>12. ASSUME NEW s \in Session, Rset(s)
       PROVE  TypeOK'
  <2>1. /\ mailFrom' = [mailFrom EXCEPT ![s] = NONE]
        /\ rcptTo' = [rcptTo EXCEPT ![s] = {}]
        /\ authed' = [authed EXCEPT ![s] = FALSE]
        /\ authUser' = [authUser EXCEPT ![s] = NONE]
        /\ dataBuf' = [dataBuf EXCEPT ![s] = <<>>]
        /\ reply' = [reply EXCEPT ![s] = 250]
        /\ UNCHANGED <<phase, inData, authState, now, store, accepted, nextId>>
    BY <1>12 DEF Rset
  <2>. QED
    BY <2>1 DEF TypeOK
<1>13. ASSUME NEW s \in Session, UsernameLine(s)
       PROVE  TypeOK'
  <2>1. PICK tok \in Credentials :
             \/ /\ tok = NotB64
                /\ reply' = [reply EXCEPT ![s] = 501]
                /\ authState' = [authState EXCEPT ![s] = "none"]
                /\ UNCHANGED authUser
             \/ /\ tok # NotB64
                /\ authUser' = [authUser EXCEPT ![s] = tok]
                /\ authState' = [authState EXCEPT ![s] = "password"]
                /\ reply' = [reply EXCEPT ![s] = 334]
    BY <1>13 DEF UsernameLine
  <2>2. UNCHANGED <<phase, mailFrom, rcptTo, inData, dataBuf, authed, now,
                    store, accepted, nextId>>
    BY <1>13 DEF UsernameLine
  <2>3. tok # NotB64 => tok \in Users \cup {BadToken}
    BY DEF Credentials
  <2>4. /\ authUser' \in [Session -> Users \cup {NONE, BadToken}]
        /\ authState' \in [Session -> {"none", "username", "password"}]
        /\ reply' \in [Session -> Codes]
    BY <2>1, <2>3, <1>a, <1>b, <1>g DEF Codes
  <2>. QED
    BY <2>2, <2>4 DEF TypeOK, Codes
<1>14. ASSUME NEW s \in Session, PasswordLine(s)
       PROVE  TypeOK'
  <2>1. /\ authState' = [authState EXCEPT ![s] = "none"]
        /\ \/ authed' = authed
           \/ authed' = [authed EXCEPT ![s] = TRUE]
        /\ reply' \in {[reply EXCEPT ![s] = 501], [reply EXCEPT ![s] = 235],
                       [reply EXCEPT ![s] = 535]}
        /\ UNCHANGED <<phase, mailFrom, rcptTo, inData, dataBuf, authUser, now,
                       store, accepted, nextId>>
    BY <1>14 DEF PasswordLine
  <2>2. /\ authed' \in [Session -> BOOLEAN]
        /\ reply' \in [Session -> Codes]
    <3>0. authed' = authed \/ authed' = [authed EXCEPT ![s] = TRUE]
      BY <2>1
    <3>1. authed' \in [Session -> BOOLEAN]
      <4>1. CASE authed' = authed
        BY <4>1, <1>e
      <4>2. CASE authed' = [authed EXCEPT ![s] = TRUE]
        BY <4>2, <1>e
      <4>. QED
        BY <3>0, <4>1, <4>2
    <3>2. reply' \in [Session -> Codes]
      BY <2>1, <1>b DEF Codes
    <3>. QED
      BY <3>1, <3>2
  <2>3. UNCHANGED <<phase, mailFrom, rcptTo, inData, dataBuf, authUser, now,
                    store, accepted, nextId>>
    BY <2>1
  <2>4. authState' \in [Session -> {"none", "username", "password"}]
    BY <2>1, <1>a
  <2>. QED
    BY <2>2, <2>3, <2>4 DEF TypeOK, Codes
<1>8. ASSUME NEW s \in Session, DataChunk(s)
      PROVE  TypeOK'
  <2>1. PICK c \in Chunks :
             LET b == dataBuf[s] \o c IN
             /\ Len(b) <= MaxBuf
             /\ \/ /\ ~HasEnd(b)
                   /\ dataBuf' = [dataBuf EXCEPT ![s] = b]
                   /\ UNCHANGED <<phase, mailFrom, rcptTo, inData, authed,
                                  authUser, authState, reply, now, store,
                                  accepted, nextId>>
                \/ HasEnd(b) /\ Deliver(s)
    BY <1>8 DEF DataChunk
  <2>2. dataBuf[s] \o c \in Seq({"L", "DOT"})
    BY ChunkSeq DEF TypeOK
  <2>3. CASE ~HasEnd(dataBuf[s] \o c)
    <3>1. /\ dataBuf' = [dataBuf EXCEPT ![s] = dataBuf[s] \o c]
          /\ UNCHANGED <<phase, mailFrom, rcptTo, inData, authed, authUser,
                         authState, reply, now, store, accepted, nextId>>
      BY <2>1, <2>3
    <3>2. dataBuf' \in [Session -> Seq({"L", "DOT"})]
      BY <3>1, <2>2 DEF TypeOK
    <3>. QED
      BY <3>1, <3>2 DEF TypeOK
  <2>4. CASE HasEnd(dataBuf[s] \o c)
    <3>1. Deliver(s)
      BY <2>1, <2>4
    <3>2. /\ nextId \in 1..MaxMsgs
          /\ nextId' = nextId + 1
          /\ accepted' = accepted \cup {[id |-> nextId, from |-> mailFrom[s]]}
          /\ inData' = [inData EXCEPT ![s] = FALSE]
          /\ dataBuf' = [dataBuf EXCEPT ![s] = <<>>]
          /\ mailFrom' = [mailFrom EXCEPT ![s] = NONE]
          /\ rcptTo' = [rcptTo EXCEPT ![s] = {}]
          /\ reply' = [reply EXCEPT ![s] = 250]
          /\ UNCHANGED <<phase, authed, authUser, authState, now>>
      BY <3>1, <1>0 DEF Deliver, TypeOK
    <3>3. store' \in [FileNames -> 0..MaxMsgs]
      <4>1. CASE mailFrom[s] = NONE
        BY <3>1, <4>1 DEF Deliver, Save, TypeOK
      <4>2. CASE mailFrom[s] # NONE
        <5>1. <<now, mailFrom[s]>> \in FileNames
          BY <4>2 DEF TypeOK, FileNames
        <5>2. store' = [store EXCEPT ![<<now, mailFrom[s]>>] = nextId]
          BY <3>1, <4>2 DEF Deliver, Save
        <5>. QED
          BY <3>2, <5>1, <5>2 DEF TypeOK
      <4>. QED
        BY <4>1, <4>2
    <3>4. /\ accepted' \in SUBSET [id : 1..MaxMsgs, from : Addresses \cup {NONE}]
          /\ nextId' \in 1..MaxMsgs + 1
      <4>1. [id |-> nextId, from |-> mailFrom[s]]
              \in [id : 1..MaxMsgs, from : Addresses \cup {NONE}]
        BY <3>2, <1>c
      <4>. QED
        BY <3>2, <4>1, <1>h, <1>0
    <3>5. /\ inData' \in [Session -> BOOLEAN]
          /\ dataBuf' \in [Session -> Seq({"L", "DOT"})]
          /\ mailFrom' \in [Session -> Addresses \cup {NONE}]
          /\ rcptTo' \in [Session -> SUBSET Addresses]
          /\ reply' \in [Session -> Codes]
      BY <3>2 DEF TypeOK, Codes
    <3>. QED
      BY <3>2, <3>3, <3>4, <3>5 DEF TypeOK, Codes
  <2>. QED
    BY <2>3, <2>4
<1>. QED
  BY <1>1, <1>2, <1>3, <1>4, <1>5, <1>6, <1>7, <1>8, <1>9, <1>10, <1>11,
     <1>12, <1>13, <1>14, NextCases

-----------------------------------------------------------------------------
\* The three fields DataModeAuthenticated relates, and their types.
ModeVars == <<inData, authed, authState>>

\* A step that leaves a session's mode, login and AUTH state alone, or
\* changes the login or the AUTH state of a session outside data mode, or
\* enters data mode from an authenticated command state, or leaves it,
\* keeps every session in data mode authenticated.
LEMMA ModeStep ==
    ASSUME TypeOK, DataModeAuthenticated,
           \/ UNCHANGED ModeVars
           \/ \E s \in Session :
                 /\ ~inData[s] /\ UNCHANGED inData
                 /\ authed' \in {authed, [authed EXCEPT ![s] = TRUE],
                                 [authed EXCEPT ![s] = FALSE]}
                 /\ authState' \in {authState,
                                    [authState EXCEPT ![s] = "none"],
                                    [authState EXCEPT ![s] = "username"],
                                    [authState EXCEPT ![s] = "password"]}
           \/ \E s \in Session :
                 /\ authed[s] /\ authState[s] = "none"
                 /\ inData' = [inData EXCEPT ![s] = TRUE]
                 /\ UNCHANGED <<authed, authState>>
           \/ \E s \in Session :
                 /\ inData' = [inData EXCEPT ![s] = FALSE]
                 /\ UNCHANGED <<authed, authState>>
    PROVE  DataModeAuthenticated'
<1>a. /\ inData \in [Session -> BOOLEAN]
      /\ authed \in [Session -> BOOLEAN]
      /\ authState \in [Session -> {"none", "username", "password"}]
  BY DEF TypeOK
<1> SUFFICES ASSUME NEW t \in Session, inData'[t]
             PROVE  authed'[t] /\ authState'[t] = "none"
  BY DEF DataModeAuthenticated
<1>0. inData[t] => authed[t] /\ authState[t] = "none"
  BY DEF DataModeAuthenticated
<1>1. CASE UNCHANGED ModeVars
  BY <1>0, <1>1 DEF ModeVars
<1>2. ASSUME NEW s \in Session,
             ~inData[s], UNCHANGED inData,
             authed' \in {authed, [authed EXCEPT ![s] = TRUE],
                          [authed EXCEPT ![s] = FALSE]},
             authState' \in {authState,
                             [authState EXCEPT ![s] = "none"],
                             [authState EXCEPT ![s] = "username"],
                             [authState EXCEPT ![s] = "password"]}
      PROVE  authed'[t] /\ authState'[t] = "none"
  <2>1. t # s /\ inData[t]
    BY <1>2
  <2>2. authed'[t] = authed[t]
    BY <2>1, <1>2, <1>a
  <2>3. authState'[t] = authState[t]
    BY <2>1, <1>2, <1>a
  <2>. QED
    BY <2>1, <2>2, <2>3, <1>0
<1>3. ASSUME NEW s \in Session,
             authed[s], authState[s] = "none",
             inData' = [inData EXCEPT ![s] = TRUE],
             UNCHANGED <<authed, authState>>
      PROVE  authed'[t] /\ authState'[t] = "none"
  <2>1. CASE t = s
    BY <1>3, <2>1
  <2>2. CASE t # s
    BY <1>3, <2>2, <1>0, <1>a
  <2>. QED
    BY <2>1, <2>2
<1>4. ASSUME NEW s \in Session,
             inData' = [inData EXCEPT ![s] = FALSE],
             UNCHANGED <<authed, authState>>
      PROVE  authed'[t] /\ authState'[t] = "none"
  <2>1. t # s /\ inData[t]
    BY <1>4, <1>a
  <2>. QED
    BY <1>4, <2>1, <1>0
<1>. QED
  BY <1>1, <1>2, <1>3, <1>4

(***************************************************************************)
(* Every state the SMTP server reaches is well typed, for any users,       *)
(* addresses and bounds: the sender a MAIL stores is an address, a file   *)
(* name save_email_to_file builds is a second and an address, and a       *)
(* message number is within its bound.                                     *)
(***************************************************************************)
THEOREM SmtpTypeCorrect == Spec => []TypeOK
<1>1. Init => TypeOK
  BY TypeInit
<1>2. TypeOK /\ [Next]_vars => TypeOK'
  BY TypeStep
<1>. QED
  BY <1>1, <1>2, PTL DEF Spec


\* No handler branch takes a session into data mode unauthenticated or
\* while an AUTH LOGIN exchange is waiting for a credential.
LEMMA DataStep ==
    TypeOK /\ DataModeAuthenticated /\ [Next]_vars => DataModeAuthenticated'
<1> SUFFICES ASSUME TypeOK, DataModeAuthenticated, [Next]_vars
             PROVE  DataModeAuthenticated'
  OBVIOUS
<1>1. CASE UNCHANGED vars \/ Terminated \/ Tick
  BY <1>1, ModeStep DEF vars, Terminated, Tick, ModeVars
<1>2. ASSUME NEW s \in Session,
             \/ Connect(s) \/ PeerClose(s) \/ Undecodable(s) \/ Quit(s)
             \/ Helo(s) \/ Other(s)
      PROVE  DataModeAuthenticated'
  <2>1. UNCHANGED ModeVars
    BY <1>2 DEF Connect, PeerClose, Undecodable, Quit, Helo, Other, Answer,
                ModeVars
  <2>. QED
    BY <2>1, ModeStep
<1>3. ASSUME NEW s \in Session, Mail(s) \/ Rcpt(s)
      PROVE  DataModeAuthenticated'
  <2>1. CASE Mail(s)
    <3>1. PICK a \in Addresses \cup {BadArg} :
               \/ ~authed[s] /\ Answer(s, 530)
               \/ /\ authed[s] /\ a # BadArg
                  /\ mailFrom' = [mailFrom EXCEPT ![s] = a]
                  /\ reply' = [reply EXCEPT ![s] = 250]
                  /\ UNCHANGED <<phase, rcptTo, inData, dataBuf, authed,
                                 authUser, authState, now, store, accepted,
                                 nextId>>
               \/ authed[s] /\ a = BadArg /\ Answer(s, 501)
      BY <2>1 DEF Mail
    <3>2. UNCHANGED ModeVars
      BY <3>1 DEF Answer, ModeVars
    <3>. QED
      BY <3>2, ModeStep
  <2>2. CASE Rcpt(s)
    <3>1. PICK a \in Addresses \cup {BadArg} :
               \/ ~authed[s] /\ Answer(s, 530)
               \/ /\ authed[s] /\ a # BadArg
                  /\ rcptTo' = [rcptTo EXCEPT ![s] = @ \cup {a}]
                  /\ reply' = [reply EXCEPT ![s] = 250]
                  /\ UNCHANGED <<phase, mailFrom, inData, dataBuf, authed,
                                 authUser, authState, now, store, accepted,
                                 nextId>>
               \/ authed[s] /\ a = BadArg /\ Answer(s, 501)
      BY <2>2 DEF Rcpt
    <3>2. UNCHANGED ModeVars
      BY <3>1 DEF Answer, ModeVars
    <3>. QED
      BY <3>2, ModeStep
  <2>. QED
    BY <1>3, <2>1, <2>2
<1>4. ASSUME NEW s \in Session,
             Auth(s) \/ UsernameLine(s) \/ PasswordLine(s) \/ Rset(s)
      PROVE  DataModeAuthenticated'
  <2>1. ~inData[s] /\ UNCHANGED inData
    BY <1>4 DEF Auth, UsernameLine, PasswordLine, Rset, Command, Answer
  <2>2. authed' \in {authed, [authed EXCEPT ![s] = TRUE],
                     [authed EXCEPT ![s] = FALSE]}
    BY <1>4 DEF Auth, UsernameLine, PasswordLine, Rset, Answer
  <2>3. authState' \in {authState,
                        [authState EXCEPT ![s] = "none"],
                        [authState EXCEPT ![s] = "username"],
                        [authState EXCEPT ![s] = "password"]}
    BY <1>4 DEF Auth, UsernameLine, PasswordLine, Rset, Answer
  <2>. QED
    BY <2>1, <2>2, <2>3, ModeStep
<1>5. ASSUME NEW s \in Session, Data(s)
      PROVE  DataModeAuthenticated'
  <2>1. CASE ~authed[s] /\ Answer(s, 530)
    BY <2>1, ModeStep DEF Answer, ModeVars
  <2>2. CASE /\ authed[s]
             /\ inData' = [inData EXCEPT ![s] = TRUE]
             /\ UNCHANGED <<authed, authState>>
    <3>1. authState[s] = "none"
      BY <1>5 DEF Data, Command
    <3>2. \E x \in Session :
               /\ authed[x] /\ authState[x] = "none"
               /\ inData' = [inData EXCEPT ![x] = TRUE]
               /\ UNCHANGED <<authed, authState>>
      BY <2>2, <3>1
    <3>. QED
      BY <3>2, ModeStep
  <2>. QED
    BY <1>5, <2>1, <2>2 DEF Data
<1>6. ASSUME NEW s \in Session, DataChunk(s)
      PROVE  DataModeAuthenticated'
  <2>1. \/ UNCHANGED ModeVars
        \/ /\ inData' = [inData EXCEPT ![s] = FALSE]
           /\ UNCHANGED <<authed, authState>>
    BY <1>6 DEF DataChunk, Deliver, ModeVars
  <2>. QED
    BY <2>1, ModeStep
<1>. QED
  BY <1>1, <1>2, <1>3, <1>4, <1>5, <1>6, NextCases

(***************************************************************************)
(* A session is in data mode only while it is authenticated and no AUTH   *)
(* LOGIN exchange is waiting (DataModeAuthenticated): handle's DATA branch *)
(* checks self.authenticated, RSET and AUTH are only read outside data      *)
(* mode, and the end of a message leaves data mode.  Proved for any        *)
(* number of sessions, users, addresses and bounds.                        *)
(***************************************************************************)
THEOREM DataAuthCorrect == Spec => []DataModeAuthenticated
<1>1. Init => TypeOK /\ DataModeAuthenticated
  BY TypeInit DEF Init, DataModeAuthenticated
<1>2. TypeOK /\ DataModeAuthenticated /\ [Next]_vars
        => (TypeOK /\ DataModeAuthenticated)'
  BY TypeStep, DataStep
<1>. QED
  BY <1>1, <1>2, PTL DEF Spec

=============================================================================
