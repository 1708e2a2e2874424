------------------------- MODULE Pop3MailboxProofs --------------------------
(***************************************************************************)
(* Proof that Pop3Session implements the safety part of Pop3Mailbox under  *)
(* the conditions of Pop3SingleMailbox: one session, a client that waits  *)
(* for each reply, and a mailbox "1.txt".."n.txt" that sorted() lists in  *)
(* numeric order.  Every step of the server is a step of the abstract     *)
(* mailbox or leaves it unchanged.                                         *)
(***************************************************************************)
EXTENDS Pop3SessionProofs, Pop3SingleMailbox, WellFoundedInduction,
        SequenceTheorems

\* cleanup_deleted's sorted(..., reverse=True) starts from the largest
\* mark: a non-empty set of marks below a bound has one.
LEMMA MaxInSet ==
    ASSUME NEW K \in Nat, NEW T \in SUBSET (0..K), T # {}
    PROVE  Max(T) \in T /\ \A y \in T : Max(T) >= y
<1> DEFINE Down == {K - x : x \in T}
         Less == OpToRel(<, Nat)
<1>1. Down \subseteq Nat /\ Down # {}
  <2>1. \A x \in T : K - x \in Nat
    OBVIOUS
  <2>2. PICK x0 \in T : TRUE
    OBVIOUS
  <2>. QED
    BY <2>1, <2>2
<1>2. IsWellFoundedOn(Less, Nat)
  BY NatLessThanWellFounded
<1>3. PICK d \in Down : \A y \in Down : ~(<<y, d>> \in Less)
  BY <1>1, <1>2, WFMin, Zenon
<1>4. \A y \in Down : ~(y < d)
  BY <1>1, <1>3 DEF OpToRel
<1>5. PICK x0 \in T : d = K - x0
  BY <1>3
<1>6. \A y \in T : x0 >= y
  <2> SUFFICES ASSUME NEW y \in T PROVE x0 >= y
    OBVIOUS
  <2>1. ~(K - y < d)
    BY <1>4
  <2>. QED
    BY <2>1, <1>5
<1>. QED
  BY <1>5, <1>6 DEF Max


-----------------------------------------------------------------------------
\* The conditions of Pop3SingleMailbox, in the form the steps use them.
\* Below ten, the key of "k.txt" is its one digit followed by ".".
LEMMA OneDigitKey ==
    ASSUME NEW k \in 1..9
    PROVE  FileKey(k) = <<48 + k, 46>>
<1>1. Digits(k) = <<48 + k>>
  BY DEF Digits
<1>2. <<48 + k>> \o <<46>> = <<48 + k, 46>>
  <2> DEFINE c == <<48 + k>> \o <<46>>
  <2>1. <<48 + k>> \in Seq(Int) /\ <<46>> \in Seq(Int)
        /\ <<48 + k, 46>> \in Seq(Int)
    OBVIOUS
  <2>2. /\ c \in Seq(Int) /\ Len(c) = 2
        /\ \A i \in 1..2 : c[i] = IF i <= 1 THEN <<48 + k>>[i] ELSE <<46>>[i - 1]
    BY <2>1, ConcatProperties
  <2>3. c[1] = 48 + k /\ c[2] = 46
    BY <2>2
  <2>4. Len(<<48 + k, 46>>) = Len(c)
        /\ \A i \in 1..Len(c) : c[i] = <<48 + k, 46>>[i]
    BY <2>2, <2>3
  <2>. QED
    BY <2>1, <2>2, <2>4, SeqEqual, Zenon
<1>. QED
  BY <1>1, <1>2 DEF FileKey

\* Below ten, sorted() orders the names as the numbers they carry.
LEMMA OneDigitOrder ==
    ASSUME NEW a \in 1..9, NEW b \in 1..9
    PROVE  LexLess(FileKey(a), FileKey(b)) <=> a < b
<1>1. FileKey(a) = <<48 + a, 46>> /\ FileKey(b) = <<48 + b, 46>>
  BY OneDigitKey
<1>2. a < b => LexLess(<<48 + a, 46>>, <<48 + b, 46>>)
  <2> SUFFICES ASSUME a < b PROVE LexLess(<<48 + a, 46>>, <<48 + b, 46>>)
    OBVIOUS
  <2>1. 0 \in 0..Len(<<48 + a, 46>>)
    OBVIOUS
  <2>. QED
    BY <2>1 DEF LexLess
<1>3. LexLess(<<48 + a, 46>>, <<48 + b, 46>>) => a < b
  BY DEF LexLess
<1>. QED
  BY <1>1, <1>2, <1>3

\* A strictly increasing map of 1..n into 1..n is the identity.
LEMMA IncreasingIsIdentity ==
    ASSUME NEW n \in Nat, NEW f \in [1..n -> 1..n],
           \A i, j \in 1..n : i < j => f[i] < f[j]
    PROVE  f = [k \in 1..n |-> k]
<1> SUFFICES ASSUME NEW i \in 1..n PROVE f[i] = i
  OBVIOUS
<1>1. i <= f[i]
  <2> DEFINE g == [j \in 1..i |-> f[j]]
  <2>1. g \in Injection(1..i, 1..f[i])
    <3>1. \A j \in 1..i : f[j] \in 1..f[i]
      <4> TAKE j \in 1..i
      <4>1. CASE j < i
        <5>1. f[j] < f[i]
          BY <4>1
        <5>. QED
          BY <5>1
      <4>. QED
        BY <4>1
    <3>2. g \in [1..i -> 1..f[i]]
      BY <3>1
    <3>3. \A a, b \in 1..i : g[a] = g[b] => a = b
      <4> TAKE a, b \in 1..i
      <4>1. a < b => f[a] < f[b]
        OBVIOUS
      <4>2. b < a => f[b] < f[a]
        OBVIOUS
      <4>. QED
        BY <4>1, <4>2
    <3>. QED
      BY <3>2, <3>3 DEF Injection, IsInjective
  <2>2. IsFiniteSet(1..f[i]) /\ Cardinality(1..f[i]) = f[i]
        /\ Cardinality(1..i) = i
    BY FS_Interval
  <2>. QED
    BY <2>1, <2>2, FS_Injection
<1>2. f[i] <= i
  <2> DEFINE g == [j \in i..n |-> f[j]]
  <2>1. g \in Injection(i..n, f[i]..n)
    <3>1. \A j \in i..n : f[j] \in f[i]..n
      <4> TAKE j \in i..n
      <4>1. CASE i < j
        <5>1. f[i] < f[j]
          BY <4>1
        <5>. QED
          BY <5>1
      <4>. QED
        BY <4>1
    <3>2. g \in [i..n -> f[i]..n]
      BY <3>1
    <3>3. \A a, b \in i..n : g[a] = g[b] => a = b
      <4> TAKE a, b \in i..n
      <4>1. a < b => f[a] < f[b]
        OBVIOUS
      <4>2. b < a => f[b] < f[a]
        OBVIOUS
      <4>. QED
        BY <4>1, <4>2
    <3>. QED
      BY <3>2, <3>3 DEF Injection, IsInjective
  <2>2. IsFiniteSet(f[i]..n) /\ Cardinality(f[i]..n) = n - f[i] + 1
        /\ Cardinality(i..n) = n - i + 1
    BY FS_Interval
  <2>. QED
    BY <2>1, <2>2, FS_Injection
<1>. QED
  BY <1>1, <1>2

\* sorted(os.listdir()) of "1.txt" .. "n.txt", n at most nine, is the
\* numeric order and nothing else.
LEMMA ListingNumeric ==
    ASSUME NEW n \in 0..9
    PROVE  Listing(1..n) = {[k \in 1..n |-> k]}
<1>1. Cardinality(1..n) = n
  <2>1. Cardinality(1..n) = IF 1 > n THEN 0 ELSE n - 1 + 1
    BY FS_Interval
  <2>. QED
    BY <2>1
<1>2. [k \in 1..n |-> k] \in Listing(1..n)
  <2>1. \A i, j \in 1..n : i < j => LexLess(FileKey(i), FileKey(j))
    BY OneDigitOrder
  <2>. QED
    BY <1>1, <2>1 DEF Listing
<1>3. ASSUME NEW seq \in Listing(1..n) PROVE seq = [k \in 1..n |-> k]
  <2>1. seq \in [1..n -> 1..n]
    BY <1>1 DEF Listing
  <2>2. \A i, j \in 1..n : i < j => LexLess(FileKey(seq[i]), FileKey(seq[j]))
    BY <1>1 DEF Listing
  <2>3. \A i, j \in 1..n : i < j => seq[i] < seq[j]
    <3> TAKE i, j \in 1..n
    <3>0. seq[i] \in 1..n /\ seq[j] \in 1..n
      BY <2>1, Zenon
    <3>a. 1..n \subseteq 1..9
      OBVIOUS
    <3>1. seq[i] \in 1..9 /\ seq[j] \in 1..9
      BY <3>0, <3>a, Zenon
    <3>2. LexLess(FileKey(seq[i]), FileKey(seq[j])) <=> seq[i] < seq[j]
      BY <3>1, OneDigitOrder
    <3>. QED
      BY <2>2, <3>2
  <2>4. n \in Nat
    OBVIOUS
  <2>. QED
    BY <2>1, <2>3, <2>4, IncreasingIsIdentity, Zenon
<1>. QED
  BY <1>2, <1>3

-----------------------------------------------------------------------------
LEMMA SingleFacts ==
    /\ \A s, t \in Session : s = t
    /\ MaxBatch = 1
    /\ MailboxSize \in Nat
    /\ InitFiles = 1..MailboxSize
    /\ Listing(InitFiles) = {Numbering}
<1>1. MailboxSize \in 0..9
  BY ConstantsAssumption, SingleMailboxAssumption, FS_CardinalityType
  DEF MailboxSize
<1>2. Listing(InitFiles) = {Numbering}
  BY <1>1, SingleMailboxAssumption, ListingNumeric DEF Numbering
<1>. QED
  BY <1>1, <1>2, SingleMailboxAssumption

\* The numeric snapshot holds message k at position k.
LEMMA NumberingFacts ==
    /\ Numbering \in Seq(InitFiles)
    /\ Len(Numbering) = MailboxSize
    /\ \A k \in 1..MailboxSize : Numbering[k] = k
    /\ {Numbering[k] : k \in DOMAIN Numbering} = InitFiles
BY SingleFacts DEF Numbering

\* The messages a session sees: the files of its snapshot.
ViewOf(s) == {messages[s][k] : k \in DOMAIN messages[s]}

\* With the numeric snapshot, the marked files are the names
\* cleanup_deleted derives from the marked indices.
LEMMA NumberedMarks ==
    ASSUME NEW msgs, NEW del, msgs = Numbering,
           del \subseteq 0..MailboxSize - 1
    PROVE  {msgs[k] : k \in {k \in DOMAIN msgs : k - 1 \in del}}
               = {MarkPath(i) : i \in del}
<1>1. \A k \in 1..MailboxSize : msgs[k] = k
  BY NumberingFacts
<1>2. DOMAIN msgs = 1..MailboxSize
  BY SingleFacts DEF Numbering
<1>3. \A i \in del : i + 1 \in 1..MailboxSize
  BY SingleFacts
<1>. QED
  BY <1>1, <1>2, <1>3, SingleFacts DEF MarkPath

LEMMA MarkedNumbered ==
    ASSUME NEW s \in Session, messages[s] = Numbering,
           deleted[s] \subseteq 0..MailboxSize - 1
    PROVE  MarkedFiles(s) = {MarkPath(i) : i \in deleted[s]}
BY NumberedMarks DEF MarkedFiles

-----------------------------------------------------------------------------
(***************************************************************************)
(* The abstract steps, stated on APhase, ViewOf and MarkedFiles of the one *)
(* session: each lemma says which change of these is which step of        *)
(* Pop3Mailbox.                                                            *)
(***************************************************************************)
LEMMA AbsStutter ==
    ASSUME NEW s \in Session,
           files' = files, APhase(s)' = APhase(s), ViewOf(s)' = ViewOf(s),
           MarkedFiles(s)' = MarkedFiles(s)
    PROVE  UNCHANGED Mailbox!avars
<1>1. \A t \in Session : t = s
  BY SingleFacts
<1>2. [t \in Session |-> APhase(t)]' = [t \in Session |-> APhase(t)]
  BY <1>1
<1>3. [t \in Session |-> ViewOf(t)]' = [t \in Session |-> ViewOf(t)]
  BY <1>1
<1>4. [t \in Session |-> MarkedFiles(t)]' = [t \in Session |-> MarkedFiles(t)]
  BY <1>1
<1>. QED
  BY <1>2, <1>3, <1>4 DEF Mailbox!avars, ViewOf

LEMMA AbsOpen ==
    ASSUME NEW s \in Session,
           files' = files, APhase(s) = "idle", APhase(s)' = "auth",
           ViewOf(s)' = files, MarkedFiles(s)' = MarkedFiles(s)
    PROVE  Mailbox!Next
<1>1. \A t \in Session : t = s
  BY SingleFacts
<1>2. [t \in Session |-> APhase(t)]' = [[t \in Session |-> APhase(t)] EXCEPT ![s] = "auth"]
  BY <1>1
<1>3. [t \in Session |-> ViewOf(t)]' = [[t \in Session |-> ViewOf(t)] EXCEPT ![s] = files]
  BY <1>1
<1>4. [t \in Session |-> MarkedFiles(t)]' = [t \in Session |-> MarkedFiles(t)]
  BY <1>1
<1>. Mailbox!Open(s)
  BY <1>2, <1>3, <1>4 DEF Mailbox!Open, ViewOf
<1>. QED
  BY DEF Mailbox!Next

LEMMA AbsLogin ==
    ASSUME NEW s \in Session,
           files' = files, APhase(s) = "auth", APhase(s)' = "trans",
           ViewOf(s)' = ViewOf(s), MarkedFiles(s)' = MarkedFiles(s)
    PROVE  Mailbox!Next
<1>1. \A t \in Session : t = s
  BY SingleFacts
<1>2. [t \in Session |-> APhase(t)]' = [[t \in Session |-> APhase(t)] EXCEPT ![s] = "trans"]
  BY <1>1
<1>3. [t \in Session |-> ViewOf(t)]' = [t \in Session |-> ViewOf(t)]
  BY <1>1
<1>4. [t \in Session |-> MarkedFiles(t)]' = [t \in Session |-> MarkedFiles(t)]
  BY <1>1
<1>. Mailbox!Login(s)
  BY <1>2, <1>3, <1>4 DEF Mailbox!Login, ViewOf
<1>. QED
  BY DEF Mailbox!Next

LEMMA AbsMark ==
    ASSUME NEW s \in Session, NEW m \in InitFiles,
           files' = files, APhase(s) = "trans", APhase(s)' = "trans",
           ViewOf(s)' = ViewOf(s), m \in ViewOf(s),
           MarkedFiles(s)' = MarkedFiles(s) \cup {m}
    PROVE  Mailbox!Next
<1>1. \A t \in Session : t = s
  BY SingleFacts
<1>2. [t \in Session |-> APhase(t)]' = [t \in Session |-> APhase(t)]
  BY <1>1
<1>3. [t \in Session |-> ViewOf(t)]' = [t \in Session |-> ViewOf(t)]
  BY <1>1
<1>4. [t \in Session |-> MarkedFiles(t)]' = [[t \in Session |-> MarkedFiles(t)] EXCEPT ![s] = @ \cup {m}]
  BY <1>1
<1>. Mailbox!Mark(s, m)
  BY <1>2, <1>3, <1>4 DEF Mailbox!Mark, ViewOf
<1>. QED
  BY DEF Mailbox!Next

LEMMA AbsUnmark ==
    ASSUME NEW s \in Session,
           files' = files, APhase(s) = "trans", APhase(s)' = "trans",
           ViewOf(s)' = ViewOf(s), MarkedFiles(s)' = {}
    PROVE  Mailbox!Next
<1>1. \A t \in Session : t = s
  BY SingleFacts
<1>2. [t \in Session |-> APhase(t)]' = [t \in Session |-> APhase(t)]
  BY <1>1
<1>3. [t \in Session |-> ViewOf(t)]' = [t \in Session |-> ViewOf(t)]
  BY <1>1
<1>4. [t \in Session |-> MarkedFiles(t)]' = [[t \in Session |-> MarkedFiles(t)] EXCEPT ![s] = {}]
  BY <1>1
<1>. Mailbox!Unmark(s)
  BY <1>2, <1>3, <1>4 DEF Mailbox!Unmark, ViewOf
<1>. QED
  BY DEF Mailbox!Next

LEMMA AbsClose ==
    ASSUME NEW s \in Session,
           files' = files, APhase(s) \in {"auth", "trans"},
           APhase(s)' = "closing",
           ViewOf(s)' = ViewOf(s), MarkedFiles(s)' = MarkedFiles(s)
    PROVE  Mailbox!Next
<1>1. \A t \in Session : t = s
  BY SingleFacts
<1>2. [t \in Session |-> APhase(t)]' = [[t \in Session |-> APhase(t)] EXCEPT ![s] = "closing"]
  BY <1>1
<1>3. [t \in Session |-> MarkedFiles(t)]' = [t \in Session |-> MarkedFiles(t)]
  BY <1>1
<1>4. [t \in Session |-> ViewOf(t)]' = [t \in Session |-> ViewOf(t)]
  BY <1>1
<1>. Mailbox!Close(s)
  BY <1>2, <1>3, <1>4 DEF Mailbox!Close, ViewOf
<1>. QED
  BY DEF Mailbox!Next

LEMMA AbsRemove ==
    ASSUME NEW s \in Session, NEW m \in InitFiles,
           m \in MarkedFiles(s), m \in files, files' = files \ {m},
           APhase(s) = "closing", APhase(s)' = "closing",
           ViewOf(s)' = ViewOf(s), MarkedFiles(s)' = MarkedFiles(s)
    PROVE  Mailbox!Next
<1>1. \A t \in Session : t = s
  BY SingleFacts
<1>2. [t \in Session |-> APhase(t)]' = [t \in Session |-> APhase(t)]
  BY <1>1
<1>3. [t \in Session |-> ViewOf(t)]' = [t \in Session |-> ViewOf(t)]
  BY <1>1
<1>4. [t \in Session |-> MarkedFiles(t)]' = [t \in Session |-> MarkedFiles(t)]
  BY <1>1
<1>. Mailbox!Remove(s, m)
  BY <1>2, <1>3, <1>4 DEF Mailbox!Remove, ViewOf
<1>. QED
  BY DEF Mailbox!Next

LEMMA AbsFinish ==
    ASSUME NEW s \in Session,
           files' = files, APhase(s) = "closing", APhase(s)' = "done",
           MarkedFiles(s) \cap files = {},
           ViewOf(s)' = ViewOf(s), MarkedFiles(s)' = MarkedFiles(s)
    PROVE  Mailbox!Next
<1>1. \A t \in Session : t = s
  BY SingleFacts
<1>2. [t \in Session |-> APhase(t)]' = [[t \in Session |-> APhase(t)] EXCEPT ![s] = "done"]
  BY <1>1
<1>3. [t \in Session |-> ViewOf(t)]' = [t \in Session |-> ViewOf(t)]
  BY <1>1
<1>4. [t \in Session |-> MarkedFiles(t)]' = [t \in Session |-> MarkedFiles(t)]
  BY <1>1
<1>. Mailbox!Finish(s)
  BY <1>2, <1>3, <1>4 DEF Mailbox!Finish, ViewOf
<1>. QED
  BY DEF Mailbox!Next


-----------------------------------------------------------------------------
(***************************************************************************)
(* The invariant the refinement rests on, for the one session t:           *)
(*  - until the thread starts the mailbox is untouched, the phase AUTH    *)
(*    and the socket open, and before the accept the snapshot is empty;    *)
(*  - from the accept on, the snapshot is the numeric listing, so index i *)
(*    is the message in "i+1.txt";                                         *)
(*  - a recv holds at most one command, and none once QUIT has closed the  *)
(*    socket: no line is dispatched after QUIT;                            *)
(*  - during cleanup_deleted the marks still to go through are marks, and  *)
(*    the file of every mark already gone through has left the mailbox;   *)
(*  - before os.remove the file of the largest pending mark exists, since *)
(*    no other thread removes files, so the commit never aborts.           *)
(***************************************************************************)
NewOk(t) ==
    /\ stage[t] \in {"new", "loading"} => files = InitFiles
    /\ stage[t] = "new" => messages[t] = <<>>

FreshAuth(t) ==
    stage[t] \in {"new", "loading"} => phase[t] = "AUTH" /\ sockOpen[t]

SnapOk(t) == stage[t] # "new" => messages[t] = Numbering

OneLine(t) ==
    /\ Len(buffer[t]) <= 1
    /\ stage[t] = "running" /\ ~sockOpen[t] => buffer[t] = <<>>

CommitOk(t) ==
    stage[t] \in {"commit", "remove"} =>
        /\ todo[t] \subseteq deleted[t]
        /\ \A i \in deleted[t] \ todo[t] : MarkPath(i) \notin files

RemoveOk(t) ==
    stage[t] = "remove" => todo[t] # {} /\ MarkPath(Max(todo[t])) \in files

RefOne(t) ==
    /\ NewOk(t) /\ FreshAuth(t) /\ SnapOk(t) /\ OneLine(t)
    /\ CommitOk(t) /\ RemoveOk(t) /\ stage[t] # "aborted"

RefInv == \A t \in Session : RefOne(t)

LEMMA RefInit == Init => RefInv
BY DEF Init, RefInv, RefOne, NewOk, FreshAuth, SnapOk, OneLine, CommitOk,
       RemoveOk

\* With one session, the invariant of the session that moves is all of it.
LEMMA RefOnly ==
    ASSUME NEW s \in Session, RefOne(s)'
    PROVE  RefInv'
BY SingleFacts DEF RefInv


-----------------------------------------------------------------------------
(***************************************************************************)
(* Dispatching the one command of a recv: the buffer empties, the thread  *)
(* stays in the loop or leaves it on an exception, and it either leaves    *)
(* the phase and the marks alone, or logs in, or adds one mark of the     *)
(* snapshot, or clears the marks; an exception changes neither.            *)
(***************************************************************************)
HandlerEffect(s) ==
    /\ UNCHANGED <<files, messages, todo>>
    /\ buffer'[s] = <<>>
    /\ \/ /\ stage'[s] = "closing"
          /\ phase'[s] = phase[s] /\ deleted'[s] = deleted[s]
       \/ /\ stage'[s] = "running"
          /\ \/ phase'[s] = phase[s] /\ deleted'[s] = deleted[s]
             \/ /\ phase[s] = "AUTH" /\ phase'[s] = "TRANSACTION"
                /\ deleted'[s] = deleted[s]
             \/ /\ phase[s] = "TRANSACTION" /\ phase'[s] = phase[s]
                /\ \E i \in 0..Len(messages[s]) - 1 :
                      deleted'[s] = deleted[s] \cup {i}
             \/ /\ phase[s] = "TRANSACTION" /\ phase'[s] = phase[s]
                /\ deleted'[s] = {}

\* The session is running a command, so it has the numeric snapshot.
LEMMA RunningSnapshot ==
    ASSUME TypeInv, NEW s \in Session, RefOne(s), stage[s] = "running"
    PROVE  /\ messages[s] = Numbering
           /\ Len(messages[s]) = MailboxSize
           /\ deleted[s] \subseteq 0..MailboxSize - 1
           /\ ViewOf(s) = InitFiles
           /\ MarkedFiles(s) = {MarkPath(i) : i \in deleted[s]}
           /\ APhase(s) = IF phase[s] = "TRANSACTION" THEN "trans" ELSE "auth"
<1>1. messages[s] = Numbering
  BY DEF RefOne, SnapOk
<1>2. Len(messages[s]) = MailboxSize /\ ViewOf(s) = InitFiles
  BY <1>1, NumberingFacts DEF ViewOf
<1>3. deleted[s] \subseteq 0..MailboxSize - 1
  BY <1>2 DEF TypeInv, MarksInSnapshot
<1>4. MarkedFiles(s) = {MarkPath(i) : i \in deleted[s]}
  BY <1>1, <1>3, MarkedNumbered
<1>. QED
  BY <1>1, <1>2, <1>3, <1>4 DEF APhase

LEMMA HandlerRefines ==
    ASSUME TypeInv, TypeInv', NEW s \in Session, RefOne(s),
           stage[s] = "running", HandlerEffect(s)
    PROVE  RefOne(s)' /\ [Mailbox!Next]_Mailbox!avars
<1>0. /\ messages[s] = Numbering
      /\ deleted[s] \subseteq 0..MailboxSize - 1
      /\ ViewOf(s) = InitFiles
      /\ MarkedFiles(s) = {MarkPath(i) : i \in deleted[s]}
      /\ APhase(s) = IF phase[s] = "TRANSACTION" THEN "trans" ELSE "auth"
  BY RunningSnapshot
<1>1. UNCHANGED <<files, messages, todo>> /\ buffer'[s] = <<>>
  BY DEF HandlerEffect
<1>2. stage'[s] \in {"running", "closing"}
  BY DEF HandlerEffect
<1>3. RefOne(s)'
  BY <1>0, <1>1, <1>2 DEF RefOne, NewOk, FreshAuth, SnapOk, OneLine,
                          CommitOk, RemoveOk
<1>4. /\ deleted'[s] \subseteq 0..MailboxSize - 1
      /\ ViewOf(s)' = ViewOf(s)
  <2>1. Len(messages'[s]) = MailboxSize
    BY <1>0, <1>1, NumberingFacts
  <2>. QED
    BY <1>1, <2>1 DEF TypeInv, MarksInSnapshot, ViewOf
<1>5. MarkedFiles(s)' = {MarkPath(i) : i \in deleted'[s]}
  <2>1. messages'[s] = Numbering
    BY <1>0, <1>1
  <2>. QED
    BY <1>4, <2>1, NumberedMarks DEF MarkedFiles
<1>f. files' = files
  BY <1>1
<1>6. CASE stage'[s] = "closing" /\ phase'[s] = phase[s]
           /\ deleted'[s] = deleted[s]
  <2>1. APhase(s)' = "closing" /\ APhase(s) \in {"auth", "trans"}
    BY <1>0, <1>6 DEF APhase
  <2>2. MarkedFiles(s)' = MarkedFiles(s)
    BY <1>0, <1>5, <1>6
  <2>3. Mailbox!Next
    BY <1>f, <1>4, <2>1, <2>2, AbsClose
  <2>. QED
    BY <2>3, <1>3
<1>7. CASE stage'[s] = "running"
  <2>1. APhase(s)' = IF phase'[s] = "TRANSACTION" THEN "trans" ELSE "auth"
    BY <1>7 DEF APhase
  <2>2. CASE phase'[s] = phase[s] /\ deleted'[s] = deleted[s]
    <3>1. APhase(s)' = APhase(s) /\ MarkedFiles(s)' = MarkedFiles(s)
      BY <1>0, <1>5, <2>1, <2>2
    <3>2. UNCHANGED Mailbox!avars
      BY <1>f, <1>4, <3>1, AbsStutter
    <3>. QED
      BY <3>2, <1>3
  <2>3. CASE phase[s] = "AUTH" /\ phase'[s] = "TRANSACTION"
             /\ deleted'[s] = deleted[s]
    <3>1. APhase(s) = "auth" /\ APhase(s)' = "trans"
      BY <1>0, <2>1, <2>3
    <3>2. MarkedFiles(s)' = MarkedFiles(s)
      BY <1>0, <1>5, <2>3
    <3>3. Mailbox!Next
      BY <1>f, <1>4, <3>1, <3>2, AbsLogin
    <3>. QED
      BY <3>3, <1>3
  <2>4. CASE /\ phase[s] = "TRANSACTION" /\ phase'[s] = phase[s]
             /\ \E i \in 0..Len(messages[s]) - 1 :
                   deleted'[s] = deleted[s] \cup {i}
    <3>1. PICK i \in 0..MailboxSize - 1 : deleted'[s] = deleted[s] \cup {i}
      BY <2>4, NumberingFacts, <1>0
    <3>2. MarkPath(i) \in InitFiles /\ MarkPath(i) \in ViewOf(s)
      BY <1>0, SingleFacts DEF MarkPath
    <3>3. MarkedFiles(s)' = MarkedFiles(s) \cup {MarkPath(i)}
      BY <1>0, <1>5, <3>1
    <3>4. APhase(s) = "trans" /\ APhase(s)' = "trans"
      BY <1>0, <2>1, <2>4
    <3>5. Mailbox!Next
      BY <1>f, <1>4, <3>2, <3>3, <3>4, AbsMark
    <3>. QED
      BY <3>5, <1>3
  <2>5. CASE phase[s] = "TRANSACTION" /\ phase'[s] = phase[s]
             /\ deleted'[s] = {}
    <3>1. MarkedFiles(s)' = {}
      BY <1>5, <2>5
    <3>2. APhase(s) = "trans" /\ APhase(s)' = "trans"
      BY <1>0, <2>1, <2>5
    <3>3. Mailbox!Next
      BY <1>f, <1>4, <3>1, <3>2, AbsUnmark
    <3>. QED
      BY <3>3, <1>3
  <2>. QED
    BY <1>7, <2>2, <2>3, <2>4, <2>5 DEF HandlerEffect
<1>. QED
  BY <1>3, <1>6, <1>7 DEF HandlerEffect


\* The one command of the recv is being dispatched, on an open socket.
LEMMA OneCommand ==
    ASSUME TypeInv, NEW s \in Session, RefOne(s), stage[s] = "running",
           buffer[s] # <<>>
    PROVE  sockOpen[s] /\ Tail(buffer[s]) = <<>>
<1>1. buffer[s] \in Seq(Commands) /\ Len(buffer[s]) <= 1
  BY DEF TypeInv, TypeOK, RefOne, OneLine
<1>2. sockOpen[s]
  BY DEF RefOne, OneLine
<1>. QED
  BY <1>1, <1>2

\* send_line on the open socket empties the buffer and keeps the thread in
\* the loop; an exception empties it and leaves the loop.
LEMMA ReplyEffect ==
    ASSUME TypeOK, NEW s \in Session, sockOpen[s], Tail(buffer[s]) = <<>>,
           NEW r
    PROVE  /\ Send(s, r) => buffer'[s] = <<>> /\ stage'[s] = stage[s]
           /\ SendThenRaise(s, r) \/ Raise(s) =>
                  buffer'[s] = <<>> /\ stage'[s] = "closing"
BY DEF Send, SendThenRaise, Raise, TypeOK

\* A handler that only answers, or raises.
LEMMA AnswerEffect ==
    ASSUME TypeInv, NEW s \in Session, RefOne(s), stage[s] = "running",
           buffer[s] # <<>>,
           UNCHANGED <<files, phase, messages, deleted, todo>>,
           \E r : Send(s, r) \/ SendThenRaise(s, r) \/ Raise(s)
    PROVE  HandlerEffect(s)
<1>1. sockOpen[s] /\ Tail(buffer[s]) = <<>>
  BY OneCommand
<1>2. PICK r : Send(s, r) \/ SendThenRaise(s, r) \/ Raise(s)
  OBVIOUS
<1>3. buffer'[s] = <<>> /\ stage'[s] \in {"running", "closing"}
  BY <1>1, <1>2, ReplyEffect DEF TypeInv
<1>. QED
  BY <1>3 DEF HandlerEffect

\* USER, any command before login, STAT, NOOP, any unknown command in
\* TRANSACTION, and QUIT: none touches the phase or the marks.
LEMMA PlainEffect ==
    ASSUME TypeInv, NEW s \in Session, RefOne(s),
           \/ User(s) \/ AuthOther(s) \/ Stat(s) \/ Noop(s) \/ TransOther(s)
           \/ Quit(s)
    PROVE  stage[s] = "running" /\ HandlerEffect(s)
<1>1. stage[s] = "running" /\ buffer[s] # <<>>
  BY DEF User, AuthOther, Stat, Noop, TransOther, Quit, Takes
<1>2. UNCHANGED <<files, phase, messages, deleted, todo>>
  BY DEF User, AuthOther, Stat, Noop, TransOther, Quit
<1>3. \E r : Send(s, r) \/ SendThenRaise(s, r) \/ Raise(s)
  BY DEF User, AuthOther, Stat, Noop, TransOther, Quit
<1>. QED
  BY <1>1, <1>2, <1>3, AnswerEffect

\* LIST, UIDL, RETR and TOP report on messages and never change marks.
LEMMA ReportEffect ==
    ASSUME TypeInv, NEW s \in Session, RefOne(s),
           List(s) \/ Uidl(s) \/ Retr(s) \/ Top(s)
    PROVE  stage[s] = "running" /\ HandlerEffect(s)
<1>1. stage[s] = "running" /\ buffer[s] # <<>>
  BY DEF List, Uidl, IndexReport, Retr, Top, Takes
<1>2. UNCHANGED <<files, phase, messages, deleted, todo>>
  BY DEF List, Uidl, IndexReport, Retr, Top
<1>3. \E r : Send(s, r) \/ SendThenRaise(s, r) \/ Raise(s)
  BY DEF List, Uidl, IndexReport, Retr, Top
<1>. QED
  BY <1>1, <1>2, <1>3, AnswerEffect


\* PASS: the phase becomes TRANSACTION only with the reply sent, on the
\* open socket.
LEMMA PassEffect ==
    ASSUME TypeInv, NEW s \in Session, RefOne(s), Pass(s)
    PROVE  stage[s] = "running" /\ HandlerEffect(s)
<1>1. stage[s] = "running" /\ buffer[s] # <<>> /\ phase[s] = "AUTH"
  BY DEF Pass, Takes
<1>2. sockOpen[s] /\ Tail(buffer[s]) = <<>>
  BY <1>1, OneCommand
<1>3. PICK r : Send(s, r)
  BY DEF Pass
<1>4. buffer'[s] = <<>> /\ stage'[s] = "running"
  BY <1>1, <1>2, <1>3, ReplyEffect DEF TypeInv
<1>5. UNCHANGED <<files, messages, deleted, todo>>
  BY DEF Pass
<1>6. phase'[s] \in {phase[s], "TRANSACTION"}
  BY <1>2 DEF Pass, TypeInv, TypeOK
<1>. QED
  BY <1>1, <1>4, <1>5, <1>6 DEF HandlerEffect

\* RSET: the marks are cleared and the reply sent on the open socket.
LEMMA RsetEffect ==
    ASSUME TypeInv, NEW s \in Session, RefOne(s), Rset(s)
    PROVE  stage[s] = "running" /\ HandlerEffect(s)
<1>1. stage[s] = "running" /\ buffer[s] # <<>> /\ phase[s] = "TRANSACTION"
  BY DEF Rset, Takes
<1>2. sockOpen[s] /\ Tail(buffer[s]) = <<>>
  BY <1>1, OneCommand
<1>3. Send(s, Ok("RSET"))
  BY DEF Rset
<1>4. buffer'[s] = <<>> /\ stage'[s] = "running"
  BY <1>1, <1>2, <1>3, ReplyEffect DEF TypeInv
<1>5. UNCHANGED <<files, phase, messages, todo>> /\ deleted'[s] = {}
  BY DEF Rset, TypeInv, TypeOK
<1>. QED
  BY <1>1, <1>4, <1>5 DEF HandlerEffect

\* DELE: a number in range adds its mark, with the reply sent on the open
\* socket; otherwise the marks are unchanged.
LEMMA DeleEffect ==
    ASSUME TypeInv, NEW s \in Session, RefOne(s), Dele(s)
    PROVE  stage[s] = "running" /\ HandlerEffect(s)
<1>1. stage[s] = "running" /\ buffer[s] # <<>> /\ phase[s] = "TRANSACTION"
  BY DEF Dele, Takes
<1>2. sockOpen[s] /\ Tail(buffer[s]) = <<>>
  BY <1>1, OneCommand
<1>3. UNCHANGED <<files, phase, messages, todo>>
  BY DEF Dele
<1>4. CASE Parses(s, 1) /\ InRange(s, Index(s))
  <2>1. /\ deleted' = [deleted EXCEPT ![s] = @ \cup {Index(s)}]
        /\ Send(s, Ok("DELE"))
    BY <1>4 DEF Dele
  <2>2. Index(s) \in 0..Len(messages[s]) - 1
    BY <1>1, <1>4, IndexType DEF InRange, TypeInv
  <2>3. deleted'[s] = deleted[s] \cup {Index(s)}
    BY <2>1 DEF TypeInv, TypeOK
  <2>4. buffer'[s] = <<>> /\ stage'[s] = "running"
    BY <1>1, <1>2, <2>1, ReplyEffect DEF TypeInv
  <2>. QED
    BY <1>1, <1>3, <2>2, <2>3, <2>4 DEF HandlerEffect
<1>5. CASE ~(Parses(s, 1) /\ InRange(s, Index(s)))
  <2>1. UNCHANGED deleted
    BY <1>5 DEF Dele
  <2>2. \E r : Send(s, r) \/ SendThenRaise(s, r) \/ Raise(s)
    BY DEF Dele
  <2>. QED
    BY <1>1, <1>3, <2>1, <2>2, AnswerEffect
<1>. QED
  BY <1>4, <1>5


-----------------------------------------------------------------------------
(***************************************************************************)
(* The listener's and the receive loop's steps.                           *)
(***************************************************************************)
\* The accept takes the numeric listing of the untouched mailbox: the
\* session opens with the whole mailbox as its view.
LEMMA AcceptStep ==
    ASSUME TypeInv, NEW s \in Session, RefOne(s), Accept(s)
    PROVE  RefOne(s)' /\ [Mailbox!Next]_Mailbox!avars
<1>1. /\ stage[s] = "new" /\ files = InitFiles
      /\ phase[s] = "AUTH" /\ sockOpen[s] /\ deleted[s] = {}
  BY DEF Accept, RefOne, NewOk, FreshAuth, TypeInv, MarksInSnapshot
<1>2. PICK seq \in Listing(files) : messages' = [messages EXCEPT ![s] = seq]
  BY DEF Accept
<1>3. messages'[s] = Numbering
  BY <1>1, <1>2, SingleFacts DEF TypeInv, TypeOK
<1>4. /\ stage'[s] = "loading"
      /\ UNCHANGED <<files, phase, deleted, sockOpen, buffer, todo>>
  BY DEF Accept, TypeInv, TypeOK
<1>5. RefOne(s)'
  BY <1>1, <1>3, <1>4 DEF RefOne, NewOk, FreshAuth, SnapOk, OneLine,
                          CommitOk, RemoveOk
<1>6. APhase(s) = "idle" /\ APhase(s)' = "auth"
  BY <1>1, <1>4 DEF APhase
<1>7. ViewOf(s)' = files
  BY <1>1, <1>3, NumberingFacts DEF ViewOf
<1>8. MarkedFiles(s)' = MarkedFiles(s)
  BY <1>1, <1>4 DEF MarkedFiles
<1>9. files' = files
  BY <1>4
<1>. QED
  BY <1>5, <1>6, <1>7, <1>8, <1>9, AbsOpen

\* Opening a file of the snapshot, starting the thread, a recv and a
\* disconnect change no message, no mark and no abstract phase, or end the
\* session.
LEMMA LoopStep ==
    ASSUME TypeInv, NEW s \in Session, RefOne(s),
           \/ LoadFile(s) \/ StartThread(s) \/ Recv(s) \/ PeerClose(s)
           \/ RecvOnClosed(s)
    PROVE  RefOne(s)' /\ [Mailbox!Next]_Mailbox!avars
<1>0. UNCHANGED <<files, phase, messages, deleted, todo>>
  BY DEF LoadFile, StartThread, Recv, PeerClose, RecvOnClosed
<1>m. ViewOf(s)' = ViewOf(s) /\ MarkedFiles(s)' = MarkedFiles(s)
      /\ files' = files
  BY <1>0 DEF ViewOf, MarkedFiles
<1>1. CASE LoadFile(s)
  <2>1. UNCHANGED <<stage, sockOpen, buffer>>
    BY <1>1 DEF LoadFile
  <2>2. RefOne(s)'
    BY <1>0, <2>1 DEF RefOne, NewOk, FreshAuth, SnapOk, OneLine,
                      CommitOk, RemoveOk
  <2>3. APhase(s)' = APhase(s)
    BY <1>0, <2>1 DEF APhase
  <2>. QED
    BY <1>m, <2>2, <2>3, AbsStutter
<1>2. CASE StartThread(s)
  <2>1. /\ stage[s] = "loading" /\ stage'[s] = "running"
        /\ UNCHANGED <<sockOpen, buffer>>
    BY <1>2 DEF StartThread, TypeInv, TypeOK
  <2>2. sockOpen[s]
    BY <2>1 DEF RefOne, FreshAuth
  <2>3. RefOne(s)'
    BY <1>0, <2>1, <2>2 DEF RefOne, NewOk, FreshAuth, SnapOk, OneLine,
                            CommitOk, RemoveOk
  <2>4. APhase(s)' = APhase(s)
    BY <1>0, <2>1 DEF APhase
  <2>. QED
    BY <1>m, <2>3, <2>4, AbsStutter
<1>3. CASE Recv(s)
  <2>1. /\ stage[s] = "running" /\ sockOpen[s]
        /\ UNCHANGED <<stage, sockOpen>>
    BY <1>3 DEF Recv
  <2>2. PICK b \in Batches : buffer' = [buffer EXCEPT ![s] = b]
    BY <1>3 DEF Recv
  <2>3. Len(buffer'[s]) <= 1
    <3>1. b \in [1..1 -> Commands]
      BY <2>2, SingleFacts DEF Batches
    <3>2. buffer'[s] = b
      BY <2>2 DEF TypeInv, TypeOK
    <3>3. Len(b) = 1
      BY <3>1
    <3>. QED
      BY <3>2, <3>3
  <2>4. RefOne(s)'
    BY <1>0, <2>1, <2>3 DEF RefOne, NewOk, FreshAuth, SnapOk, OneLine,
                            CommitOk, RemoveOk
  <2>5. APhase(s)' = APhase(s)
    BY <1>0, <2>1 DEF APhase
  <2>. QED
    BY <1>m, <2>4, <2>5, AbsStutter
<1>4. CASE PeerClose(s) \/ RecvOnClosed(s)
  <2>1. /\ stage[s] = "running" /\ stage'[s] = "closing"
        /\ UNCHANGED <<sockOpen, buffer>>
    BY <1>4 DEF PeerClose, RecvOnClosed, TypeInv, TypeOK
  <2>2. RefOne(s)'
    BY <1>0, <2>1 DEF RefOne, NewOk, FreshAuth, SnapOk, OneLine,
                      CommitOk, RemoveOk
  <2>3. APhase(s) \in {"auth", "trans"} /\ APhase(s)' = "closing"
    BY <2>1 DEF APhase
  <2>. QED
    BY <1>m, <2>2, <2>3, AbsClose
<1>. QED
  BY <1>1, <1>2, <1>3, <1>4


-----------------------------------------------------------------------------
(***************************************************************************)
(* cleanup_deleted.  The marks, the snapshot and the abstract phase stay   *)
(* fixed; a file leaves the mailbox only at os.remove, which is the        *)
(* abstract Remove of the marked message in that file, and the loop ends  *)
(* (the abstract Finish) once no marked message is left.                   *)
(***************************************************************************)
\* Past the loop the snapshot is the numeric one and the marks index it.
LEMMA ClosedSnapshot ==
    ASSUME TypeInv, NEW s \in Session, RefOne(s),
           stage[s] \in {"closing", "commit", "remove"}
    PROVE  /\ messages[s] = Numbering
           /\ deleted[s] \subseteq 0..MailboxSize - 1
           /\ MarkedFiles(s) = {MarkPath(i) : i \in deleted[s]}
           /\ APhase(s) = "closing"
<1>1. messages[s] = Numbering
  BY DEF RefOne, SnapOk
<1>2. deleted[s] \subseteq 0..MailboxSize - 1
  BY <1>1, NumberingFacts DEF TypeInv, MarksInSnapshot
<1>. QED
  BY <1>1, <1>2, MarkedNumbered DEF APhase

\* The largest pending mark is a mark, and its file is in the mailbox.
LEMMA PendingMax ==
    ASSUME TypeInv, NEW s \in Session, RefOne(s),
           stage[s] \in {"commit", "remove"}, todo[s] # {}
    PROVE  /\ Max(todo[s]) \in todo[s]
           /\ Max(todo[s]) \in deleted[s]
           /\ MarkPath(Max(todo[s])) \in InitFiles
<1>1. todo[s] \subseteq deleted[s] /\ deleted[s] \subseteq 0..MailboxSize - 1
  BY ClosedSnapshot DEF RefOne, CommitOk
<1>2. todo[s] \in SUBSET (0..MailboxSize) /\ MailboxSize \in Nat
  BY <1>1, SingleFacts
<1>3. Max(todo[s]) \in todo[s]
  BY <1>2, MaxInSet
<1>. QED
  BY <1>1, <1>3, SingleFacts DEF MarkPath

LEMMA CleanupStep ==
    ASSUME TypeInv, NEW s \in Session, RefOne(s), Cleanup(s)
    PROVE  RefOne(s)' /\ [Mailbox!Next]_Mailbox!avars
<1>1. /\ stage[s] = "closing" /\ stage'[s] = "commit"
      /\ todo'[s] = deleted[s]
      /\ UNCHANGED <<files, phase, messages, deleted, buffer>>
  BY DEF Cleanup, TypeInv, TypeOK
<1>2. RefOne(s)'
  BY <1>1 DEF RefOne, NewOk, FreshAuth, SnapOk, OneLine, CommitOk, RemoveOk
<1>3. APhase(s)' = APhase(s)
  BY <1>1 DEF APhase
<1>4. ViewOf(s)' = ViewOf(s) /\ MarkedFiles(s)' = MarkedFiles(s)
  BY <1>1 DEF ViewOf, MarkedFiles
<1>. QED
  BY <1>1, <1>2, <1>3, <1>4, AbsStutter

LEMMA ExistsStep ==
    ASSUME TypeInv, NEW s \in Session, RefOne(s), CleanupExists(s)
    PROVE  RefOne(s)' /\ [Mailbox!Next]_Mailbox!avars
<1>0. /\ stage[s] = "commit"
      /\ UNCHANGED <<files, phase, messages, deleted, buffer>>
  BY DEF CleanupExists
<1>s. /\ messages[s] = Numbering
      /\ MarkedFiles(s) = {MarkPath(i) : i \in deleted[s]}
      /\ APhase(s) = "closing"
  BY <1>0, ClosedSnapshot
<1>c. /\ todo[s] \subseteq deleted[s]
      /\ \A i \in deleted[s] \ todo[s] : MarkPath(i) \notin files
  BY <1>0 DEF RefOne, CommitOk
<1>m. ViewOf(s)' = ViewOf(s) /\ MarkedFiles(s)' = MarkedFiles(s)
      /\ files' = files
  BY <1>0 DEF ViewOf, MarkedFiles
<1>1. CASE todo[s] = {}
  <2>1. stage'[s] = "done"
    BY <1>1 DEF CleanupExists, TypeInv, TypeOK
  <2>2. RefOne(s)'
    BY <1>0, <2>1 DEF RefOne, NewOk, FreshAuth, SnapOk, OneLine, CommitOk,
                      RemoveOk
  <2>3. APhase(s)' = "done"
    BY <2>1 DEF APhase
  <2>4. MarkedFiles(s) \cap files = {}
    BY <1>1, <1>s, <1>c
  <2>. QED
    BY <1>s, <1>m, <2>2, <2>3, <2>4, AbsFinish
<1>2. CASE todo[s] # {}
  <2>1. Max(todo[s]) \in todo[s] /\ Max(todo[s]) \in deleted[s]
    BY <1>0, <1>2, PendingMax
  <2>2. CASE MarkPath(Max(todo[s])) \notin files
    <3>1. /\ todo'[s] = todo[s] \ {Max(todo[s])}
          /\ stage'[s] = "commit"
      BY <1>2, <2>2 DEF CleanupExists, TypeInv, TypeOK
    <3>2. CommitOk(s)'
      BY <1>0, <1>c, <2>1, <2>2, <3>1 DEF CommitOk
    <3>3. RefOne(s)'
      BY <1>0, <3>1, <3>2 DEF RefOne, NewOk, FreshAuth, SnapOk, OneLine,
                              RemoveOk
    <3>4. APhase(s)' = APhase(s)
      BY <1>0, <3>1 DEF APhase
    <3>. QED
      BY <1>m, <3>3, <3>4, AbsStutter
  <2>3. CASE MarkPath(Max(todo[s])) \in files
    <3>1. stage'[s] = "remove" /\ todo' = todo
      BY <1>2, <2>3 DEF CleanupExists, TypeInv, TypeOK
    <3>2. RefOne(s)'
      BY <1>0, <1>2, <1>c, <2>3, <3>1 DEF RefOne, NewOk, FreshAuth, SnapOk,
                                          OneLine, CommitOk, RemoveOk
    <3>3. APhase(s)' = APhase(s)
      BY <1>0, <3>1 DEF APhase
    <3>. QED
      BY <1>m, <3>2, <3>3, AbsStutter
  <2>. QED
    BY <2>2, <2>3
<1>. QED
  BY <1>1, <1>2

LEMMA RemoveStep ==
    ASSUME TypeInv, NEW s \in Session, RefOne(s), CleanupRemove(s)
    PROVE  RefOne(s)' /\ [Mailbox!Next]_Mailbox!avars
<1>0. /\ stage[s] = "remove"
      /\ UNCHANGED <<phase, messages, deleted, buffer>>
  BY DEF CleanupRemove
<1>s. /\ messages[s] = Numbering
      /\ MarkedFiles(s) = {MarkPath(i) : i \in deleted[s]}
      /\ APhase(s) = "closing"
  BY <1>0, ClosedSnapshot
<1>c. /\ todo[s] \subseteq deleted[s]
      /\ \A i \in deleted[s] \ todo[s] : MarkPath(i) \notin files
      /\ todo[s] # {} /\ MarkPath(Max(todo[s])) \in files
  BY <1>0 DEF RefOne, CommitOk, RemoveOk
<1> DEFINE m == MarkPath(Max(todo[s]))
<1>1. Max(todo[s]) \in deleted[s] /\ m \in InitFiles
  BY <1>0, <1>c, PendingMax
<1>2. /\ files' = files \ {m}
      /\ todo'[s] = todo[s] \ {Max(todo[s])}
      /\ stage'[s] = "commit"
  BY <1>c DEF CleanupRemove, TypeInv, TypeOK
<1>3. CommitOk(s)'
  BY <1>0, <1>1, <1>2, <1>c DEF CommitOk
<1>4. RefOne(s)'
  BY <1>0, <1>2, <1>3 DEF RefOne, NewOk, FreshAuth, SnapOk, OneLine,
                          RemoveOk
<1>5. /\ APhase(s)' = "closing"
      /\ ViewOf(s)' = ViewOf(s) /\ MarkedFiles(s)' = MarkedFiles(s)
  BY <1>0, <1>2 DEF APhase, ViewOf, MarkedFiles
<1>6. m \in MarkedFiles(s) /\ m \in files
  BY <1>1, <1>c, <1>s
<1>. QED
  BY <1>1, <1>2, <1>4, <1>5, <1>6, <1>s, AbsRemove


-----------------------------------------------------------------------------
\* Every step of the server keeps the invariant and is a step of the
\* abstract mailbox or leaves it unchanged.
LEMMA RefStep ==
    ASSUME TypeInv, TypeInv', RefInv, [Next]_vars
    PROVE  RefInv' /\ [Mailbox!Next]_Mailbox!avars
<1>1. CASE UNCHANGED vars \/ Terminated
  <2>1. UNCHANGED vars
    BY <1>1 DEF Terminated
  <2>. QED
    BY <2>1 DEF vars, RefInv, RefOne, NewOk, FreshAuth, SnapOk, OneLine,
                CommitOk, RemoveOk, Mailbox!avars, APhase, MarkedFiles
<1>2. ASSUME NEW s \in Session,
             \/ Accept(s) \/ ListenerStep(s) \/ Recv(s) \/ PeerClose(s)
             \/ SessionStep(s)
      PROVE  RefInv' /\ [Mailbox!Next]_Mailbox!avars
  <2>0. RefOne(s)
    BY DEF RefInv
  <2> SUFFICES RefOne(s)' /\ [Mailbox!Next]_Mailbox!avars
    BY RefOnly
  <2>1. CASE Accept(s)
    BY <2>0, <2>1, AcceptStep
  <2>2. CASE \/ ListenerStep(s) \/ Recv(s) \/ PeerClose(s)
             \/ RecvOnClosed(s)
    BY <2>0, <2>2, LoopStep DEF ListenerStep
  <2>3. CASE Cleanup(s)
    BY <2>0, <2>3, CleanupStep
  <2>4. CASE CleanupExists(s)
    BY <2>0, <2>4, ExistsStep
  <2>5. CASE CleanupRemove(s)
    BY <2>0, <2>5, RemoveStep
  <2>6. CASE \/ User(s) \/ Pass(s) \/ Quit(s) \/ AuthOther(s)
             \/ Stat(s) \/ List(s) \/ Uidl(s) \/ Retr(s) \/ Top(s)
             \/ Dele(s) \/ Noop(s) \/ Rset(s) \/ TransOther(s)
    <3>1. stage[s] = "running" /\ HandlerEffect(s)
      BY <2>0, <2>6, PlainEffect, ReportEffect, PassEffect, RsetEffect,
         DeleEffect
    <3>. QED
      BY <2>0, <3>1, HandlerRefines
  <2>. QED
    BY <1>2, <2>1, <2>2, <2>3, <2>4, <2>5, <2>6 DEF SessionStep
<1>. QED
  BY <1>1, <1>2 DEF Next

\* The initial state of the server is the initial state of the mailbox.
LEMMA AbsInit == Init => Mailbox!Init
BY DEF Init, Mailbox!Init, APhase, MarkedFiles

(***************************************************************************)
(* Under the conditions of Pop3SingleMailbox, every behaviour of the       *)
(* server is a behaviour of the abstract mailbox: the session sees the    *)
(* mailbox of its accept, DELE marks and RSET unmarks messages of that    *)
(* view only while it is logged in, its marks are final once the receive  *)
(* loop of handle() is left, and cleanup_deleted removes marked messages  *)
(* and no others, never aborting.  That it also always finishes (the      *)
(* fairness of Pop3Mailbox) is checked by TLC on MCSingle.                 *)
(***************************************************************************)
THEOREM MailboxRefinement == Spec => Mailbox!SafetySpec
<1>1. Init => TypeInv /\ RefInv
  BY TypeInit, RefInit
<1>2. TypeInv /\ RefInv /\ [Next]_vars => (TypeInv /\ RefInv)'
  BY TypeStep, RefStep
<1>3. TypeInv /\ RefInv /\ [Next]_vars => [Mailbox!Next]_Mailbox!avars
  BY TypeStep, RefStep
<1>4. Init => Mailbox!Init
  BY AbsInit
<1>. QED
  BY <1>1, <1>2, <1>3, <1>4, PTL DEF Spec, Mailbox!SafetySpec

=============================================================================
