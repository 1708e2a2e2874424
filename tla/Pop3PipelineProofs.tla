------------------------- MODULE Pop3PipelineProofs -------------------------
(***************************************************************************)
(* Proofs about the framing of a session's input, for any number of       *)
(* sessions and any mailbox.  The server never advertises PIPELINING (its  *)
(* CAPA list is empty), so a conforming client sends a command only after *)
(* the reply to the previous one: every recv completes at most one line   *)
(* (MaxBatch = 1).  Then QUIT, which closes the socket, is the last line  *)
(* the loop of handle() dispatches, and the marks that cleanup_deleted     *)
(* commits are the ones the session had when it answered QUIT.  With two  *)
(* lines in one recv (MCQuitPipeline) a DELE after QUIT still counts.     *)
(***************************************************************************)
EXTENDS Pop3SessionProofs

\* The command handlers: the steps that dispatch the head of the buffer.
Handler(s) ==
    \/ User(s) \/ Pass(s) \/ Quit(s) \/ AuthOther(s)
    \/ Stat(s) \/ List(s) \/ Uidl(s) \/ Retr(s) \/ Top(s) \/ Dele(s)
    \/ Noop(s) \/ Rset(s) \/ TransOther(s)

(***************************************************************************)
(* What the inductive invariant says of the buffer of session t: it holds *)
(* at most one line; it is empty until the thread runs (Accept and the    *)
(* loads never touch it); and it is empty once the thread has closed its  *)
(* own socket inside the loop, because the QUIT that closed it was the    *)
(* only line and send_line consumed it.                                    *)
(***************************************************************************)
BufOk(t) ==
    /\ Len(buffer[t]) <= 1
    /\ stage[t] \in {"new", "loading"} => buffer[t] = <<>>
    /\ stage[t] = "running" /\ ~sockOpen[t] => buffer[t] = <<>>

BufInv == \A t \in Session : BufOk(t)

-----------------------------------------------------------------------------
\* A step that keeps session t's stage, socket and buffer keeps BufOk(t).
LEMMA BufFrame ==
    ASSUME NEW t, BufOk(t), stage'[t] = stage[t], sockOpen'[t] = sockOpen[t],
           buffer'[t] = buffer[t]
    PROVE  BufOk(t)'
BY DEF BufOk

\* An empty buffer satisfies BufOk whatever the stage.
LEMMA BufEmpty ==
    ASSUME NEW t, buffer'[t] = <<>>
    PROVE  BufOk(t)'
BY DEF BufOk

\* A handler consumes the head of the buffer or, raising, drops it all.
LEMMA HandlerBuffer ==
    ASSUME NEW s, Handler(s)
    PROVE  /\ buffer[s] # <<>>
           /\ \/ buffer' = [buffer EXCEPT ![s] = Tail(buffer[s])]
              \/ buffer' = [buffer EXCEPT ![s] = <<>>]
<1>. USE DEF Takes, Send, SendThenRaise, Raise
<1>1. CASE User(s) \/ Pass(s) \/ Quit(s) \/ AuthOther(s)
  BY <1>1, Zenon DEF User, Pass, Quit, AuthOther
<1>2. CASE Stat(s) \/ Noop(s) \/ Rset(s) \/ TransOther(s)
  BY <1>2, Zenon DEF Stat, Noop, Rset, TransOther
<1>3. CASE List(s) \/ Uidl(s)
  BY <1>3, Zenon DEF List, Uidl, IndexReport
<1>4. CASE Retr(s)
  BY <1>4, Zenon DEF Retr
<1>5. CASE Top(s)
  BY <1>5, Zenon DEF Top
<1>6. CASE Dele(s)
  BY <1>6, Zenon DEF Dele
<1>. QED
  BY <1>1, <1>2, <1>3, <1>4, <1>5, <1>6 DEF Handler

\* With at most one line, a handler leaves the buffer empty.
LEMMA HandlerEmpties ==
    ASSUME TypeOK, NEW s \in Session, BufOk(s), Handler(s)
    PROVE  buffer'[s] = <<>> /\ \A t \in Session \ {s} : buffer'[t] = buffer[t]
<1>1. buffer[s] \in Seq(Commands) /\ DOMAIN buffer = Session
  BY DEF TypeOK
<1>2. buffer[s] # <<>> /\ Len(buffer[s]) <= 1
  BY HandlerBuffer DEF BufOk
<1>3. Tail(buffer[s]) = <<>>
  BY <1>1, <1>2
<1>. QED
  BY <1>1, <1>3, HandlerBuffer

\* Every step of session s, or of the listener for s, leaves t's buffer.
LEMMA LocalBuffer ==
    ASSUME TypeOK, NEW s \in Session, NEW t \in Session, s # t,
           \/ Accept(s) \/ ListenerStep(s) \/ Recv(s) \/ PeerClose(s)
           \/ SessionStep(s)
    PROVE  buffer'[t] = buffer[t]
<1>0. DOMAIN buffer = Session
  BY DEF TypeOK
<1>1. CASE Handler(s)
  BY <1>0, <1>1, HandlerBuffer
<1>2. CASE ~Handler(s)
  BY <1>0, <1>2 DEF Handler, SessionStep, Accept, ListenerStep, LoadFile,
                    StartThread, Recv, PeerClose, RecvOnClosed, Cleanup,
                    CleanupExists, CleanupRemove
<1>. QED
  BY <1>1, <1>2

\* Before any connection, every buffer is empty.
LEMMA BufInit == Init => BufInv
BY DEF Init, BufInv, BufOk

(***************************************************************************)
(* One step of session t's own thread, or of the listener for it, keeps   *)
(* BufOk(t) when every recv completes at most one line.                    *)
(***************************************************************************)
LEMMA OwnBuffer ==
    ASSUME MaxBatch = 1, TypeOK, NEW s \in Session, BufOk(s),
           \/ Accept(s) \/ ListenerStep(s) \/ Recv(s) \/ PeerClose(s)
           \/ SessionStep(s)
    PROVE  BufOk(s)'
<1>0. DOMAIN buffer = Session /\ DOMAIN stage = Session
      /\ DOMAIN sockOpen = Session
  BY DEF TypeOK
<1>1. CASE Handler(s)
  BY <1>1, HandlerEmpties, BufEmpty
<1>2. CASE Accept(s) \/ StartThread(s)
  <2>1. buffer[s] = <<>> /\ buffer' = buffer
    BY <1>2 DEF BufOk, Accept, StartThread
  <2>. QED
    BY <2>1, BufEmpty
<1>3. CASE Recv(s)
  <2>1. PICK b \in Batches : buffer' = [buffer EXCEPT ![s] = b]
    BY <1>3 DEF Recv
  <2>2. b \in [1..1 -> Commands]
    BY <2>1 DEF Batches
  <2>3. Len(b) = 1
    BY <2>2
  <2>4. stage'[s] = "running" /\ sockOpen'[s]
    BY <1>3, <1>0 DEF Recv
  <2>5. Len(buffer'[s]) = 1
    BY <1>0, <2>1, <2>3
  <2>. QED
    BY <2>4, <2>5 DEF BufOk
<1>4. CASE \/ PeerClose(s) \/ RecvOnClosed(s) \/ Cleanup(s)
           \/ CleanupExists(s) \/ CleanupRemove(s)
  <2>1. /\ buffer' = buffer
        /\ stage'[s] \in {"closing", "commit", "remove", "done", "aborted"}
    BY <1>0, <1>4 DEF PeerClose, RecvOnClosed, Cleanup, CleanupExists,
                      CleanupRemove
  <2>. QED
    BY <2>1 DEF BufOk
<1>5. CASE LoadFile(s)
  <2>1. stage' = stage /\ sockOpen' = sockOpen /\ buffer' = buffer
    BY <1>5 DEF LoadFile
  <2>. QED
    BY <2>1, BufFrame
<1>. QED
  BY <1>1, <1>2, <1>3, <1>4, <1>5 DEF SessionStep, Handler, ListenerStep

LEMMA BufStep ==
    ASSUME MaxBatch = 1, TypeOK, BufInv, [Next]_vars
    PROVE  BufInv'
<1> SUFFICES ASSUME NEW t \in Session PROVE BufOk(t)'
  BY DEF BufInv
<1>0. BufOk(t)
  BY DEF BufInv
<1>1. CASE UNCHANGED vars \/ Terminated
  BY <1>0, <1>1, BufFrame DEF vars, Terminated
<1>2. CASE \E s \in Session :
             \/ Accept(s) \/ ListenerStep(s) \/ Recv(s) \/ PeerClose(s)
             \/ SessionStep(s)
  <2>1. PICK s \in Session :
             \/ Accept(s) \/ ListenerStep(s) \/ Recv(s) \/ PeerClose(s)
             \/ SessionStep(s)
    BY <1>2
  <2>2. CASE s # t
    <3>1. View(t)' = View(t) /\ buffer'[t] = buffer[t]
      BY <2>1, <2>2, Local, LocalBuffer
    <3>. QED
      BY <1>0, <3>1, BufFrame DEF View
  <2>3. CASE s = t
    BY <1>0, <2>1, <2>3, OwnBuffer
  <2>. QED
    BY <2>2, <2>3
<1>. QED
  BY <1>1, <1>2 DEF Next

(***************************************************************************)
(* Under BufInv, a session whose thread has closed its socket in the loop *)
(* has nothing left to dispatch, so no step changes its marks.             *)
(***************************************************************************)
LEMMA FrozenStep ==
    ASSUME TypeOK, BufInv, [Next]_vars
    PROVE  \A s \in Session :
               stage[s] = "running" /\ ~sockOpen[s] => deleted'[s] = deleted[s]
<1> SUFFICES ASSUME NEW t \in Session, stage[t] = "running", ~sockOpen[t]
             PROVE  deleted'[t] = deleted[t]
  OBVIOUS
<1>0. buffer[t] = <<>> /\ DOMAIN deleted = Session
  BY DEF BufInv, BufOk, TypeOK
<1>1. CASE UNCHANGED vars \/ Terminated
  BY <1>1 DEF vars, Terminated
<1>2. CASE \E s \in Session :
             \/ Accept(s) \/ ListenerStep(s) \/ Recv(s) \/ PeerClose(s)
             \/ SessionStep(s)
  <2>1. PICK s \in Session :
             \/ Accept(s) \/ ListenerStep(s) \/ Recv(s) \/ PeerClose(s)
             \/ SessionStep(s)
    BY <1>2
  <2>2. CASE s # t
    BY <2>1, <2>2, Local DEF View
  <2>3. CASE s = t /\ Handler(s)
    BY <1>0, <2>3, HandlerBuffer
  <2>4. CASE s = t /\ ~Handler(s)
    BY <1>0, <2>1, <2>4 DEF Handler, SessionStep, Accept, ListenerStep,
                            LoadFile, StartThread, Recv, PeerClose,
                            RecvOnClosed, Cleanup, CleanupExists, CleanupRemove
  <2>. QED
    BY <2>2, <2>3, <2>4
<1>. QED
  BY <1>1, <1>2 DEF Next

(***************************************************************************)
(* When every recv completes at most one line, as it does for a client    *)
(* that waits for each reply (the server advertises no PIPELINING), the   *)
(* marks cleanup_deleted commits are those the session had when it        *)
(* answered QUIT: no DELE or RSET is dispatched after QUIT's conn.close(). *)
(* For any number of sessions and any mailbox.                             *)
(***************************************************************************)
THEOREM QuitFreezesMarks == MaxBatch = 1 => (Spec => MarksFrozenAfterQuit)
<1> SUFFICES ASSUME MaxBatch = 1 PROVE Spec => MarksFrozenAfterQuit
  OBVIOUS
<1>1. Init => TypeInv /\ BufInv
  BY TypeInit, BufInit
<1>2. TypeInv /\ BufInv /\ [Next]_vars => (TypeInv /\ BufInv)'
  BY TypeStep, BufStep DEF TypeInv
<1>3. TypeInv /\ BufInv /\ [Next]_vars =>
          [\A s \in Session :
               stage[s] = "running" /\ ~sockOpen[s] => deleted'[s] = deleted[s]]_vars
  BY FrozenStep DEF TypeInv
<1>. QED
  BY <1>1, <1>2, <1>3, PTL DEF Spec, MarksFrozenAfterQuit

=============================================================================
