---------------------------- MODULE Pop3Session ----------------------------
(***************************************************************************)
(* The POP3 server of src/example/pop3_test/server.py: the listener loop   *)
(* (start_server), which builds one Pop3Session per accepted connection in *)
(* its own thread and loads the mailbox snapshot there (load_messages),    *)
(* and the session threads (Pop3Session.handle) that frame the byte        *)
(* stream into lines, dispatch them by phase (handle_auth,                 *)
(* handle_transaction) and, when the receive loop ends, close the socket   *)
(* and commit the deletion marks (cleanup_deleted).                        *)
(*                                                                         *)
(* Data is abstracted: a mailbox file "k.txt" is the number k, a message   *)
(* is the name of the file it was read from, a command is a record of its  *)
(* upper-cased verb and its argument tokens.  All control is kept: every   *)
(* guard and early return, every exception and where it is raised (an      *)
(* int() that fails, a send on a closed socket, a decode error, a file     *)
(* that vanished), and the interleaving of the session threads with each  *)
(* other and with the listener thread over the shared mailbox directory.   *)
(***************************************************************************)
EXTENDS Integers, Sequences, FiniteSets, FiniteSetsExt

CONSTANTS
    Session,     \* the connections the listener accepts
    InitFiles,   \* the "k.txt" files of MAILBOX_DIR at start, as numbers k
    Utf8Files,   \* the files whose every line decodes as UTF-8
    EMPTY,       \* the empty string "", self.username before USER
    USERNAME,    \* the credential pair hard-wired in the server
    PASSWORD,
    Numeral,     \* int() on the tokens it accepts: token -> integer
    Commands,    \* the command lines a client may send
    MaxBatch     \* most complete lines one recv(1024) can deliver

ASSUME ConstantsAssumption ==
    /\ IsFiniteSet(InitFiles)
    /\ InitFiles \subseteq Nat \ {0}
    /\ Utf8Files \subseteq InitFiles
    /\ USERNAME \in STRING /\ PASSWORD \in STRING /\ USERNAME # EMPTY
    /\ Numeral \in [DOMAIN Numeral -> Int]
    /\ Commands \subseteq [verb : STRING, args : Seq(STRING)]
    /\ MaxBatch \in Nat \ {0}

VARIABLES
    files,      \* the "k.txt" files now in MAILBOX_DIR
    listener,   \* "up", or "crashed" when an exception left start_server
    stage,      \* where each connection's thread is
    phase,      \* Pop3Session.state
    username,   \* Pop3Session.username
    messages,   \* Pop3Session.messages: the snapshot, as file names
    loaded,     \* how many snapshot files load_messages has opened so far
    deleted,    \* Pop3Session.deleted: 0-based indices marked by DELE
    sockOpen,   \* FALSE once self.conn.close() has run
    buffer,     \* complete lines of the last recv not yet dispatched
    reply,      \* the last reply sent on the connection
    todo        \* marks cleanup_deleted has still to go through

vars == <<files, listener, stage, phase, username, messages, loaded,
          deleted, sockOpen, buffer, reply, todo>>

Stages == {"new", "loading", "running", "closing", "commit", "remove",
           "done", "aborted"}

\* A reply names the command it answers; "none" before the first one.
Reply == [verb : {"none"} \cup {c.verb : c \in Commands}, ok : BOOLEAN,
          count : Int, ids : SUBSET Int]

(***************************************************************************)
(* sorted(os.listdir(MAILBOX_DIR)) compares the names as strings.  Digits  *)
(* is the decimal representation of k as character codes: one digit below *)
(* ten, else NumDigits digits, the i-th being (k div 10^(n-i)) mod 10.     *)
(* Every name continues with "." (code 46, below every digit) and then the *)
(* same "txt", so the key of "k.txt" is Digits(k) followed by ".".         *)
(***************************************************************************)
NumDigits(k) == CHOOSE n \in 2..k : 10^(n - 1) <= k /\ k < 10^n

Digits(k) ==
    IF k < 10 THEN <<48 + k>>
    ELSE [i \in 1..NumDigits(k) |-> 48 + ((k \div 10^(NumDigits(k) - i)) % 10)]

FileKey(k) == Digits(k) \o <<46>>

LexLess(a, b) ==
    \E j \in 0..Len(a) :
        /\ j <= Len(b)
        /\ \A p \in 1..j : a[p] = b[p]
        /\ \/ j = Len(a) /\ j < Len(b)
           \/ j < Len(a) /\ j < Len(b) /\ a[j + 1] < b[j + 1]

\* The directory listing in the order sorted() returns it.
Listing(S) ==
    {seq \in [1..Cardinality(S) -> S] :
        \A i, j \in DOMAIN seq : i < j => LexLess(FileKey(seq[i]), FileKey(seq[j]))}

Batches == UNION {[1..k -> Commands] : k \in 1..MaxBatch}

NoReply == [verb |-> "none", ok |-> TRUE, count |-> 0, ids |-> {}]
Ok(v) == [verb |-> v, ok |-> TRUE, count |-> 0, ids |-> {}]
Err(v) == [verb |-> v, ok |-> FALSE, count |-> 0, ids |-> {}]

Alive == listener = "up"

Init ==
    /\ files = InitFiles
    /\ listener = "up"
    /\ stage = [s \in Session |-> "new"]
    /\ phase = [s \in Session |-> "AUTH"]
    /\ username = [s \in Session |-> EMPTY]
    /\ messages = [s \in Session |-> <<>>]
    /\ loaded = [s \in Session |-> 0]
    /\ deleted = [s \in Session |-> {}]
    /\ sockOpen = [s \in Session |-> TRUE]
    /\ buffer = [s \in Session |-> <<>>]
    /\ reply = [s \in Session |-> NoReply]
    /\ todo = [s \in Session |-> {}]

-----------------------------------------------------------------------------
(***************************************************************************)
(* The listener thread: accept, Pop3Session(conn, addr) with its           *)
(* load_messages, then Thread(...).start().  The listing and the reads are *)
(* separate steps: a session thread may remove a file in between, and the *)
(* open() of a vanished file raises out of start_server, which ends the    *)
(* process and with it every daemon session thread.                        *)
(***************************************************************************)
Accept(s) ==
    /\ Alive
    /\ stage[s] = "new"
    /\ \A t \in Session : stage[t] # "loading"
    /\ \E seq \in Listing(files) : messages' = [messages EXCEPT ![s] = seq]
    /\ stage' = [stage EXCEPT ![s] = "loading"]
    /\ loaded' = [loaded EXCEPT ![s] = 0]
    /\ UNCHANGED <<files, listener, phase, username, deleted, sockOpen,
                   buffer, reply, todo>>

LoadFile(s) ==
    /\ Alive
    /\ stage[s] = "loading"
    /\ loaded[s] < Len(messages[s])
    /\ \/ /\ messages[s][loaded[s] + 1] \in files
          /\ loaded' = [loaded EXCEPT ![s] = @ + 1]
          /\ UNCHANGED listener
       \/ /\ messages[s][loaded[s] + 1] \notin files
          /\ listener' = "crashed"
          /\ UNCHANGED loaded
    /\ UNCHANGED <<files, stage, phase, username, messages, deleted,
                   sockOpen, buffer, reply, todo>>

StartThread(s) ==
    /\ Alive
    /\ stage[s] = "loading"
    /\ loaded[s] = Len(messages[s])
    /\ stage' = [stage EXCEPT ![s] = "running"]
    /\ UNCHANGED <<files, listener, phase, username, messages, loaded,
                   deleted, sockOpen, buffer, reply, todo>>

-----------------------------------------------------------------------------
(***************************************************************************)
(* The receive loop of handle().  recv either delivers bytes that complete *)
(* up to MaxBatch lines (a read that completes none changes nothing), or   *)
(* returns b"" / raises because the peer went away; on a socket this       *)
(* thread has closed itself (after QUIT) recv always raises.  Every way    *)
(* out of the loop leads to the same conn.close(); cleanup_deleted().      *)
(***************************************************************************)
\* Mutant: the loop reads on after its own conn.close().
RecvIgnoresClose(s) ==
    /\ Alive
    /\ stage[s] = "running"
    /\ buffer[s] = <<>>
    /\ \E b \in Batches : buffer' = [buffer EXCEPT ![s] = b]
    /\ UNCHANGED <<files, listener, stage, phase, username, messages, loaded,
                   deleted, sockOpen, reply, todo>>

Recv(s) ==
    /\ Alive
    /\ stage[s] = "running"
    /\ sockOpen[s]
    /\ buffer[s] = <<>>
    /\ \E b \in Batches : buffer' = [buffer EXCEPT ![s] = b]
    /\ UNCHANGED <<files, listener, stage, phase, username, messages, loaded,
                   deleted, sockOpen, reply, todo>>

PeerClose(s) ==
    /\ Alive
    /\ stage[s] = "running"
    /\ sockOpen[s]
    /\ buffer[s] = <<>>
    /\ stage' = [stage EXCEPT ![s] = "closing"]
    /\ UNCHANGED <<files, listener, phase, username, messages, loaded,
                   deleted, sockOpen, buffer, reply, todo>>

RecvOnClosed(s) ==
    /\ Alive
    /\ stage[s] = "running"
    /\ ~sockOpen[s]
    /\ buffer[s] = <<>>
    /\ stage' = [stage EXCEPT ![s] = "closing"]
    /\ UNCHANGED <<files, listener, phase, username, messages, loaded,
                   deleted, sockOpen, buffer, reply, todo>>

-----------------------------------------------------------------------------
(***************************************************************************)
(* Dispatch of one framed line.  An exception anywhere in a handler        *)
(* (int() of a missing or non-numeric argument, send_line on the closed   *)
(* socket, a decode error) leaves the loop: the remaining lines are lost   *)
(* and the thread goes on to cleanup.  A handler's assignments that come  *)
(* before its first send_line survive such an exception.                   *)
(***************************************************************************)
Cmd(s) == Head(buffer[s])

Takes(s, v, ph) ==
    /\ Alive
    /\ stage[s] = "running"
    /\ buffer[s] # <<>>
    /\ Cmd(s).verb = v
    /\ phase[s] = ph

Raise(s) ==
    /\ stage' = [stage EXCEPT ![s] = "closing"]
    /\ buffer' = [buffer EXCEPT ![s] = <<>>]
    /\ UNCHANGED reply

\* send_line(r): on a closed socket sendall raises.
Send(s, r) ==
    \/ /\ sockOpen[s]
       /\ reply' = [reply EXCEPT ![s] = r]
       /\ buffer' = [buffer EXCEPT ![s] = Tail(@)]
       /\ UNCHANGED stage
    \/ /\ ~sockOpen[s]
       /\ Raise(s)

\* send_line(r) succeeds, then a later send_line(line.decode()) raises.
SendThenRaise(s, r) ==
    \/ /\ sockOpen[s]
       /\ reply' = [reply EXCEPT ![s] = r]
       /\ stage' = [stage EXCEPT ![s] = "closing"]
       /\ buffer' = [buffer EXCEPT ![s] = <<>>]
    \/ /\ ~sockOpen[s]
       /\ Raise(s)

\* int(args[k-1]) does not raise.
Parses(s, k) ==
    /\ Len(Cmd(s).args) >= k
    /\ Cmd(s).args[k] \in DOMAIN Numeral

\* index = int(args[0]) - 1
Index(s) == Numeral[Cmd(s).args[1]] - 1

\* Mutant: the lower bound 0 <= index dropped.
InRangeNoLower(s, i) == i < Len(messages[s])

InRange(s, i) == 0 <= i /\ i < Len(messages[s])

\* Mutant: the `index not in self.deleted` test dropped.
VisibleIgnoresMarks(s, i) == InRange(s, i)

\* 0 <= index < len(self.messages) and index not in self.deleted
Visible(s, i) == InRange(s, i) /\ i \notin deleted[s]

-----------------------------------------------------------------------------
(***************************************************************************)
(* handle_auth                                                             *)
(***************************************************************************)
UserOk(s) == Len(Cmd(s).args) > 0 /\ Cmd(s).args[1] = USERNAME

User(s) ==
    /\ Takes(s, "USER", "AUTH")
    /\ Send(s, IF UserOk(s) THEN Ok("USER") ELSE Err("USER"))
    /\ username' = IF UserOk(s) /\ sockOpen[s]
                     THEN [username EXCEPT ![s] = USERNAME] ELSE username
    /\ UNCHANGED <<files, listener, phase, messages, loaded, deleted,
                   sockOpen, todo>>

\* Mutant: PASS checks the password but not the pending user.
PassOkAnyUser(s) == Len(Cmd(s).args) > 0 /\ Cmd(s).args[1] = PASSWORD

PassOk(s) ==
    /\ Len(Cmd(s).args) > 0
    /\ username[s] = USERNAME
    /\ Cmd(s).args[1] = PASSWORD

Pass(s) ==
    /\ Takes(s, "PASS", "AUTH")
    /\ Send(s, IF PassOk(s) THEN Ok("PASS") ELSE Err("PASS"))
    /\ phase' = IF PassOk(s) /\ sockOpen[s]
                  THEN [phase EXCEPT ![s] = "TRANSACTION"] ELSE phase
    /\ UNCHANGED <<files, listener, username, messages, loaded, deleted,
                   sockOpen, todo>>

\* Mutant: QUIT answers but leaves the connection open.
QuitNoClose(s) ==
    /\ Takes(s, "QUIT", phase[s])
    /\ Send(s, Ok("QUIT"))
    /\ UNCHANGED <<files, listener, phase, username, messages, loaded,
                   deleted, sockOpen, todo>>

\* QUIT in either phase: send_line("+OK Goodbye"); self.conn.close()
Quit(s) ==
    /\ Takes(s, "QUIT", phase[s])
    /\ Send(s, Ok("QUIT"))
    /\ sockOpen' = [sockOpen EXCEPT ![s] = FALSE]
    /\ UNCHANGED <<files, listener, phase, username, messages, loaded,
                   deleted, todo>>

AuthOther(s) ==
    /\ Takes(s, Cmd(s).verb, "AUTH")
    /\ Cmd(s).verb \notin {"USER", "PASS", "QUIT"}
    /\ Send(s, Err(Cmd(s).verb))
    /\ UNCHANGED <<files, listener, phase, username, messages, loaded,
                   deleted, sockOpen, todo>>

-----------------------------------------------------------------------------
(***************************************************************************)
(* handle_transaction                                                      *)
(***************************************************************************)
TransVerbs == {"STAT", "LIST", "RETR", "DELE", "NOOP", "RSET", "UIDL",
               "TOP", "QUIT"}

\* The 1-based numbers of the messages not marked for deletion.
Listed(s) == {i + 1 : i \in {j \in 0..Len(messages[s]) - 1 : j \notin deleted[s]}}

Stat(s) ==
    /\ Takes(s, "STAT", "TRANSACTION")
    /\ Send(s, [verb |-> "STAT", ok |-> TRUE,
                count |-> Len(messages[s]) - Cardinality(deleted[s]), ids |-> {}])
    /\ UNCHANGED <<files, listener, phase, username, messages, loaded,
                   deleted, sockOpen, todo>>

\* LIST and UIDL: the listing without argument, one entry with one.
IndexReport(s, v) ==
    /\ Takes(s, v, "TRANSACTION")
    /\ \/ /\ Cmd(s).args = <<>>
          /\ Send(s, [verb |-> v, ok |-> TRUE, count |-> Len(messages[s]),
                      ids |-> Listed(s)])
       \/ /\ Cmd(s).args # <<>>
          /\ ~Parses(s, 1)
          /\ Raise(s)
       \/ /\ Parses(s, 1)
          /\ Send(s, IF Visible(s, Index(s))
                       THEN [verb |-> v, ok |-> TRUE, count |-> 0,
                             ids |-> {Index(s) + 1}]
                       ELSE Err(v))
    /\ UNCHANGED <<files, listener, phase, username, messages, loaded,
                   deleted, sockOpen, todo>>

List(s) == IndexReport(s, "LIST")

Uidl(s) == IndexReport(s, "UIDL")

\* RETR: the "+OK n octets" line, then every line of the message decoded.
Retr(s) ==
    /\ Takes(s, "RETR", "TRANSACTION")
    /\ \/ /\ ~Parses(s, 1)
          /\ Raise(s)
       \/ /\ Parses(s, 1)
          /\ ~Visible(s, Index(s))
          /\ Send(s, Err("RETR"))
       \/ /\ Parses(s, 1)
          /\ Visible(s, Index(s))
          /\ LET r == [verb |-> "RETR", ok |-> TRUE, count |-> 0,
                       ids |-> {Index(s) + 1}]
             IN  IF messages[s][Index(s) + 1] \in Utf8Files
                   THEN Send(s, r) ELSE SendThenRaise(s, r)
    /\ UNCHANGED <<files, listener, phase, username, messages, loaded,
                   deleted, sockOpen, todo>>

\* TOP: both int() calls come before the range check.  Which lines are
\* decoded depends on the message's header and on n, so an undecodable
\* message may or may not raise.
Top(s) ==
    /\ Takes(s, "TOP", "TRANSACTION")
    /\ \/ /\ ~(Parses(s, 1) /\ Parses(s, 2))
          /\ Raise(s)
       \/ /\ Parses(s, 1) /\ Parses(s, 2)
          /\ ~Visible(s, Index(s))
          /\ Send(s, Err("TOP"))
       \/ /\ Parses(s, 1) /\ Parses(s, 2)
          /\ Visible(s, Index(s))
          /\ LET r == [verb |-> "TOP", ok |-> TRUE, count |-> 0,
                       ids |-> {Index(s) + 1}]
             IN  \/ Send(s, r)
                 \/ /\ messages[s][Index(s) + 1] \notin Utf8Files
                    /\ SendThenRaise(s, r)
    /\ UNCHANGED <<files, listener, phase, username, messages, loaded,
                   deleted, sockOpen, todo>>

\* DELE: the mark is added before the reply is sent; a mark is not checked.
Dele(s) ==
    /\ Takes(s, "DELE", "TRANSACTION")
    /\ \/ /\ ~Parses(s, 1)
          /\ Raise(s)
          /\ UNCHANGED deleted
       \/ /\ Parses(s, 1)
          /\ InRange(s, Index(s))
          /\ deleted' = [deleted EXCEPT ![s] = @ \cup {Index(s)}]
          /\ Send(s, Ok("DELE"))
       \/ /\ Parses(s, 1)
          /\ ~InRange(s, Index(s))
          /\ Send(s, Err("DELE"))
          /\ UNCHANGED deleted
    /\ UNCHANGED <<files, listener, phase, username, messages, loaded,
                   sockOpen, todo>>

Noop(s) ==
    /\ Takes(s, "NOOP", "TRANSACTION")
    /\ Send(s, Ok("NOOP"))
    /\ UNCHANGED <<files, listener, phase, username, messages, loaded,
                   deleted, sockOpen, todo>>

\* RSET: the marks are cleared before the reply is sent.
Rset(s) ==
    /\ Takes(s, "RSET", "TRANSACTION")
    /\ deleted' = [deleted EXCEPT ![s] = {}]
    /\ Send(s, Ok("RSET"))
    /\ UNCHANGED <<files, listener, phase, username, messages, loaded,
                   sockOpen, todo>>

TransOther(s) ==
    /\ Takes(s, Cmd(s).verb, "TRANSACTION")
    /\ Cmd(s).verb \notin TransVerbs
    /\ Send(s, Err(Cmd(s).verb))
    /\ UNCHANGED <<files, listener, phase, username, messages, loaded,
                   deleted, sockOpen, todo>>

-----------------------------------------------------------------------------
(***************************************************************************)
(* After the loop: self.conn.close(); self.cleanup_deleted().  The loop    *)
(* goes through sorted(self.deleted, reverse=True), a copy taken once; for *)
(* each index i it tests os.path.exists("i+1.txt") and then calls          *)
(* os.remove on it, two steps another thread's remove can fall between.    *)
(* A FileNotFoundError there is not caught: the thread ends with the rest  *)
(* of the marks not gone through.                                          *)
(***************************************************************************)
Cleanup(s) ==
    /\ Alive
    /\ stage[s] = "closing"
    /\ sockOpen' = [sockOpen EXCEPT ![s] = FALSE]
    /\ todo' = [todo EXCEPT ![s] = deleted[s]]
    /\ stage' = [stage EXCEPT ![s] = "commit"]
    /\ UNCHANGED <<files, listener, phase, username, messages, loaded,
                   deleted, buffer, reply>>

\* Mutant: the 1-based shift left out of the name.
MarkPathUnshifted(i) == i

\* The file name cleanup_deleted derives from index i.
MarkPath(i) == i + 1

CleanupExists(s) ==
    /\ Alive
    /\ stage[s] = "commit"
    /\ \/ /\ todo[s] = {}
          /\ stage' = [stage EXCEPT ![s] = "done"]
          /\ UNCHANGED todo
       \/ /\ todo[s] # {}
          /\ MarkPath(Max(todo[s])) \notin files
          /\ todo' = [todo EXCEPT ![s] = @ \ {Max(@)}]
          /\ UNCHANGED stage
       \/ /\ todo[s] # {}
          /\ MarkPath(Max(todo[s])) \in files
          /\ stage' = [stage EXCEPT ![s] = "remove"]
          /\ UNCHANGED todo
    /\ UNCHANGED <<files, listener, phase, username, messages, loaded,
                   deleted, sockOpen, buffer, reply>>

CleanupRemove(s) ==
    /\ Alive
    /\ stage[s] = "remove"
    /\ \/ /\ MarkPath(Max(todo[s])) \in files
          /\ files' = files \ {MarkPath(Max(todo[s]))}
          /\ todo' = [todo EXCEPT ![s] = @ \ {Max(@)}]
          /\ stage' = [stage EXCEPT ![s] = "commit"]
       \/ /\ MarkPath(Max(todo[s])) \notin files
          /\ stage' = [stage EXCEPT ![s] = "aborted"]
          /\ UNCHANGED <<files, todo>>
    /\ UNCHANGED <<listener, phase, username, messages, loaded, deleted,
                   sockOpen, buffer, reply>>

-----------------------------------------------------------------------------
\* Every connection has been served, or the process has died.
Terminated ==
    /\ \/ ~Alive
       \/ \A s \in Session : stage[s] \in {"done", "aborted"}
    /\ UNCHANGED vars

\* The steps a session thread takes without waiting for its client.
SessionStep(s) ==
    \/ User(s) \/ Pass(s) \/ Quit(s) \/ AuthOther(s)
    \/ Stat(s) \/ List(s) \/ Uidl(s) \/ Retr(s) \/ Top(s) \/ Dele(s)
    \/ Noop(s) \/ Rset(s) \/ TransOther(s)
    \/ RecvOnClosed(s) \/ Cleanup(s) \/ CleanupExists(s) \/ CleanupRemove(s)

ListenerStep(s) == LoadFile(s) \/ StartThread(s)

Next ==
    \/ \E s \in Session :
          \/ Accept(s) \/ ListenerStep(s)
          \/ Recv(s) \/ PeerClose(s)
          \/ SessionStep(s)
    \/ Terminated

(***************************************************************************)
(* A thread that can run eventually runs: the listener once a connection   *)
(* has been accepted, each session thread whenever it has a line to        *)
(* dispatch or is past its receive loop.  Nothing forces a client to send  *)
(* or to disconnect (the server has no read timeout), so Recv, PeerClose   *)
(* and Accept get no fairness.                                             *)
(***************************************************************************)
Fairness ==
    \A s \in Session : WF_vars(ListenerStep(s)) /\ WF_vars(SessionStep(s))

Spec == Init /\ [][Next]_vars /\ Fairness

-----------------------------------------------------------------------------
(***************************************************************************)
(* Properties                                                              *)
(***************************************************************************)
TypeOK ==
    /\ files \in SUBSET InitFiles
    /\ listener \in {"up", "crashed"}
    /\ stage \in [Session -> Stages]
    /\ phase \in [Session -> {"AUTH", "TRANSACTION"}]
    /\ username \in [Session -> {EMPTY, USERNAME}]
    /\ messages \in [Session -> Seq(InitFiles)]
    /\ loaded \in [Session -> Nat]
    /\ deleted \in [Session -> SUBSET Nat]
    /\ sockOpen \in [Session -> BOOLEAN]
    /\ buffer \in [Session -> Seq(Commands)]
    /\ reply \in [Session -> Reply]
    /\ todo \in [Session -> SUBSET Nat]

\* The snapshot positions (1-based) of the messages the session has not marked.
Unmarked(s) == {k \in 1..Len(messages[s]) : k - 1 \notin deleted[s]}

\* The files of the messages the user of session s has marked with DELE.
MarkedFiles(s) == {messages[s][k] : k \in {k \in DOMAIN messages[s] : k - 1 \in deleted[s]}}

(***************************************************************************)
(* A session reaches the TRANSACTION phase only once USER has named the    *)
(* configured user and PASS has then given the configured password         *)
(* (handle_auth): PASS before USER, or after a rejected USER, never opens *)
(* the mailbox.                                                            *)
(***************************************************************************)
AuthBeforeTransaction ==
    \A s \in Session : phase[s] = "TRANSACTION" => username[s] = USERNAME

(***************************************************************************)
(* Whatever the last reply on a connection says about the mailbox is still *)
(* true of the session's marks: STAT's count (computed as len(messages) -  *)
(* len(deleted)) is the number of unmarked messages, and every message     *)
(* number LIST, UIDL, RETR or TOP reported is a valid, unmarked one.  It  *)
(* fails if DELE can mark an index outside the snapshot or a listing can  *)
(* show a marked message.                                                  *)
(***************************************************************************)
ReplyConsistent ==
    \A s \in Session :
        /\ reply[s].ok /\ reply[s].verb = "STAT" =>
               reply[s].count = Cardinality(Unmarked(s))
        /\ reply[s].ok /\ reply[s].verb \in {"LIST", "UIDL", "RETR", "TOP"} =>
               reply[s].ids \subseteq Unmarked(s)

(***************************************************************************)
(* A file leaves the mailbox only in the remove step of a session's        *)
(* cleanup_deleted, and only if it holds a message that session's user     *)
(* marked: DELE never touches the directory, and the index-to-file-name   *)
(* translation at commit removes the marked message and no other.         *)
(***************************************************************************)
RemovesOnlyMarked ==
    [][\A f \in files \ files' :
          \E s \in Session : stage[s] = "remove" /\ f \in MarkedFiles(s)]_vars

(***************************************************************************)
(* Once a session has answered "+OK Goodbye" to QUIT, it eventually        *)
(* finishes cleanup_deleted with every marked message gone from the        *)
(* mailbox, whatever the client does next (it may never close its end).   *)
(***************************************************************************)
QuitLeadsToCommit ==
    \A s \in Session :
        (stage[s] = "running" /\ reply[s].verb = "QUIT")
            ~> (stage[s] = "done" /\ MarkedFiles(s) \cap files = {})

(***************************************************************************)
(* cleanup_deleted never dies on a FileNotFoundError: the os.path.exists  *)
(* test before os.remove makes each removal safe.                          *)
(***************************************************************************)
NoCommitAbort == \A s \in Session : stage[s] # "aborted"

(***************************************************************************)
(* The accept loop of start_server never dies: building a session (and     *)
(* its load_messages) never raises.                                        *)
(***************************************************************************)
ListenerAlive == listener = "up"

(***************************************************************************)
(* Once QUIT has been answered the session is over: the deletion marks it  *)
(* will commit are the ones it had when the client quit.                   *)
(***************************************************************************)
MarksFrozenAfterQuit ==
    [][\A s \in Session :
          stage[s] = "running" /\ ~sockOpen[s] => deleted'[s] = deleted[s]]_vars

(***************************************************************************)
(* A malformed command (a missing or non-numeric argument) or a message    *)
(* that cannot be sent is answered with an error and the session goes on   *)
(* in its phase: dispatching a line on an open connection never ends the   *)
(* session.                                                                *)
(***************************************************************************)
BadCommandKeepsSession ==
    [][\A s \in Session :
          stage[s] = "running" /\ sockOpen[s] /\ buffer[s] # <<>>
              => stage'[s] = "running"]_vars


-----------------------------------------------------------------------------
(***************************************************************************)
(* Refinement.  A session's abstract phase is read off the thread's stage *)
(* and its state field; its view is the set of files of its snapshot; its *)
(* marks are the files at the marked snapshot positions.  A session that  *)
(* QUIT has closed but whose loop still runs has not ended yet: it ends   *)
(* when the loop is left.                                                  *)
(***************************************************************************)
APhase(s) ==
    CASE stage[s] = "new" -> "idle"
      [] stage[s] \in {"loading", "running"} ->
             IF phase[s] = "TRANSACTION" THEN "trans" ELSE "auth"
      [] stage[s] \in {"closing", "commit", "remove"} -> "closing"
      [] OTHER -> "done"

Mailbox == INSTANCE Pop3Mailbox WITH
    mbox <- files,
    aphase <- [s \in Session |-> APhase(s)],
    view <- [s \in Session |-> {messages[s][k] : k \in DOMAIN messages[s]}],
    amarks <- [s \in Session |-> MarkedFiles(s)]

(***************************************************************************)
(* The server keeps the promise of Pop3Mailbox: each session sees the      *)
(* mailbox of its accept, DELE marks and RSET unmarks messages of that     *)
(* view, and once the receive loop of handle() is left, cleanup_deleted   *)
(* removes exactly the messages the user marked, by the names it derives  *)
(* from their indices, and always gets to the end.                         *)
(***************************************************************************)
MailboxSpec == Mailbox!Spec

=============================================================================
