# Formal models of the zmuduo example mail servers

This directory holds TLA+ models of the Python test servers under `src/example/`. Each model has TLC configurations that check it on small instances, an abstract specification of the POP3 mailbox that the POP3 model is checked to implement, and TLAPS proofs of both models' type invariants, the POP3 login rule and reply consistency, the SMTP rule that data mode needs authentication, the safety part of the POP3 refinement for a single session, and that with one command per recv no mark changes after QUIT. The servers are used to exercise the library's clients. Two of them have real protocol state and real concurrency:

- **the POP3 server**, `src/example/pop3_test/server.py`;
- **the SMTP server**, `src/example/smtp_test/server.py`.

The other three (`http_test/chunk_server.py`, `tcp_client_test/server.py`, `udp_client_test/udp_server.py`) are stateless echo or fixed-output loops and are not modelled (see the end).

## The system

### POP3 (`pop3_test/server.py`)

- `start_server` accepts connections in a loop. For each one it builds a `Pop3Session`, whose `__init__` calls `load_messages` in the listener thread. `load_messages` takes `sorted(os.listdir(MAILBOX_DIR))` and then opens each `*.txt` file in turn. The listener then starts a daemon thread that runs `session.handle`.
- `handle` sends the greeting and loops on `recv(1024)`. It frames the stream into CRLF lines and dispatches each line to `handle_auth` or `handle_transaction` according to `state`.
- Any exception leaves the loop. So does EOF. After the loop, `handle` closes the socket and runs `cleanup_deleted`. That function removes `f"{i+1}.txt"` for every marked index `i`, in decreasing order, after an `os.path.exists` test.
- All sessions share the mailbox directory. The listener reads it while the session threads remove from it.

### SMTP (`smtp_test/server.py`)

- A `ThreadingMixIn` `TCPServer` runs `SMTPHandler.handle` in a thread per connection.
- Outside data mode, each `recv(4096)` is one command. While `auth_state` waits, the chunk is a base64 credential. Otherwise it is dispatched on the verb: HELO/EHLO, AUTH, MAIL, RCPT, DATA, QUIT, NOOP, RSET, VRFY or another verb.
- After DATA the chunks are appended to `data_buffer` until it contains `\r\n.\r\n`.
- The message is then handed to `process_message`. That calls `save_email_to_file`, which names the file `timestamp_sender.eml`. The directory is shared by all threads.

## Modules

| Module | Models |
|---|---|
| `Pop3Session.tla` | The POP3 listener, session threads and mailbox directory. |
| `MCPop3Session.tla` | TLC instances of it: the tokens `int()` accepts, and the command sets clients send. |
| `Pop3Mailbox.tla` | What a POP3 server promises about the mailbox, with no threads or file names. `Pop3Session` refines it. |
| `Pop3SessionProofs.tla` | TLAPS proofs about `Pop3Session`. |
| `Pop3SingleMailbox.tla` | The conditions under which `Pop3Session` refines `Pop3Mailbox`, as a named `ASSUME` on the constants. |
| `MCPop3Single.tla` | `MCPop3Session` with those conditions, so that the MCSingle run evaluates the `ASSUME`. |
| `Pop3MailboxProofs.tla` | TLAPS proof of the refinement's safety part, with the lemmas that the listing of `1..n`, n <= 9, is numeric. |
| `Pop3PipelineProofs.tla` | TLAPS proof that, with one command per recv, no mark changes after QUIT, for any number of sessions. |
| `SmtpSession.tla` | The SMTP handler threads and the mail store. Its cfgs instantiate it directly. |
| `SmtpSessionProofs.tla` | TLAPS proofs about `SmtpSession`. |

### `Pop3Session`

**State.** One variable per field of `Pop3Session`:

- `phase` is `state`, `username`, `messages` (the snapshot, as file numbers), `deleted`;
- `sockOpen` is whether `conn.close()` has run;
- `buffer` holds the complete lines of the last recv not yet dispatched;
- `reply` is the last reply, as a record of verb, status, count and reported message numbers;
- `todo` holds the marks `cleanup_deleted` still has to process;
- `stage` says where the thread is: new, loading, running, closing, commit, remove, done or aborted.

Shared state:

- `files` is the set of numbered files in the directory;
- `listener` is the listener thread, up or crashed;
- `loaded` counts the files the listener has opened so far.

**Actions.** There is one action per handler branch, for example `User`, `Pass`, `Stat`, `List`, `Uidl`, `Retr`, `Top`, `Dele`, `Rset`, `Noop`, `Quit`, `TransOther` and `AuthOther`. Each action dispatches the head of `buffer` and includes every exception the branch can raise:

- `int()` on a bad token;
- `args[0]` on an empty list;
- `decode()` of a non-UTF-8 message;
- `sendall` on a socket closed by QUIT.

Each of these ends the loop, exactly as the `except` at lines 59-61 does.

The listener actions:

- `Accept` is the `listdir` and sort. `Listing` models the string order of the names: `"10.txt"` sorts before `"2.txt"`.
- `LoadFile` is one `open()`. If the file has vanished, the listener crashes.
- `StartThread` starts the session thread.

The session ending and commit actions:

- `Recv` delivers a batch of up to `MaxBatch` lines. `PeerClose` is EOF. `RecvOnClosed` is a recv on a socket QUIT closed.
- The commit is modelled in steps: `Cleanup`, then `CleanupExists` and `CleanupRemove` for each mark.
- So `os.path.exists` and `os.remove` are separate steps that other threads can come between. A remove of a vanished file aborts the commit, because `FileNotFoundError` is not caught.

**Abstraction.** Data is abstracted:

- a file is its number;
- a message is the name of the file it was read from;
- a command is its verb and argument tokens;
- "UTF-8 or not" is a set of files.

Control is kept in full.

### `SmtpSession`

**State.** The variables are:

- the handler fields: `mailFrom`, `rcptTo`, `inData`, `dataBuf`, `authed`, `authUser` and `authState`;
- `reply`, the status code last sent;
- `phase` of the connection;
- a clock `now` in seconds;
- `store`, the directory: a file name `<<second, sender>>` maps to a message number;
- the messages answered 250 (`accepted`), and a message counter.

**Actions.** `Connect`, then one action per branch of `handle`: `DataChunk` (with `Deliver` and `Save`), `UsernameLine`, `PasswordLine`, `Helo`, `Auth`, `Mail`, `Rcpt`, `Data`, `Quit`, `Rset`, `Other`, `Undecodable` and `PeerClose`. `Tick` advances the clock.

**Abstraction.**

- A credential line is the user it decodes to, `BadToken` or `NotB64`.
- A DATA chunk is one or two lines, each `L` (text) or `DOT` (the line ".").
- The end-marker test `HasEnd` is a `DOT` line at position 2 or later. The CRLF before the first line belongs to the DATA command, not to the buffer.

## Runs

| Run | Expect | Properties | What it shows |
|---|---|---|---|
| MCSingle | pass | TypeOK, AuthBeforeTransaction, ReplyConsistent, MailboxSpec, QuitLeadsToCommit | One session, every command form; it implements `Pop3Mailbox` (see below). |
| MCTwo | pass | AuthBeforeTransaction, ReplyConsistent, MarksFrozenAfterQuit | Two sessions over one mailbox, with symmetry; one command per recv freezes the marks at QUIT. |
| MCStaleNames | violation | RemovesOnlyMarked | Another session's commit shifts the names. |
| MCLexOrder | violation | RemovesOnlyMarked | Files 1, 2, 10: the snapshot is 1, 10, 2, so DELE 2 marks 10.txt and the commit removes 2.txt itself. |
| MCCommitRace | violation | NoCommitAbort | exists/remove race between two commits. |
| MCListenerCrash | violation | ListenerAlive | A commit between `listdir` and `open` in the listener. |
| MCQuitPipeline | violation | MarksFrozenAfterQuit | DELE after QUIT in one recv. |
| MCBadArgs | violation | BadCommandKeepsSession | A bad `int()` or a missing argument, or RETR of a non-UTF-8 message, ends the session. |
| MCSmtp | pass | TypeOK, DataModeAuthenticated | One SMTP session through every branch. |
| MCSmtpNoSender | violation | AcceptedStored | DATA without MAIL FROM: 250, yet nothing is saved. |
| MCSmtpSameSecond | violation | NoOverwrite | Same sender, same second: the file is replaced. |
| MCSmtpEmptyBody | violation | EndMarkerEndsData | "." as the first data line never ends DATA. |

MCSingle (module `MCPop3Single`) runs over a four-file mailbox with one undecodable file, and a client that waits for each reply (`MaxBatch` 1). It checks that login is enforced, that every reply agrees with the marks, that the session implements the abstract mailbox (below), and that QUIT is followed by the commit.

### The abstract mailbox and the refinement

`Pop3Mailbox` states what a POP3 server promises a client, in terms of messages and nothing else:

- a session's view is the mailbox as it was when the session opened;
- after login the user marks messages of that view, and RSET unmarks them all;
- once the session ends, by QUIT or otherwise, its marks are final;
- the marked messages that are still there, and only they, then leave the mailbox, one at a time, and the session is done. Weak fairness on this settling step says that an ended session is always committed.

`Pop3Session` defines `Mailbox == INSTANCE Pop3Mailbox` with this mapping:

- `mbox` is `files`;
- `aphase` is `APhase(s)`: `new` is idle; loading and running are auth or trans, according to `state`; closing, commit and remove are closing; done and aborted are done;
- `view` is the set of file numbers in the snapshot `messages`;
- `amarks` is `MarkedFiles(s)`, the files of the marked indices.

MCSingle checks `MailboxSpec == Mailbox!Spec` as a property, fairness included. This one property covers what the single-session run used to check with two separate properties: that the commit removes only marked files, and that it completes. The refinement holds only under the conditions the run fixes, and the violation runs show why each is needed:

- One session. With two, one session's commit renumbers the names the other's marks stand for (MCStaleNames).
- One command per recv. A DELE pipelined after QUIT adds a mark after the session has ended (MCQuitPipeline). The server never advertises PIPELINING, so a conforming client waits for each reply.
- Fewer than ten files. From `10.txt` on, the string order of the snapshot differs from the numeric names `cleanup_deleted` removes (MCLexOrder).

Each violation run is a disagreement between the code and the spec, a comment, or the reply text the code sends. PROJECT.json lists them as findings, with the line where the behaviour comes from.

**Bounds.**

- POP3:
  - one or two sessions;
  - three files, or four in MCSingle;
  - files 1, 2 and 10 for the order bug;
  - `MaxBatch` 1, or 2 for the pipelining run.

  Two sessions are the least that can race. Three files let a removal shift a later name. MCSingle has a fourth file so that the refinement sees a mailbox with marked and unmarked files on both sides of the undecodable one. `10` is the smallest number whose name sorts out of numeric order.
- SMTP:
  - one session;
  - two users and two senders;
  - `MaxTime` 1 and `MaxMsgs` 2: two messages, in the same second or in different ones;
  - `MaxBuf` 3, so a buffer can hold a "." line after a text line.

  Every branch, including both outcomes of the end-marker test, is reached.

**Fairness.** `Pop3Session.Spec` gives weak fairness to each session thread's internal steps (`SessionStep`) and to the listener's steps after an accept (`ListenerStep`). A runnable thread is eventually scheduled. Receiving, EOF and new connections depend on clients, and the server has no timeout (spec §5), so they get no fairness. `QuitLeadsToCommit` therefore holds without any help from the client: after QUIT, the next recv on the closed socket raises on its own. The SMTP model states only safety properties and has no fairness.

## Proofs

### POP3

`Pop3SessionProofs.tla` proves three theorems. They hold for every value of the constants that satisfies `ConstantsAssumption`: any finite mailbox, any number of sessions, any command set and batch size.

- `TypeCorrect == Spec => []TypeOK`.
- `LoginEnforced == Spec => []AuthBeforeTransaction`.
- `RepliesMatchMarks == Spec => []ReplyConsistent`.

The last two follow from `ReplyCorrect`, which proves both properties together.

**Why TypeOK needs strengthening.** `TypeOK` alone is not inductive. A STAT reply's count is `Len(messages) - Cardinality(deleted)`, and that is an integer only when `deleted` is finite. `Accept` replaces the snapshot, which is safe only while there are no marks. The proof therefore shows that `TypeInv == TypeOK /\ MarksInSnapshot` is inductive. `MarksInSnapshot` says:

- every mark is an index of the session's snapshot;
- a session not yet accepted has no marks and no reply.

`TypeInit` and `TypeStep` prove this, with one step per action group. Each step rests on lemmas about the helpers (`ListingType`, `BatchesType`, `CmdType`, `IndexType`, `SendType`, `HandlerType`, `KeepMarks`, `VerbReply`, `IndexReply`).

**The session invariant.** `AuthBeforeTransaction` and `ReplyConsistent` are not inductive either. The proof uses `SInv`, which requires `SessionInv(t)` of every session `t`. `SessionInv(t)` has five conjuncts:

- `MarksOk`: the marks are indices of the snapshot.
- `FreshOk`: a session that is new or loading has no marks and no reply, and its socket is open. `Accept` replaces the snapshot, and this conjunct is what makes that safe.
- `ClosedOk`: a running session whose socket is closed has QUIT's reply as its last reply. This conjunct is needed because QUIT closes the socket but leaves the loop running. A DELE pipelined after QUIT (MCQuitPipeline) still adds its mark before its `send_line` raises. Without `ClosedOk`, a LIST reply sent before QUIT could become stale. With it, the reply that survives is QUIT's, which reports no message.
- `LoginOk`: this is `AuthBeforeTransaction` for one session.
- `ReplyOk`: this is `ReplyConsistent` for one session.

The proof is per session:

- A step of another thread leaves session `t`'s part of the state alone (`Local`, `SessionFrame`).
- Each step of `t`'s own thread is covered by one lemma per handler group: `OwnOther`, `OwnLogin`, `OwnPlain`, `OwnStat`, `OwnIndexReport`, `OwnFetch` and `OwnDele`.
- Each handler lemma splits on whether the socket is still open:
  - If the socket is closed, the handler raises at its first send and keeps the reply (`ClosedHandler`).
  - If the socket is open, the case split follows the branches of the handler.
- The reply lemmas do the arithmetic:
  - `ReplyStat` uses `UnmarkedCount`, which counts the unmarked messages with `FiniteSetTheorems`;
  - `ReplyIndex` covers a reply about one visible message;
  - `ReplyListed` covers a full listing.

### The POP3 refinement

`Pop3MailboxProofs.tla` proves, for all constants that satisfy `ConstantsAssumption` and `SingleMailboxAssumption` (one session, `MaxBatch` 1, files `1..n` with n <= 9):

- `MailboxRefinement == Spec => Mailbox!SafetySpec`: every step of the model is a step of the abstract mailbox under the mapping above, or leaves the mapped state unchanged. `SafetySpec` is `Init /\ [][Next]_avars` of `Pop3Mailbox`, that is `Mailbox!Spec` without its fairness conjunct.

The inductive invariant is `TypeInv /\ RefInv`, where `RefInv` says of the session:

- `NewOk`: before the listener finishes loading, no file has been removed, and before it starts, the snapshot is empty. Without this, `LoadFile` could fail and the abstract open would see another mailbox.
- `FreshAuth`: until the thread runs, the session is in AUTH with its socket open. This makes the abstract open land in `auth`.
- `SnapOk`: from loading on, the snapshot is `1..n` in order. This is where the numeric listing is used. It makes `ViewOf` the file numbers and `MarkPath(i)` the file of mark `i`, so that `MarkedFiles(s) = {MarkPath(i) : i \in deleted[s]}` (`MarkedNumbered`).
- `OneLine`: the buffer holds at most one line, and none once the socket is closed. Each handler step then ends with an empty buffer. A QUIT therefore cannot be followed by a DELE, and the marks are frozen once the phase is closing.
- `CommitOk`: during the commit, the marks still to do are marks, and every mark already done has its file gone.
- `RemoveOk`: a pending removal is of the largest mark still to do, and its file is still present. The removal is therefore the abstract removal of a marked file. `MaxInSet` gets the largest element of a finite set of naturals through `WellFoundedInduction`.
- the session is never aborted.

One bridging lemma per abstract action (`AbsOpen`, `AbsLogin`, `AbsMark`, `AbsUnmark`, `AbsClose`, `AbsRemove`, `AbsFinish`, and `AbsStutter`) turns facts about `files`, `APhase(s)`, the view and the marked files into the abstract step. The step lemmas then group the concrete actions:

- `AcceptStep` covers Accept;
- `LoopStep` covers the listener and the receive loop;
- `HandlerRefines` covers every command handler through `HandlerEffect`;
- `CleanupStep`, `ExistsStep` and `RemoveStep` cover the commit.

`SingleFacts` derives `Listing(1..n) = {Numbering}` from the size bound (`ListingNumeric`):

- `OneDigitKey`: below ten, `FileKey(k)` is `<<48 + k, 46>>`, by the first branch of `Digits` and the concatenation facts of `SequenceTheorems`.
- `OneDigitOrder`: on such keys `LexLess` is the order of the numbers, so every sequence in the listing is strictly increasing.
- `IncreasingIsIdentity`: a strictly increasing map of `1..n` into itself is the identity. `f[i] >= i` because `f` restricted to `1..i` injects into `1..f[i]`, and `f[i] <= i` because `f` restricted to `i..n` injects into `f[i]..n` (`FS_Injection`, `FS_Interval`).

The crashes of MCCommitRace, MCListenerCrash and the stale names of MCStaleNames need a second session, and MCLexOrder needs ten files: each breaks the refinement, and each is a finding rather than a gap in this theorem.

### Marks after QUIT

`Pop3PipelineProofs.tla` proves `QuitFreezesMarks == MaxBatch = 1 => (Spec => MarksFrozenAfterQuit)`. It holds for every value of the other constants, any number of sessions included. MCTwo checks the same property on two sessions. MCQuitPipeline, with two lines per recv, shows that the hypothesis is needed.

The inductive invariant is `TypeInv /\ BufInv`. `BufInv` says of each session's buffer:

- it holds at most one line, since a recv completes at most one;
- it is empty until the thread runs;
- it is empty once the thread has closed its own socket inside the loop.

The third conjunct is the one the property needs, and the first is what keeps it true. With a single line in the buffer, every handler leaves the buffer empty: `send_line` consumes the line, or an exception drops it. This is `HandlerEmpties`. QUIT is such a handler, so after its `conn.close()` nothing is left to dispatch. `FrozenStep` then shows that no step of any thread changes the marks of such a session. DELE and RSET need a line, and other sessions' steps leave the marks alone (`Local`). Without the second conjunct, `StartThread` could start a thread on a non-empty buffer.

### SMTP

`SmtpSessionProofs.tla` proves two theorems, for every value of the constants that satisfies `ConstantsAssumption`:

- `SmtpTypeCorrect == Spec => []TypeOK`. `TypeOK` is inductive as it stands. `TypeStep` has one step per handler branch group, and for each group it first derives the branch's new values and then types each changed variable separately. `NextCases` splits the next-state relation, and `ChunkSeq` shows that a DATA chunk is a sequence of lines.
- `DataAuthCorrect == Spec => []DataModeAuthenticated`. The inductive invariant is `TypeOK /\ DataModeAuthenticated`. `TypeOK` supplies the domains that the EXCEPT updates need. `ModeStep` names the four ways a step may change `inData`, `authed` and `authState` without breaking the property:
  - it leaves all three alone;
  - it changes the login or the AUTH state of a session outside data mode (AUTH, the two credential lines, RSET);
  - it enters data mode from an authenticated command state (DATA);
  - it leaves data mode (the end of a message).

  `DataStep` shows that every branch is one of these.

### What is not proved



- Liveness (`QuitLeadsToCommit`) is beyond TLAPS and stays with TLC.
- The fairness part of `MailboxSpec` (an ended session is eventually settled) is checked by TLC only, on MCSingle. `MailboxRefinement` proves the safety part.
- The keys of names of two or more digits (the `NumDigits` branch of `Digits`) appear in no proof: the refinement is proved for at most nine files, and what the string order does from ten files on is only model-checked (MCLexOrder).
- Of the SMTP properties, only `AcceptedStored`, `NoOverwrite` and `EndMarkerEndsData` are unproved. TLC finds each of them violated.

## Not modelled

| Part | Why |
|---|---|
| `run_smtp_server` and `start_server`'s socket setup | No protocol state. |
| Email parsing and attachment saving in `save_email_to_file` | Reduced to the saved message file. Attachment files would collide the same way messages do. |
| Byte-level framing | A command split across recv calls, SMTP pipelining, and `decode(errors='ignore')` of a split multi-byte character. These are listed as hazards in PROJECT.json. |
| The HTTP chunk server and the TCP and UDP echo servers | Stateless loops, with no branches on input worth checking. |
