---------------------------- MODULE SmtpSession ----------------------------
(***************************************************************************)
(* The SMTP server of src/example/smtp_test/server.py: a ThreadingMixIn    *)
(* TCPServer that runs SMTPHandler.handle in a thread per connection.  A  *)
(* handler answers each recv(4096) as one command, walks the AUTH LOGIN    *)
(* exchange (auth_state), collects MAIL FROM and RCPT TO, and after DATA  *)
(* accumulates the bytes until "\r\n.\r\n", then saves the message         *)
(* (process_message, save_email_to_file) to a file named after the second *)
(* it is saved in and the sender, in the directory all threads share.      *)
(*                                                                         *)
(* Data is abstracted: a command chunk is the branch of handle it takes,   *)
(* with the argument as an address or a marker for a malformed one; a      *)
(* base64 credential line is the user it decodes to, BadToken (decodes to  *)
(* no user or to a wrong password) or NotB64 (b64decode or utf-8 decode    *)
(* raises); a DATA chunk is a sequence of lines, "L" for a text line and   *)
(* "DOT" for the line "."; a saved message is its acceptance number.       *)
(***************************************************************************)
EXTENDS Integers, Sequences, FiniteSets

CONSTANTS
    Session,     \* the connections the server hands to handler threads
    Users,       \* the names of USER_DATABASE; a password line u is u's password
    Addresses,   \* the addresses MAIL FROM: and RCPT TO: may name
    NONE,        \* Python's None
    BadToken,    \* a base64 line naming no user, or a wrong password
    NotB64,      \* a line b64decode or the utf-8 decode rejects
    BadArg,      \* an argument without the "FROM:" or "TO:" prefix
    MaxTime,     \* the last second (strftime("%Y%m%d_%H%M%S")) reached
    MaxMsgs,     \* how many messages the clients may complete
    MaxBuf       \* the most lines data_buffer may hold

ASSUME ConstantsAssumption ==
    /\ IsFiniteSet(Users) /\ IsFiniteSet(Addresses)
    /\ {NONE, BadToken, NotB64, BadArg} \cap (Users \cup Addresses) = {}
    /\ Cardinality({NONE, BadToken, NotB64, BadArg}) = 4
    /\ MaxTime \in Nat /\ MaxMsgs \in Nat /\ MaxBuf \in Nat \ {0}

VARIABLES
    phase,      \* "idle" before the connection, "open" in handle, "closed" after
    mailFrom,   \* self.mail_from
    rcptTo,     \* self.rcpt_to, as a set
    inData,     \* self.in_data_mode
    dataBuf,    \* self.data_buffer, as the lines received since DATA
    authed,     \* self.authenticated
    authUser,   \* self.auth_username
    authState,  \* self.auth_state: "none", "username" or "password"
    reply,      \* the status code last sent on the connection (0: none yet)
    now,        \* the wall clock, in seconds
    store,      \* MAIL_STORAGE_DIR: file name -> message saved in it (0: none)
    accepted,   \* messages answered with 250 after DATA, with their sender
    nextId      \* the number the next completed message gets

vars == <<phase, mailFrom, rcptTo, inData, dataBuf, authed, authUser,
          authState, reply, now, store, accepted, nextId>>

\* f"{timestamp}_{from_email}.eml": the second and the sender name the file.
FileNames == (0..MaxTime) \X Addresses

\* The chunks a client may send after DATA: one or two whole lines.
Chunks == UNION {[1..k -> {"L", "DOT"}] : k \in 1..2}

\* b'\r\n.\r\n' in self.data_buffer: a "." line after at least one line,
\* since the CRLF that ends the DATA command is not in the buffer.
HasEnd(b) == \E i \in 2..Len(b) : b[i] = "DOT"

Init ==
    /\ phase = [s \in Session |-> "idle"]
    /\ mailFrom = [s \in Session |-> NONE]
    /\ rcptTo = [s \in Session |-> {}]
    /\ inData = [s \in Session |-> FALSE]
    /\ dataBuf = [s \in Session |-> <<>>]
    /\ authed = [s \in Session |-> FALSE]
    /\ authUser = [s \in Session |-> NONE]
    /\ authState = [s \in Session |-> "none"]
    /\ reply = [s \in Session |-> 0]
    /\ now = 0
    /\ store = [n \in FileNames |-> 0]
    /\ accepted = {}
    /\ nextId = 1

-----------------------------------------------------------------------------
\* The server accepts a connection; handle sends 220 and sets its fields.
Connect(s) ==
    /\ phase[s] = "idle"
    /\ phase' = [phase EXCEPT ![s] = "open"]
    /\ reply' = [reply EXCEPT ![s] = 220]
    /\ UNCHANGED <<mailFrom, rcptTo, inData, dataBuf, authed, authUser,
                   authState, now, store, accepted, nextId>>

\* A second passes.
Tick ==
    /\ now < MaxTime
    /\ now' = now + 1
    /\ UNCHANGED <<phase, mailFrom, rcptTo, inData, dataBuf, authed,
                   authUser, authState, reply, store, accepted, nextId>>

\* recv returns b'': the loop breaks, in data mode as well.
PeerClose(s) ==
    /\ phase[s] = "open"
    /\ phase' = [phase EXCEPT ![s] = "closed"]
    /\ UNCHANGED <<mailFrom, rcptTo, inData, dataBuf, authed, authUser,
                   authState, reply, now, store, accepted, nextId>>

\* A command-mode chunk that is not UTF-8: data.decode('utf-8') raises
\* before any branch, and the except ends the loop without a reply.
Undecodable(s) ==
    /\ phase[s] = "open" /\ ~inData[s]
    /\ phase' = [phase EXCEPT ![s] = "closed"]
    /\ UNCHANGED <<mailFrom, rcptTo, inData, dataBuf, authed, authUser,
                   authState, reply, now, store, accepted, nextId>>

-----------------------------------------------------------------------------
(***************************************************************************)
(* Data mode (lines 39-56): the chunk is appended to data_buffer; once the *)
(* buffer holds the end marker the message is processed and saved, 250 is *)
(* sent and the buffer is cleared, together with anything the chunk        *)
(* carried after the marker.                                               *)
(***************************************************************************)
\* save_email_to_file: self.mail_from.replace raises on None, and the except
\* only logs; otherwise open(filepath, 'w') replaces any file of that name.
Save(s) ==
    IF mailFrom[s] = NONE
    THEN store' = store
    ELSE store' = [store EXCEPT ![<<now, mailFrom[s]>>] = nextId]

\* Lines 46-56 with process_message: save, reset the envelope, answer 250.
Deliver(s) ==
    /\ nextId <= MaxMsgs
    /\ Save(s)
    /\ accepted' = accepted \cup {[id |-> nextId, from |-> mailFrom[s]]}
    /\ nextId' = nextId + 1
    /\ inData' = [inData EXCEPT ![s] = FALSE]
    /\ dataBuf' = [dataBuf EXCEPT ![s] = <<>>]
    /\ mailFrom' = [mailFrom EXCEPT ![s] = NONE]
    /\ rcptTo' = [rcptTo EXCEPT ![s] = {}]
    /\ reply' = [reply EXCEPT ![s] = 250]
    /\ UNCHANGED <<phase, authed, authUser, authState, now>>

DataChunk(s) ==
    /\ phase[s] = "open" /\ inData[s]
    /\ \E c \in Chunks :
          LET b == dataBuf[s] \o c IN
          /\ Len(b) <= MaxBuf
          /\ \/ /\ ~HasEnd(b)
                /\ dataBuf' = [dataBuf EXCEPT ![s] = b]
                /\ UNCHANGED <<phase, mailFrom, rcptTo, inData, authed,
                               authUser, authState, reply, now, store,
                               accepted, nextId>>
             \/ HasEnd(b) /\ Deliver(s)

-----------------------------------------------------------------------------
(***************************************************************************)
(* The AUTH LOGIN exchange (lines 62-86): while auth_state waits, a chunk  *)
(* is a base64 credential whatever it says, and the branch ends with       *)
(* continue.                                                               *)
(***************************************************************************)
Credentials == Users \cup {BadToken, NotB64}

UsernameLine(s) ==
    /\ phase[s] = "open" /\ ~inData[s] /\ authState[s] = "username"
    /\ \E tok \in Credentials :
          \/ /\ tok = NotB64
             /\ reply' = [reply EXCEPT ![s] = 501]
             /\ authState' = [authState EXCEPT ![s] = "none"]
             /\ UNCHANGED authUser
          \/ /\ tok # NotB64
             /\ authUser' = [authUser EXCEPT ![s] = tok]
             /\ authState' = [authState EXCEPT ![s] = "password"]
             /\ reply' = [reply EXCEPT ![s] = 334]
    /\ UNCHANGED <<phase, mailFrom, rcptTo, inData, dataBuf, authed, now,
                   store, accepted, nextId>>

\* USER_DATABASE[auth_username] == password, for a decodable line.
Verified(s, tok) == authUser[s] \in Users /\ tok = authUser[s]

PasswordLine(s) ==
    /\ phase[s] = "open" /\ ~inData[s] /\ authState[s] = "password"
    /\ authState' = [authState EXCEPT ![s] = "none"]
    /\ \E tok \in Credentials :
          \/ /\ tok = NotB64
             /\ reply' = [reply EXCEPT ![s] = 501]
             /\ UNCHANGED authed
          \/ /\ tok # NotB64 /\ Verified(s, tok)
             /\ authed' = [authed EXCEPT ![s] = TRUE]
             /\ reply' = [reply EXCEPT ![s] = 235]
          \/ /\ tok # NotB64 /\ ~Verified(s, tok)
             /\ reply' = [reply EXCEPT ![s] = 535]
             /\ UNCHANGED authed
    /\ UNCHANGED <<phase, mailFrom, rcptTo, inData, dataBuf, authUser, now,
                   store, accepted, nextId>>

-----------------------------------------------------------------------------
(***************************************************************************)
(* Command mode with auth_state None (lines 88-147): one branch per verb.  *)
(***************************************************************************)
Command(s) == phase[s] = "open" /\ ~inData[s] /\ authState[s] = "none"

\* Only the reply changes.
Answer(s, code) ==
    /\ reply' = [reply EXCEPT ![s] = code]
    /\ UNCHANGED <<phase, mailFrom, rcptTo, inData, dataBuf, authed,
                   authUser, authState, now, store, accepted, nextId>>

\* HELO and EHLO: 250 lines.
Helo(s) == Command(s) /\ Answer(s, 250)

\* AUTH LOGIN asks for the username; any other mechanism gets 504.
Auth(s) ==
    /\ Command(s)
    /\ \/ /\ authState' = [authState EXCEPT ![s] = "username"]
          /\ reply' = [reply EXCEPT ![s] = 334]
          /\ UNCHANGED <<phase, mailFrom, rcptTo, inData, dataBuf, authed,
                         authUser, now, store, accepted, nextId>>
       \/ Answer(s, 504)

\* Mutant: MAIL stores its argument without checking the "FROM:" prefix.
MailNoSyntaxCheck(s) ==
    /\ Command(s)
    /\ \E a \in Addresses \cup {BadArg} :
          \/ ~authed[s] /\ Answer(s, 530)
          \/ /\ authed[s]
             /\ mailFrom' = [mailFrom EXCEPT ![s] = a]
             /\ reply' = [reply EXCEPT ![s] = 250]
             /\ UNCHANGED <<phase, rcptTo, inData, dataBuf, authed, authUser,
                            authState, now, store, accepted, nextId>>

Mail(s) ==
    /\ Command(s)
    /\ \E a \in Addresses \cup {BadArg} :
          \/ ~authed[s] /\ Answer(s, 530)
          \/ /\ authed[s] /\ a # BadArg
             /\ mailFrom' = [mailFrom EXCEPT ![s] = a]
             /\ reply' = [reply EXCEPT ![s] = 250]
             /\ UNCHANGED <<phase, rcptTo, inData, dataBuf, authed, authUser,
                            authState, now, store, accepted, nextId>>
          \/ authed[s] /\ a = BadArg /\ Answer(s, 501)

Rcpt(s) ==
    /\ Command(s)
    /\ \E a \in Addresses \cup {BadArg} :
          \/ ~authed[s] /\ Answer(s, 530)
          \/ /\ authed[s] /\ a # BadArg
             /\ rcptTo' = [rcptTo EXCEPT ![s] = @ \cup {a}]
             /\ reply' = [reply EXCEPT ![s] = 250]
             /\ UNCHANGED <<phase, mailFrom, inData, dataBuf, authed,
                            authUser, authState, now, store, accepted,
                            nextId>>
          \/ authed[s] /\ a = BadArg /\ Answer(s, 501)

\* Mutant: DATA enters data mode without the authentication check.
DataNoAuth(s) ==
    /\ Command(s)
    /\ inData' = [inData EXCEPT ![s] = TRUE]
    /\ dataBuf' = [dataBuf EXCEPT ![s] = <<>>]
    /\ reply' = [reply EXCEPT ![s] = 354]
    /\ UNCHANGED <<phase, mailFrom, rcptTo, authed, authUser, authState,
                   now, store, accepted, nextId>>

Data(s) ==
    /\ Command(s)
    /\ \/ ~authed[s] /\ Answer(s, 530)
       \/ /\ authed[s]
          /\ inData' = [inData EXCEPT ![s] = TRUE]
          /\ dataBuf' = [dataBuf EXCEPT ![s] = <<>>]
          /\ reply' = [reply EXCEPT ![s] = 354]
          /\ UNCHANGED <<phase, mailFrom, rcptTo, authed, authUser,
                         authState, now, store, accepted, nextId>>

\* QUIT: 221, then break.
Quit(s) ==
    /\ Command(s)
    /\ phase' = [phase EXCEPT ![s] = "closed"]
    /\ reply' = [reply EXCEPT ![s] = 221]
    /\ UNCHANGED <<mailFrom, rcptTo, inData, dataBuf, authed, authUser,
                   authState, now, store, accepted, nextId>>

\* RSET forgets the envelope and the authentication.
Rset(s) ==
    /\ Command(s)
    /\ mailFrom' = [mailFrom EXCEPT ![s] = NONE]
    /\ rcptTo' = [rcptTo EXCEPT ![s] = {}]
    /\ authed' = [authed EXCEPT ![s] = FALSE]
    /\ authUser' = [authUser EXCEPT ![s] = NONE]
    /\ dataBuf' = [dataBuf EXCEPT ![s] = <<>>]
    /\ reply' = [reply EXCEPT ![s] = 250]
    /\ UNCHANGED <<phase, inData, authState, now, store, accepted, nextId>>

\* NOOP (250), VRFY (252), and any other or empty command (500).
Other(s) == Command(s) /\ \E code \in {250, 252, 500} : Answer(s, code)

-----------------------------------------------------------------------------
\* Every connection has been served.
Terminated ==
    /\ \A s \in Session : phase[s] = "closed"
    /\ UNCHANGED vars

\* One recv of the handler thread of s, answered in full.
Handle(s) ==
    \/ DataChunk(s) \/ UsernameLine(s) \/ PasswordLine(s)
    \/ Helo(s) \/ Auth(s) \/ Mail(s) \/ Rcpt(s) \/ Data(s) \/ Quit(s)
    \/ Rset(s) \/ Other(s) \/ Undecodable(s) \/ PeerClose(s)

Next ==
    \/ \E s \in Session : Connect(s) \/ Handle(s)
    \/ Tick
    \/ Terminated

Spec == Init /\ [][Next]_vars

-----------------------------------------------------------------------------
(***************************************************************************)
(* Properties                                                              *)
(***************************************************************************)
TypeOK ==
    /\ phase \in [Session -> {"idle", "open", "closed"}]
    /\ mailFrom \in [Session -> Addresses \cup {NONE}]
    /\ rcptTo \in [Session -> SUBSET Addresses]
    /\ inData \in [Session -> BOOLEAN]
    /\ dataBuf \in [Session -> Seq({"L", "DOT"})]
    /\ authed \in [Session -> BOOLEAN]
    /\ authUser \in [Session -> Users \cup {NONE, BadToken}]
    /\ authState \in [Session -> {"none", "username", "password"}]
    /\ reply \in [Session -> {0, 220, 221, 235, 250, 252, 334, 354, 500,
                              501, 504, 530, 535}]
    /\ now \in 0..MaxTime
    /\ store \in [FileNames -> 0..MaxMsgs]
    /\ accepted \in SUBSET [id : 1..MaxMsgs, from : Addresses \cup {NONE}]
    /\ nextId \in 1..MaxMsgs + 1

(***************************************************************************)
(* A session collects message data only while it is authenticated and not *)
(* inside an AUTH LOGIN exchange: DATA checks self.authenticated, and once *)
(* in data mode no chunk reaches RSET or AUTH, which could undo it.        *)
(***************************************************************************)
DataModeAuthenticated ==
    \A s \in Session : inData[s] => authed[s] /\ authState[s] = "none"

(***************************************************************************)
(* Every message the server answered with "250 Message accepted for       *)
(* delivery" is in a file of MAIL_STORAGE_DIR (save_email_to_file).        *)
(***************************************************************************)
AcceptedStored ==
    \A m \in accepted : \E n \in FileNames : store[n] = m.id

(***************************************************************************)
(* A saved email file is never replaced: each message gets a file of its  *)
(* own (the timestamp-and-sender name built by save_email_to_file).        *)
(***************************************************************************)
NoOverwrite ==
    [][\A n \in FileNames : store[n] # 0 => store'[n] = store[n]]_vars

(***************************************************************************)
(* The "." line the 354 reply asks for ends the message: no session is     *)
(* still in data mode with a "." line in its buffer (the b'\r\n.\r\n'     *)
(* search of handle).                                                      *)
(***************************************************************************)
EndMarkerEndsData ==
    \A s \in Session :
        inData[s] => \A i \in DOMAIN dataBuf[s] : dataBuf[s][i] # "DOT"

=============================================================================
