---------------------------- MODULE Pop3Mailbox ----------------------------
(***************************************************************************)
(* What a POP3 server promises its clients about the mailbox, with no      *)
(* sockets, threads, indices or file names: a session sees the mailbox as *)
(* it was when the session began, its user logs in, marks messages of     *)
(* that view and may unmark them all, and once the session has ended the  *)
(* marked messages, and only they, leave the mailbox before the session   *)
(* is over.  Pop3Session is checked against it (Pop3Session!MailboxSpec). *)
(***************************************************************************)
CONSTANTS
    Session,     \* the connections
    InitFiles    \* the messages of the mailbox at start

VARIABLES
    mbox,        \* the messages now in the mailbox
    aphase,      \* where each session is in its life
    view,        \* the messages a session was shown when it began
    amarks       \* the messages a session's user has marked for deletion

avars == <<mbox, aphase, view, amarks>>

Phases == {"idle", "auth", "trans", "closing", "done"}

TypeOK ==
    /\ mbox \subseteq InitFiles
    /\ aphase \in [Session -> Phases]
    /\ view \in [Session -> SUBSET InitFiles]
    /\ amarks \in [Session -> SUBSET InitFiles]

Init ==
    /\ mbox = InitFiles
    /\ aphase = [s \in Session |-> "idle"]
    /\ view = [s \in Session |-> {}]
    /\ amarks = [s \in Session |-> {}]

\* A connection is accepted: its view is the mailbox of this moment.
Open(s) ==
    /\ aphase[s] = "idle"
    /\ aphase' = [aphase EXCEPT ![s] = "auth"]
    /\ view' = [view EXCEPT ![s] = mbox]
    /\ UNCHANGED <<mbox, amarks>>

Login(s) ==
    /\ aphase[s] = "auth"
    /\ aphase' = [aphase EXCEPT ![s] = "trans"]
    /\ UNCHANGED <<mbox, view, amarks>>

Mark(s, m) ==
    /\ aphase[s] = "trans"
    /\ m \in view[s]
    /\ amarks' = [amarks EXCEPT ![s] = @ \cup {m}]
    /\ UNCHANGED <<mbox, aphase, view>>

Unmark(s) ==
    /\ aphase[s] = "trans"
    /\ amarks' = [amarks EXCEPT ![s] = {}]
    /\ UNCHANGED <<mbox, aphase, view>>

\* The session ends, by QUIT or otherwise: its marks are now final.
Close(s) ==
    /\ aphase[s] \in {"auth", "trans"}
    /\ aphase' = [aphase EXCEPT ![s] = "closing"]
    /\ UNCHANGED <<mbox, view, amarks>>

\* The commit removes marked messages, one at a time.
Remove(s, m) ==
    /\ aphase[s] = "closing"
    /\ m \in amarks[s] \cap mbox
    /\ mbox' = mbox \ {m}
    /\ UNCHANGED <<aphase, view, amarks>>

Finish(s) ==
    /\ aphase[s] = "closing"
    /\ amarks[s] \cap mbox = {}
    /\ aphase' = [aphase EXCEPT ![s] = "done"]
    /\ UNCHANGED <<mbox, view, amarks>>

\* What an ended session still has to do.
Settle(s) == (\E m \in InitFiles : Remove(s, m)) \/ Finish(s)

Next ==
    \E s \in Session :
        \/ Open(s) \/ Login(s) \/ Unmark(s) \/ Close(s) \/ Finish(s)
        \/ \E m \in InitFiles : Mark(s, m) \/ Remove(s, m)

\* What may happen, with no promise that anything does.
SafetySpec == Init /\ [][Next]_avars

\* A client may stay forever; an ended session is always committed.
Spec == Init /\ [][Next]_avars /\ \A s \in Session : WF_avars(Settle(s))

=============================================================================
