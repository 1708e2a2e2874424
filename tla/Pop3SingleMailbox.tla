------------------------- MODULE Pop3SingleMailbox --------------------------
(***************************************************************************)
(* The conditions under which Pop3Session keeps the promise of             *)
(* Pop3Mailbox (MailboxSpec), for any mailbox that meets them:             *)
(*  - one connection at a time: a second session's commit renumbers the    *)
(*    files the first session's marks name (cleanup_deleted derives the   *)
(*    name "i+1.txt" from the index);                                      *)
(*  - a client that waits for each reply, so one recv holds one command:  *)
(*    the server never advertises PIPELINING, and a DELE sent after QUIT   *)
(*    in the same segment adds a mark to a session that has ended;         *)
(*  - the mailbox holds "1.txt" to "n.txt" with n at most nine, so that   *)
(*    sorted() lists them in numeric order and index i of the snapshot is *)
(*    the file cleanup_deleted removes for it ("10.txt" sorts before      *)
(*    "2.txt", MCLexOrder).                                                *)
(***************************************************************************)
EXTENDS Pop3Session

\* The number of messages in the mailbox at start.
MailboxSize == Cardinality(InitFiles)

\* The snapshot load_messages takes when the listing is in numeric order.
Numbering == [k \in 1..MailboxSize |-> k]

ASSUME SingleMailboxAssumption ==
    /\ \E s \in Session : Session = {s}
    /\ MaxBatch = 1
    /\ InitFiles = 1..MailboxSize
    /\ MailboxSize <= 9

=============================================================================
