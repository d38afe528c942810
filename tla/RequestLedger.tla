--------------------------- MODULE RequestLedger ----------------------------
(***************************************************************************)
(* What the upload side of a session promises the remote peer, with no     *)
(* queue in sight: every block it asked for is owed one answer, a PIECE or *)
(* (Fast extension) a REJECT.  A block is answered only while it is owed,  *)
(* it may be forgotten only when the peer took the request back or the     *)
(* session has no way to say no, and nothing is owed for ever.             *)
(* UploadPath implements this specification.                               *)
(***************************************************************************)
EXTENDS Integers

CONSTANT
    Blocks     \* blocks a remote peer may ask for

VARIABLES
    fast,      \* TRUE when both sides speak the Fast extension
    owed,      \* answers owed for each block
    sent,      \* answers given for each block
    revoked,   \* blocks the peer has taken back and we have not noticed yet
    over       \* the session is ending: nothing is owed or counted any more

ledgerVars == <<fast, owed, sent, revoked, over>>

LedgerInit ==
    /\ fast \in BOOLEAN
    /\ owed = [b \in Blocks |-> 0]
    /\ sent = [b \in Blocks |-> 0]
    /\ revoked = {}
    /\ over = FALSE

Ask(b) ==
    /\ owed' = [owed EXCEPT ![b] = @ + 1]
    /\ UNCHANGED <<sent, revoked, over>>

\* Cancel names one block, NotInterested all of them.
Revoke(B) ==
    /\ revoked' = revoked \cup B
    /\ UNCHANGED <<owed, sent, over>>

\* One write may carry several answers; each settles one request.
Answer ==
    /\ \A b \in Blocks :
          /\ sent'[b] >= sent[b]
          /\ owed'[b] = owed[b] - (sent'[b] - sent[b])
          /\ owed'[b] >= 0
    /\ UNCHANGED <<revoked, over>>

\* A request may go unanswered if the peer took it back, or if the session
\* has no REJECT to send.
Forget ==
    /\ \A b \in Blocks :
          /\ owed'[b] <= owed[b]
          /\ owed'[b] < owed[b] => (b \in revoked \/ ~fast)
    /\ revoked' \subseteq revoked
    /\ UNCHANGED <<sent, over>>

Close ==
    /\ over' = TRUE
    /\ owed' = [b \in Blocks |-> 0]
    /\ revoked' = {}
    /\ sent' = [b \in Blocks |-> 0]

LedgerNext ==
    /\ ~over /\ UNCHANGED fast
    /\ \/ \E b \in Blocks : Ask(b)
       \/ \E B \in SUBSET Blocks : Revoke(B)
       \/ Answer \/ Forget \/ Close

\* Every request is settled in the end.
Settled == \A b \in Blocks : owed[b] > 0 ~> owed[b] = 0

LedgerSpec == LedgerInit /\ [][LedgerNext]_ledgerVars /\ Settled
=============================================================================
