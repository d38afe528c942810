---------------------------- MODULE MCUploadPath ----------------------------
(* Small instances of UploadPath for TLC.                                  *)
EXTENDS UploadPath, TLC

CONSTANTS a, b, x, y

OneEach == x :> a @@ y :> a

Mode(f, r, u) == [fast |-> f, rc4 |-> r, upload |-> u]
ThreeModes == {Mode(TRUE, TRUE, TRUE), Mode(FALSE, FALSE, TRUE), Mode(TRUE, FALSE, FALSE)}

\* A remote that asks a lot from a seed, a little while one piece comes in,
\* or nothing while two do.
MCInit ==
    /\ Init
    /\ \/ have = Pieces /\ idle = 0
          /\ msgs = IF mode.rc4 THEN MaxMsgs ELSE 2
       \/ have = {a} /\ idle = MaxIdle /\ msgs = 1
       \/ have = {} /\ idle = 0 /\ msgs = 0
MCSpec == MCInit /\ [][Next]_vars /\ WF_vars(HelloNext) /\ WF_vars(WriterNext)
=============================================================================
