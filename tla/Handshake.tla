------------------------------ MODULE Handshake ------------------------------
(***************************************************************************)
(* How two peers come to a connection and agree on its encryption          *)
(* (peer/establish.rs, crypto/mse.rs, crypto/config.rs).                   *)
(*                                                                         *)
(* A dialer tries plain BitTorrent and the encrypted handshake (MSE/PE) in *)
(* the order of its mode, each attempt on a connection of its own; the     *)
(* acceptor of each connection tells the two apart by the first byte.      *)
(* Both ends run this code; a dialer that is another program may put its   *)
(* BitTorrent handshake, or a part of it, into the encrypted one as        *)
(* initial payload (`ia').  Bytes are abstracted to messages: a message    *)
(* that is decrypted with the wrong cipher is unreadable.                  *)
(***************************************************************************)
EXTENDS Integers, Sequences

CONSTANTS
    Mishaps         \* bound: reads that time out, keys that look like plain BT

ASSUME HandshakeAssumption == Mishaps \in Nat

Modes == {"off", "prefer-plain", "prefer-rc4", "require-rc4"}
Attempts == 1..2

VARIABLES
    dmode, amode,   \* EncryptionMode of the two ends
    ia,             \* initial payload of the dialer
    peer,           \* what the acceptor finds: the torrent and a slot, or not
    attempt,        \* the dialer's attempt, 0 before the first
    dial, accept,   \* the two ends of each attempt's connection
    toAcc, toDial,  \* messages under way
    mishaps         \* left

shakeVars == <<dmode, amode, ia, peer, attempt, dial, accept, toAcc, toDial, mishaps>>

NoEnd == [pc |-> "none", rc4 |-> FALSE]

\* crypto_provide_bits and select_crypto
Provides(mode) == CASE mode = "off" -> {"plain"}
                    [] mode = "require-rc4" -> {"rc4"}
                    [] OTHER -> {"plain", "rc4"}
Preferred(mode) == IF mode \in {"off", "prefer-plain"} THEN "plain" ELSE "rc4"
\* Seeded fault: what the other end provides is not asked.
SelectByPreference(theirs, mode) == Preferred(mode)
Select(theirs, mode) ==
    LET common == Provides(mode) \cap theirs
    IN IF common = {} THEN "none"
       ELSE IF Preferred(mode) \in common THEN Preferred(mode)
       ELSE CHOOSE c \in common : TRUE

\* run_outbound_peer: what each mode tries.
Tries(mode) == CASE mode = "off" -> <<"plain">>
                 [] mode = "prefer-plain" -> <<"plain", "pe">>
                 [] mode = "prefer-rc4" -> <<"pe", "plain">>
                 [] mode = "require-rc4" -> <<"pe">>

Dialing(n) == dial[n].pc \in {"yb", "resp", "hs"}
Accepting(n) == accept[n].pc \in {"first", "sync", "hs"}

HandshakeInit ==
    /\ dmode \in Modes /\ amode \in Modes
    /\ ia \in {"none", "full", "part"}
    /\ peer \in {"known", "unknown", "full", "self"}
    /\ attempt = 0
    /\ dial = [n \in Attempts |-> NoEnd] /\ accept = [n \in Attempts |-> NoEnd]
    /\ toAcc = [n \in Attempts |-> <<>>] /\ toDial = [n \in Attempts |-> <<>>]
    /\ mishaps = Mishaps

-----------------------------------------------------------------------------
(* The dialer.                                                             *)

\* The first attempt, or the next one after a failure.
Connect ==
    LET n == attempt + 1
    IN /\ n <= Len(Tries(dmode))
       /\ attempt > 0 => dial[attempt].pc = "failed"
       /\ attempt' = n
       /\ accept' = [accept EXCEPT ![n].pc = "first"]
       /\ IF Tries(dmode)[n] = "plain"
          THEN /\ dial' = [dial EXCEPT ![n].pc = "hs"]
               /\ toAcc' = [toAcc EXCEPT ![n] = <<[k |-> "hs", rc4 |-> FALSE]>>]
               /\ mishaps' = mishaps
          ELSE \E lucky \in BOOLEAN :
               \* one public key in 256 begins with the byte of a plain handshake
               /\ ~lucky => mishaps > 0
               /\ mishaps' = IF lucky THEN mishaps ELSE mishaps - 1
               /\ dial' = [dial EXCEPT ![n].pc = "yb"]
               /\ toAcc' = [toAcc EXCEPT ![n] = <<[k |-> "ya", first19 |-> ~lucky]>>]
       /\ UNCHANGED <<dmode, amode, ia, peer, toDial>>

\* pe_initiate: YB arrives, the sync goes out.
DialYb(n) ==
    /\ dial[n].pc = "yb" /\ toDial[n] # <<>>
    /\ dial' = [dial EXCEPT ![n].pc = "resp"]
    /\ toDial' = [toDial EXCEPT ![n] = Tail(@)]
    /\ toAcc' = [toAcc EXCEPT ![n] = Append(@, [k |-> "sync", provide |-> Provides(dmode), ia |-> ia])]
    /\ UNCHANGED <<dmode, amode, ia, peer, attempt, accept, mishaps>>

\* The response: the handshake follows on the selected cipher, less what the
\* initial payload held.
DialResp(n) ==
    /\ dial[n].pc = "resp" /\ toDial[n] # <<>>
    /\ LET rc4 == Head(toDial[n]).select = "rc4"
       IN /\ dial' = [dial EXCEPT ![n] = [pc |-> "hs", rc4 |-> rc4]]
          /\ toAcc' = [toAcc EXCEPT ![n] =
                CASE ia = "none" -> Append(@, [k |-> "hs", rc4 |-> rc4])
                  [] ia = "part" -> Append(@, [k |-> "rest", rc4 |-> rc4])
                  [] OTHER -> @]
    /\ toDial' = [toDial EXCEPT ![n] = Tail(@)]
    /\ UNCHANGED <<dmode, amode, ia, peer, attempt, accept, mishaps>>

\* Seeded fault: the answer is read in plain whatever was selected.
ReadablePlain(m, rc4) == ~m.rc4
Readable(m, rc4) == m.rc4 = rc4

\* dial_plain, dial_pe and run_outbound_after_hs: the other handshake.  Our own
\* peer id is refused here as well, but the acceptor never lets it come so far.
DialHs(n) ==
    /\ dial[n].pc = "hs" /\ toDial[n] # <<>>
    /\ dial' = [dial EXCEPT ![n].pc = IF Readable(Head(toDial[n]), dial[n].rc4) THEN "up"
                                      ELSE "failed"]
    /\ toDial' = [toDial EXCEPT ![n] = Tail(@)]
    /\ UNCHANGED <<dmode, amode, ia, peer, attempt, accept, toAcc, mishaps>>

\* End of file, or a read that took too long.
DialFails(n) ==
    /\ Dialing(n) /\ toDial[n] = <<>>
    /\ \/ accept[n].pc = "failed" /\ mishaps' = mishaps
       \/ mishaps > 0 /\ mishaps' = mishaps - 1
    /\ dial' = [dial EXCEPT ![n].pc = "failed"]
    /\ UNCHANGED <<dmode, amode, ia, peer, attempt, accept, toAcc, toDial>>

-----------------------------------------------------------------------------
(* The acceptor of one connection.                                         *)

\* inbound_after_known: self, then the slot, then our handshake.
Welcome(n, rc4) ==
    IF peer \in {"self", "full"}
    THEN /\ accept' = [accept EXCEPT ![n].pc = "failed"] /\ toDial' = toDial
    ELSE /\ accept' = [accept EXCEPT ![n] = [pc |-> "up", rc4 |-> rc4]]
         /\ toDial' = [toDial EXCEPT ![n] = Append(@, [k |-> "hs", rc4 |-> rc4])]

Refuse(n) == accept' = [accept EXCEPT ![n].pc = "failed"] /\ toDial' = toDial

TakesPlain == amode # "require-rc4"

\* establish_inbound: the first byte decides; a key that begins with 19 is
\* read as a plain handshake and is none.
AccFirst(n) ==
    /\ accept[n].pc = "first" /\ toAcc[n] # <<>>
    /\ toAcc' = [toAcc EXCEPT ![n] = Tail(@)]
    /\ LET m == Head(toAcc[n])
       IN CASE m.k = "hs" -> IF TakesPlain /\ peer # "unknown" THEN Welcome(n, FALSE) ELSE Refuse(n)
            [] m.k = "ya" -> IF m.first19 \/ amode = "off" THEN Refuse(n)
                             ELSE /\ accept' = [accept EXCEPT ![n].pc = "sync"]
                                  /\ toDial' = [toDial EXCEPT ![n] = Append(@, [k |-> "yb"])]
    /\ UNCHANGED <<dmode, amode, ia, peer, attempt, dial, mishaps>>

\* pe_accept_incoming: the torrent by its SKEY, the cipher, the response.  A
\* whole handshake in the initial payload is answered at once; a part of one
\* is dropped.
AccSync(n) ==
    /\ accept[n].pc = "sync" /\ toAcc[n] # <<>>
    /\ toAcc' = [toAcc EXCEPT ![n] = Tail(@)]
    /\ LET m == Head(toAcc[n])
           cipher == Select(m.provide, amode)
           resp == [k |-> "resp", select |-> cipher]
           rc4 == cipher = "rc4"
       IN IF peer = "unknown" \/ cipher = "none" THEN Refuse(n)
          ELSE IF m.ia # "full"
          THEN /\ accept' = [accept EXCEPT ![n] = [pc |-> "hs", rc4 |-> rc4]]
               /\ toDial' = [toDial EXCEPT ![n] = Append(@, resp)]
          ELSE IF peer \in {"self", "full"}
          THEN /\ accept' = [accept EXCEPT ![n].pc = "failed"]
               /\ toDial' = [toDial EXCEPT ![n] = Append(@, resp)]
          ELSE /\ accept' = [accept EXCEPT ![n] = [pc |-> "up", rc4 |-> rc4]]
               /\ toDial' = [toDial EXCEPT ![n] = @ \o <<resp, [k |-> "hs", rc4 |-> rc4]>>]
    /\ UNCHANGED <<dmode, amode, ia, peer, attempt, dial, mishaps>>

AccHs(n) ==
    /\ accept[n].pc = "hs" /\ toAcc[n] # <<>>
    /\ toAcc' = [toAcc EXCEPT ![n] = Tail(@)]
    /\ LET m == Head(toAcc[n])
       IN IF m.k = "hs" /\ Readable(m, accept[n].rc4) THEN Welcome(n, accept[n].rc4) ELSE Refuse(n)
    /\ UNCHANGED <<dmode, amode, ia, peer, attempt, dial, mishaps>>

\* End of file, or the budget of the handshake is spent.
AccFails(n) ==
    /\ Accepting(n) /\ toAcc[n] = <<>>
    /\ \/ dial[n].pc = "failed" /\ mishaps' = mishaps
       \/ mishaps > 0 /\ mishaps' = mishaps - 1
    /\ accept' = [accept EXCEPT ![n].pc = "failed"]
    /\ UNCHANGED <<dmode, amode, ia, peer, attempt, dial, toAcc, toDial>>

HandshakeNext ==
    \/ Connect
    \/ \E n \in Attempts : \/ DialYb(n) \/ DialResp(n) \/ DialHs(n) \/ DialFails(n)
                           \/ AccFirst(n) \/ AccSync(n) \/ AccHs(n) \/ AccFails(n)

HandshakeSpec == HandshakeInit /\ [][HandshakeNext]_shakeVars
HandshakeFairSpec == HandshakeSpec /\ WF_shakeVars(HandshakeNext)

-----------------------------------------------------------------------------
HandshakeTypeOK ==
    /\ attempt \in 0..2 /\ mishaps \in 0..Mishaps
    /\ \A n \in Attempts :
          /\ dial[n].pc \in {"none", "yb", "resp", "hs", "up", "failed"}
          /\ accept[n].pc \in {"none", "first", "sync", "hs", "up", "failed"}
          /\ n > attempt => dial[n] = NoEnd /\ accept[n] = NoEnd

\* config.rs: "off - plaintext only", "require-rc4 - RC4 only", at both ends
\* of a connection and whatever the order of the attempts; and the two ends of
\* a connection that is up at both use the same cipher.
CipherAgreed == \A n \in Attempts :
    /\ dial[n].pc = "up" => /\ dmode = "require-rc4" => dial[n].rc4
                            /\ dmode = "off" => ~dial[n].rc4
    /\ accept[n].pc = "up" => /\ amode = "require-rc4" => accept[n].rc4
                              /\ amode = "off" => ~accept[n].rc4
    /\ dial[n].pc = "up" /\ accept[n].pc = "up" => dial[n].rc4 = accept[n].rc4

\* establish.rs: two ends whose modes have a cipher in common connect, unless
\* a read times out or a key looks like a plain handshake, or the dialer sends
\* a part of its handshake ahead.
Connects ==
    /\ Provides(dmode) \cap Provides(amode) # {} /\ peer = "known" /\ ia # "part"
    => <>(mishaps < Mishaps \/ \E n \in Attempts : dial[n].pc = "up" /\ accept[n].pc = "up")
=============================================================================
