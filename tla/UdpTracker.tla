------------------------------- MODULE UdpTracker -------------------------------
(***************************************************************************)
(* One announce to a UDP tracker (tracker/udp.rs, dns.rs, tracker.rs).     *)
(*                                                                         *)
(* The host has up to two addresses, tried one after the other on the same *)
(* socket: a connect datagram for a connection id, an announce datagram    *)
(* with it, and for each one a wait of five seconds for one datagram.      *)
(* Datagrams are lost, duplicated and late; what answers the first address *)
(* may arrive while the second one is being asked.                         *)
(***************************************************************************)
EXTENDS Integers, FiniteSets

CONSTANTS
    NumAddrs,       \* addresses that resolve_ipv4 returns at most
    MaxCopies       \* bound: datagrams that arrive twice

ASSUME UdpAssumption == NumAddrs \in Nat \ {0} /\ MaxCopies \in Nat

VARIABLES
    addr,       \* the address being asked
    stage,      \* of announce_udp
    conn,       \* the connection id: the address that gave it, or 0
    asked,      \* datagrams on their way to a tracker
    answers,    \* datagrams on their way to the socket
    counted,    \* addresses whose tracker counted this announce
    result,     \* of the announce
    copies      \* left

udpVars == <<addr, stage, conn, asked, answers, counted, result, copies>>

UdpInit ==
    /\ addr = 0 /\ stage = "resolve" /\ conn = 0
    /\ asked = {} /\ answers = {} /\ counted = {} /\ result = "none" /\ copies = MaxCopies

\* A transaction id is new for every datagram sent.
Tid(a, kind) == IF kind = "connect" THEN 2 * a - 1 ELSE 2 * a
UdpConnect(a) == [kind |-> "connect", to |-> a, tid |-> Tid(a, "connect"), conn |-> 0]
Announce(a, c) == [kind |-> "announce", to |-> a, tid |-> Tid(a, "announce"), conn |-> c]

\* resolve_ipv4, which may fail; then the first address.
Resolve(n) ==
    /\ stage = "resolve"
    /\ IF n = 0 THEN stage' = "done" /\ result' = "failed" /\ UNCHANGED <<addr, asked>>
       ELSE stage' = "connect" /\ addr' = NumAddrs + 1 - n /\ asked' = {UdpConnect(addr')} /\ result' = result
    /\ UNCHANGED <<conn, answers, counted, copies>>

\* An attempt that fails is followed by the next address.
NextAddress ==
    /\ IF addr = NumAddrs
       THEN stage' = "done" /\ result' = "failed" /\ UNCHANGED <<addr, asked>>
       ELSE /\ stage' = "connect" /\ addr' = addr + 1 /\ asked' = asked \cup {UdpConnect(addr + 1)}
            /\ UNCHANGED result
    /\ conn' = 0

Waiting == stage \in {"connect", "announce"}
TimesOut == Waiting /\ NextAddress /\ UNCHANGED <<answers, counted, copies>>

-----------------------------------------------------------------------------
(* The network and the trackers.                                           *)

Lose(d) == /\ asked' = asked \ {d} /\ answers' = answers \ {d}
           /\ UNCHANGED <<addr, stage, conn, counted, result, copies>>

\* What arrives may arrive again.
Repeats(again) == IF again THEN copies > 0 /\ copies' = copies - 1 ELSE copies' = copies
Rest(set, d, again) == IF again THEN set ELSE set \ {d}

\* A tracker knows the connection ids it gave; it may refuse.
TrackerAnswers(q, refuses, again) ==
    LET knows == q.kind = "connect" \/ q.conn = q.to
        kind == IF refuses \/ ~knows THEN "error" ELSE q.kind
    IN /\ q \in asked /\ Repeats(again) /\ asked' = Rest(asked, q, again)
       /\ answers' = answers \cup {[kind |-> kind, from |-> q.to, tid |-> q.tid,
                                    conn |-> IF kind = "connect" THEN q.to ELSE 0]}
       /\ counted' = IF kind = "announce" THEN counted \cup {q.to} ELSE counted
       /\ UNCHANGED <<addr, stage, conn, result>>

-----------------------------------------------------------------------------
(* announce_udp_addr: the one datagram that each wait takes.               *)

\* Seeded fault: the transaction id of an answer is not looked at.
AnyAnswer(d) == TRUE
\* The answer is to the last datagram sent.
Answers(d) == d.tid = Tid(addr, stage)

\* parse_connect_response
TakesConnect(d, again) ==
    /\ d \in answers /\ stage = "connect" /\ Repeats(again) /\ answers' = Rest(answers, d, again)
    /\ IF Answers(d) /\ d.kind = "connect"
       THEN /\ conn' = d.conn /\ stage' = "announce"
            /\ asked' = asked \cup {Announce(addr, d.conn)}
            /\ UNCHANGED <<addr, result>>
       ELSE NextAddress
    /\ UNCHANGED counted

\* parse_announce_response_udp: a connect answer is too short.
TakesAnnounce(d, again) ==
    /\ d \in answers /\ stage = "announce" /\ Repeats(again) /\ answers' = Rest(answers, d, again)
    /\ IF Answers(d) /\ d.kind # "connect"
       THEN /\ stage' = "done" /\ result' = (IF d.kind = "error" THEN "refused" ELSE "ok")
            /\ UNCHANGED <<addr, conn, asked>>
       ELSE NextAddress
    /\ UNCHANGED counted

-----------------------------------------------------------------------------
UdpNext ==
    \/ \E n \in 0..NumAddrs : Resolve(n)
    \/ TimesOut
    \/ \E again \in BOOLEAN :
          \/ \E d \in answers : TakesConnect(d, again) \/ TakesAnnounce(d, again)
          \/ \E q \in asked, refuses \in BOOLEAN : TrackerAnswers(q, refuses, again)
    \/ \E d \in asked \cup answers : Lose(d)

UdpSpec == UdpInit /\ [][UdpNext]_udpVars

-----------------------------------------------------------------------------
UdpTypeOK ==
    /\ addr \in 0..NumAddrs /\ conn \in 0..NumAddrs /\ counted \subseteq 1..NumAddrs
    /\ stage \in {"resolve", "connect", "announce", "done"}
    /\ result \in {"none", "ok", "refused", "failed"} /\ (result # "none") = (stage = "done")

\* An announce that is taken for done was counted by the tracker that it was
\* sent to, whatever late, lost and repeated datagrams there are: the session
\* clears a pending "completed" on the strength of it.
OkIsCounted == result = "ok" => addr \in counted /\ conn = addr

\* A datagram that is no answer to this attempt does not make it fail.
Strays == {d \in answers : ~Answers(d)}
StraysAreHarmless == [][Strays \subseteq Strays' \/ addr' = addr \/ stage = "done"]_udpVars
=============================================================================
