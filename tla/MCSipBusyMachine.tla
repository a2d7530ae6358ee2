-------------------------- MODULE MCSipBusyMachine --------------------------
(***************************************************************************)
(* Instances of SipBusyMachine: two trusted servers, of which one may be    *)
(* unreachable, and one other, calls to a verification number and to       *)
(* another number, two callers, two threads.                               *)
(***************************************************************************)
EXTENDS SipBusyMachine, TLC

CONSTANTS t1, t2, sip, far, other, alice, bob, verify, wrong

MCThread == {t1, t2}
MCServer == {sip, far, other}
MCTrusted == {sip, far}
MCUnreachable == {far}
MCCaller == {alice, bob}
MCCallee == {verify, wrong}
MCVerification == {verify}
MCKey == {"sip-alice", "sip-bob", "far", "other"}
MCKeyOf == [sc \in MCServer \X MCCaller |->
              IF sc[1] = other THEN "other" ELSE IF sc[1] = far THEN "far"
              ELSE IF sc[2] = alice THEN "sip-alice" ELSE "sip-bob"]

Dgram(m, s, f, t) == [method |-> m, server |-> s, from |-> f, to |-> t]

\* Three calls that run the callback, one that does not, and the rest dropped.
MCDatagram == {Dgram("INVITE", sip, alice, verify), Dgram("INVITE", sip, bob, verify),
               Dgram("INVITE", far, alice, verify), Dgram("INVITE", sip, alice, wrong),
               Dgram("INVITE", other, alice, verify), Dgram("CANCEL", sip, alice, verify),
               Dgram("unparsable", sip, alice, verify)}
=============================================================================
