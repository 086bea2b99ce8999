---------------------------- MODULE FrameStream ----------------------------
(***************************************************************************)
(* What smux needs of the connection below it: the frames the other side   *)
(* sends, numbered from 0, arrive once each and in order.                  *)
(***************************************************************************)
EXTENDS Naturals, Sequences

VARIABLES sent,      \* how many frames the other side has sent
          received   \* the frames handed to smux

Init == sent = 0 /\ received = <<>>

Send == sent' = sent + 1 /\ UNCHANGED received

Receive ==
    /\ Len(received) < sent
    /\ received' = Append(received, Len(received))
    /\ UNCHANGED sent

Next == Send \/ Receive

Spec == Init /\ [][Next]_<<sent, received>>
=============================================================================
