-------------------------------- MODULE Pipe --------------------------------
(***************************************************************************)
(* What one direction of a relayed connection promises.  The sender's      *)
(* units are numbered 1, 2, 3, ...; the receiver gets them in order,       *)
(* without a gap, without a repetition and with nothing in between; and    *)
(* unless the connection broke it sees the end of the stream only when it  *)
(* has got everything the sender sent before its own end.                  *)
(***************************************************************************)
EXTENDS Naturals, Sequences

VARIABLES sent,   \* how many units the sender has sent
          sender, \* "open", "finished", or "broken" (on either side)
          got,    \* what the receiver has got
          ended   \* the receiver has seen the end of the stream

pipeVars == <<sent, sender, got, ended>>

PipeInit ==
    /\ sent = 0
    /\ sender = "open"
    /\ got = <<>>
    /\ ended = FALSE

(* Into a broken connection the sender may still send.                     *)
Send ==
    /\ sender # "finished"
    /\ sent' = sent + 1
    /\ UNCHANGED <<sender, got, ended>>

Finish ==
    /\ sender = "open"
    /\ sender' = "finished"
    /\ UNCHANGED <<sent, got, ended>>

Break ==
    /\ sender' = "broken"
    /\ UNCHANGED <<sent, got, ended>>

Deliver ==
    /\ ~ended
    /\ Len(got) < sent
    /\ got' = Append(got, Len(got) + 1)
    /\ UNCHANGED <<sent, sender, ended>>

(* A relay that gives up breaks the connection and ends it in one step.    *)
End ==
    /\ ended' = TRUE
    /\ \/ sender = "finished" /\ Len(got) = sent /\ UNCHANGED sender
       \/ sender' = "broken"
    /\ UNCHANGED <<sent, got>>

PipeNext == Send \/ Finish \/ Break \/ Deliver \/ End

PipeSpec == PipeInit /\ [][PipeNext]_pipeVars
=============================================================================
