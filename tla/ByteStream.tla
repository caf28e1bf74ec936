----------------------------- MODULE ByteStream -----------------------------
(***************************************************************************)
(* What the output side of a socket promises: the bytes handed over go out *)
(* in order, each once; a graceful end comes only after everything that    *)
(* was handed over before it was asked for; and, while the stream is not   *)
(* cut, all of it does go out and the end that was asked for comes.        *)
(***************************************************************************)
EXTENDS Integers, Sequences

VARIABLES
    accepted,   \* bytes handed over
    sent,       \* bytes gone out: byte i is the number i
    promise,    \* accepted when the end was asked for, or -1
    end         \* "none", "graceful" or "forced"

vars == <<accepted, sent, promise, end>>

FirstBytes(n) == [i \in 1 .. n |-> i]

Init == accepted = 0 /\ sent = <<>> /\ promise = -1 /\ end = "none"

\* Bytes are handed over; some may go out at once, and the stream may be cut
Put ==
    /\ end = "none"
    /\ accepted' > accepted
    /\ Len(sent') \in Len(sent) .. accepted'
    /\ sent' = FirstBytes(Len(sent'))
    /\ end' \in {"none", "forced"}
    /\ UNCHANGED promise

\* More bytes go out
Deliver ==
    /\ end = "none"
    /\ \E n \in Len(sent) + 1 .. accepted : sent' = FirstBytes(n)
    /\ UNCHANGED <<accepted, promise, end>>

\* An end is asked for; with nothing pending it comes at once
Ask ==
    /\ end = "none" /\ promise = -1
    /\ promise' = accepted
    /\ end' \in IF Len(sent) = accepted THEN {"graceful"} ELSE {"none"}
    /\ UNCHANGED <<accepted, sent>>

\* The end that was asked for
Finish ==
    /\ end = "none" /\ promise # -1 /\ Len(sent) >= promise
    /\ end' = "graceful"
    /\ UNCHANGED <<accepted, sent, promise>>

\* The stream is cut
Cut ==
    /\ end = "none"
    /\ end' = "forced"
    /\ UNCHANGED <<accepted, sent, promise>>

Next == Put \/ Deliver \/ Ask \/ Finish \/ Cut

Spec == Init /\ [][Next]_vars /\ WF_vars(Deliver) /\ WF_vars(Finish)

=============================================================================
