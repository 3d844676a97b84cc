---------------------------- MODULE FrameChannel ----------------------------
(***************************************************************************)
(* What the frame path promises to the encoders of a session: frames may   *)
(* be lost, but an encoder hears what it hears in the order of capture,    *)
(* nothing twice, and never a frame another encoder has heard: the frames  *)
(* of a session's first encoder all precede those of its second.           *)
(***************************************************************************)
EXTENDS Naturals, Sequences

CONSTANT Encoders          \* numbers, in the order in which a session uses them

VARIABLES
    sent,                  \* frames the capture has delivered
    heard                  \* the frames each encoder was given, in order

Init == sent = 0 /\ heard = [e \in Encoders |-> <<>>]

Send == sent' = sent + 1 /\ UNCHANGED heard

\* f continues what e has heard, between the encoders before and after it.
Follows(f, e) == \A d \in Encoders : \A i \in DOMAIN heard[d] :
    IF d <= e THEN heard[d][i] < f ELSE f < heard[d][i]

Hear(e) == \E f \in 1 .. sent :
    /\ Follows(f, e)
    /\ heard' = [heard EXCEPT ![e] = Append(@, f)]
    /\ UNCHANGED sent

Next == Send \/ \E e \in Encoders : Hear(e)

Spec == Init /\ [][Next]_<<sent, heard>>
=============================================================================
