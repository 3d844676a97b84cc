----------------------------- MODULE Broadcast -----------------------------
(***************************************************************************)
(* What a stream promises to each listener: the stream's first chunk, which *)
(* carries the container's header, once, and then a piece of the stream     *)
(* without a gap or a repetition.  Listeners may be cut off at any time.    *)
(***************************************************************************)
EXTENDS Naturals, Sequences

CONSTANT Listeners

VARIABLES
    emitted,               \* chunks the encoder has produced, numbered from 1
    heard                  \* the chunks each listener was given, in order

Init == emitted = 0 /\ heard = [l \in Listeners |-> <<>>]

Emit == emitted' = emitted + 1 /\ UNCHANGED heard

\* The chunks l may hear next.
NextChunks(l) ==
    CASE heard[l] = <<>>     -> {1}
      [] Len(heard[l]) = 1   -> 2 .. emitted
      [] OTHER               -> {heard[l][Len(heard[l])] + 1}

Hear(l) == \E c \in NextChunks(l) :
    /\ c <= emitted
    /\ heard' = [heard EXCEPT ![l] = Append(@, c)]
    /\ UNCHANGED emitted

Next == Emit \/ \E l \in Listeners : Hear(l)

Spec == Init /\ [][Next]_<<emitted, heard>>
=============================================================================
