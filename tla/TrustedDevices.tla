--------------------------- MODULE TrustedDevices ---------------------------
(***************************************************************************)
(* The Bluetooth devices that the bridge trusts: the store, its file,      *)
(* which is truncated and rewritten in place, and the reconnections when   *)
(* the bridge starts.  The bridge may die at any time, while it writes the *)
(* file too.                                                               *)
(***************************************************************************)
EXTENDS Naturals

CONSTANTS
    Devices,
    MaxCalls,    \* bound: calls that change the store
    MaxRuns,     \* bound: starts of the bridge
    None

VARIABLES
    up,                   \* the bridge runs
    trusted, preferred,   \* the store's _data
    file,                 \* what its file says; None when it was cut off
    routine,              \* on_startup: "waiting" for BlueZ, "connecting", "over"
    macs, now,            \* on_startup: devices that are left, and the present one
    calls, runs,
    asked,                \* what the user has said
    unsaved,              \* the last save could not open the file
    lost,                 \* the bridge has started from such a file
    askedThen             \* asked, when on_startup looked

store == <<trusted, preferred>>
startup == <<routine, macs, now>>
facts == <<lost, askedThen>>
vars == <<up, store, file, startup, calls, runs, asked, unsaved, facts>>

Contents == [trusted |-> trusted, preferred |-> preferred]

Init ==
    /\ up = TRUE /\ trusted = {} /\ preferred = None /\ file = Contents
    /\ routine = "waiting" /\ macs = {} /\ now = None
    /\ calls = 0 /\ runs = 1
    /\ asked = {} /\ unsaved = FALSE /\ lost = FALSE /\ askedThen = {}

-----------------------------------------------------------------------------
(* The store *)

\* on_startup goes on while the bridge does.
StartupGoesOn == IF up' THEN UNCHANGED startup ELSE routine' = "over" /\ macs' = {} /\ now' = None

\* _save: the file is written, or cannot be opened, or is cut off by an error
\* or by the end of the bridge.
Save ==
    \/ up' = TRUE /\ unsaved' = FALSE /\ file' = Contents'
    \/ up' = TRUE /\ unsaved' = TRUE /\ UNCHANGED file
    \/ up' \in BOOLEAN /\ unsaved' = FALSE /\ file' = None

\* trust_device: for a call of the API, or a device that has paired.
Trust(mac) ==
    /\ up /\ calls < MaxCalls
    /\ trusted' = trusted \cup {mac} /\ UNCHANGED preferred
    /\ Save
    /\ asked' = asked \cup {mac}
    /\ calls' = calls + 1
    /\ StartupGoesOn
    /\ UNCHANGED <<runs, facts>>

(* Mutant: forgetting the preferred device is saved, forgetting another is not. *)
UntrustPreferred(mac) ==
    /\ trusted' = trusted \ {mac}
    /\ preferred' = IF mac \in trusted /\ preferred = mac THEN None ELSE preferred
    /\ IF mac \in trusted /\ preferred = mac THEN Save ELSE UNCHANGED <<up, file, unsaved>>

\* untrust_device saves when there is something to forget.
Untrust(mac) ==
    /\ trusted' = trusted \ {mac}
    /\ preferred' = IF mac \in trusted /\ preferred = mac THEN None ELSE preferred
    /\ IF mac \in trusted THEN Save ELSE UNCHANGED <<up, file, unsaved>>

\* forget_device, and remove_device when BlueZ has removed it or failed to.
Forget(mac) ==
    /\ up /\ calls < MaxCalls
    /\ Untrust(mac)
    /\ asked' = asked \ {mac}
    /\ calls' = calls + 1
    /\ StartupGoesOn
    /\ UNCHANGED <<runs, facts>>

\* Any device may be preferred, or none.
SetPreferred(mac) ==
    /\ up /\ calls < MaxCalls
    /\ preferred' = mac /\ UNCHANGED trusted
    /\ Save
    /\ calls' = calls + 1
    /\ StartupGoesOn
    /\ UNCHANGED <<runs, asked, facts>>

-----------------------------------------------------------------------------
(* The end of the bridge, and its start *)

Dies ==
    /\ up
    /\ up' = FALSE
    /\ StartupGoesOn
    /\ UNCHANGED <<store, file, calls, runs, asked, unsaved, facts>>

\* _load: a file that does not parse is as good as none.
Starts ==
    /\ ~up /\ runs < MaxRuns
    /\ up' = TRUE /\ runs' = runs + 1
    /\ trusted' = IF file = None THEN {} ELSE file.trusted
    /\ preferred' = IF file = None THEN None ELSE file.preferred
    /\ routine' = "waiting"
    /\ lost' = (lost \/ unsaved)
    /\ UNCHANGED <<file, macs, now, calls, asked, unsaved, askedThen>>

\* BlueZ is there, or is not after ten seconds: what the store holds then is
\* what will be connected.
Available ==
    /\ up /\ routine = "waiting"
    /\ routine' = IF trusted = {} THEN "over" ELSE "connecting"
    /\ macs' = trusted
    /\ askedThen' = asked
    /\ UNCHANGED <<up, store, file, now, calls, runs, asked, unsaved, lost>>

Unavailable ==
    /\ up /\ routine = "waiting"
    /\ routine' = "over"
    /\ UNCHANGED <<up, store, file, macs, now, calls, runs, asked, unsaved, facts>>

\* One after the other, the preferred one first; no property depends on the order.
Connects ==
    /\ routine = "connecting" /\ now = None
    /\ \E mac \in macs : now' = mac /\ macs' = macs \ {mac}
    /\ UNCHANGED <<up, store, file, routine, calls, runs, asked, unsaved, facts>>

\* It is connected, out of range, or BlueZ raises.
Answered ==
    /\ now # None
    /\ now' = None /\ routine' = IF macs = {} THEN "over" ELSE routine
    /\ UNCHANGED <<up, store, file, macs, calls, runs, asked, unsaved, facts>>

-----------------------------------------------------------------------------
Next ==
    \/ \E mac \in Devices : Trust(mac) \/ Forget(mac)
    \/ \E mac \in Devices \cup {None} : SetPreferred(mac)
    \/ Dies \/ Starts
    \/ Available \/ Unavailable \/ Connects \/ Answered

Spec == Init /\ [][Next]_vars

-----------------------------------------------------------------------------
(* Properties *)

\* What the variables hold.
TypeOK ==
    /\ up \in BOOLEAN /\ trusted \subseteq Devices /\ preferred \in Devices \cup {None}
    /\ file \in [trusted : SUBSET Devices, preferred : Devices \cup {None}] \cup {None}
    /\ routine \in {"waiting", "connecting", "over"}
    /\ macs \subseteq Devices /\ now \in Devices \cup {None}
    /\ calls \in 0 .. MaxCalls /\ runs \in 1 .. MaxRuns
    /\ asked \subseteq Devices /\ askedThen \subseteq Devices
    /\ unsaved \in BOOLEAN /\ lost \in BOOLEAN

\* A device that was forgotten before on_startup looked is not connected again
\* by it, wherever the bridge died before: the file may be cut off, but it does
\* not fall behind what the user said, unless it could not be opened.
ForgottenStaysForgotten == now # None => now \in askedThen \/ lost
=============================================================================
