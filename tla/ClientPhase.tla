---------------------------- MODULE ClientPhase ----------------------------
(***************************************************************************)
(* What the event loop depends on in a Client: whether it waits to write   *)
(* (needsWriteEvent) and whether isExpired exempts it (BODY_RECEIVING).    *)
(* Module EventLoop is built on this abstraction; module Connection, where *)
(* the Client is modelled in full, is checked to implement Spec below.     *)
(***************************************************************************)

\* Between requests or inside a header; inside a body; with a response to
\* write; with a refusal to write that was decided inside a body.
Phases == {"reading", "body", "writing", "refusing"}

Waiting(p) == p \in {"writing", "refusing"}
Exempt(p) == p \in {"body", "refusing"}

\* Where a call of handleClientData that received something may leave it.
AfterRead ==
    [reading  |-> {"reading", "body", "writing"},
     body     |-> {"body", "writing", "refusing"},
     writing  |-> {"writing"},
     refusing |-> {"refusing"}]

-----------------------------------------------------------------------------
VARIABLES
    present,    \* the connection is in _clients
    phase,
    asks        \* EPOLLOUT is in its interests

phaseVars == <<present, phase, asks>>

Init == present = TRUE /\ phase = "reading" /\ asks = FALSE

Receive ==
    /\ present
    /\ phase' \in AfterRead[phase]
    /\ asks' = Waiting(phase')
    /\ UNCHANGED present

\* The last byte of a response goes out and the connection is kept.
Finish ==
    /\ present /\ Waiting(phase)
    /\ phase' = "reading" /\ asks' = FALSE
    /\ UNCHANGED present

Leave == present' = FALSE /\ phase' = "reading" /\ asks' = FALSE

Next == Receive \/ Finish \/ Leave

Spec == Init /\ [][Next]_phaseVars
=============================================================================
