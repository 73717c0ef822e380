--------------------------- MODULE SessionLifecycle ---------------------------
(***************************************************************************)
(* What a session promises to the code that holds one: it only ever moves  *)
(* forward through its phases, a closed one stays closed, streams exist    *)
(* while it is ready and at no other time, and it survives fewer failed    *)
(* authentications than the limit.                                         *)
(***************************************************************************)
EXTENDS Naturals

CONSTANTS
    Ids,    \* stream ids
    Limit   \* failed authentications that end a session

VARIABLES phase, streams, failures

lvars == <<phase, streams, failures>>

LInit == phase = "Connecting" /\ streams = {} /\ failures = 0

Ask ==
    /\ phase = "Connecting"
    /\ phase' = "Authenticating"
    /\ UNCHANGED <<streams, failures>>

Reject ==
    /\ phase = "Authenticating"
    /\ failures + 1 < Limit
    /\ failures' = failures + 1
    /\ UNCHANGED <<phase, streams>>

GiveUp ==
    /\ phase = "Authenticating"
    /\ failures + 1 = Limit
    /\ failures' = Limit
    /\ phase' = "Closed"
    /\ UNCHANGED streams

Enter ==
    /\ phase \in {"Connecting", "Authenticating"}
    /\ phase' = "Ready"
    /\ UNCHANGED <<streams, failures>>

Use ==
    /\ phase = "Ready"
    /\ streams' \in SUBSET Ids
    /\ UNCHANGED <<phase, failures>>

Close ==
    /\ phase' = "Closed"
    /\ streams' = {}
    /\ UNCHANGED failures

LNext == Ask \/ Reject \/ GiveUp \/ Enter \/ Use \/ Close

LSpec == LInit /\ [][LNext]_lvars
=============================================================================
