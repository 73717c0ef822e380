------------------------------ MODULE MCHandshake ------------------------------
(* Handshake with one-byte PINs: 49 is the right one.                      *)
EXTENDS Handshake

Pin(b) == <<b>>

MCExpectedPin == Pin(49)

(* The right PIN at once, late, never; a repeated PIN; a blank one.        *)
MCClientPins ==
    {<<Pin(49)>>, <<Pin(50), Pin(49)>>, <<Pin(50), Pin(51), Pin(49)>>,
     <<Pin(50), Pin(51), Pin(52), Pin(53)>>, <<Pin(50), Pin(50)>>, <<Pin(32)>>}

(* The right PIN among the first three, and no PIN twice in a row.         *)
MCRightPins ==
    {<<Pin(49)>>, <<Pin(50), Pin(49)>>, <<Pin(50), Pin(51), Pin(49)>>,
     <<Pin(50), Pin(51), Pin(49), Pin(52)>>}

MCStrayFrames ==
    {Plain(type) : type \in FrameTypes \ {"auth", "auth_result"}}
        \cup {AuthFrame(NoPin), AuthFrame(Pin(49)), AuthFrame(Pin(50))}
        \cup {AuthResult(b) : b \in BOOLEAN}
        \cup {Frame("connect", NoPin, FALSE), Frame("ready", NoPin, FALSE)}
=============================================================================
