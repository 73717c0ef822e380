---------------------------- MODULE MCRemoteStreams ----------------------------
(* RemoteStreams with one stream id, which every operation uses again.      *)
EXTENDS RemoteStreams

MCStrayFrames ==
    {Fin(0), Fin(1), Frame(0, {"DAT"}, Empty), Frame(1, {"SYN"}, Empty),
     Frame(1, {"DAT"}, Empty), Frame(1, {"SYN", "DAT"}, Empty),
     Frame(1, {"SYN", "DAT"}, Body("shell", 0, 0, FALSE)),
     Frame(1, {"DAT", "FIN"}, Body("exit", 0, 0, FALSE)),
     Frame(1, {"DAT", "FIN"}, Body("info", 0, 0, FALSE))}
=============================================================================
