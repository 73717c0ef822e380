------------------------------- MODULE MCHandlers --------------------------------
(* What the program serves beside the session: the shell handler and the proxy of   *)
(* src/stream, and the control surface of src/web.  They share nothing: a behaviour *)
(* is about one of them, chosen at the start.  For the proxy there are two streams  *)
(* and one permit, targets that differ in scheme, origin, spelling and              *)
(* well-formedness, and name servers that answer with the addresses on both sides   *)
(* of every block border; for the shell a command for every rule of the policy and  *)
(* less output budget than the two pipes carry; for the control surface three ids,  *)
(* of which one session may be usable at a time, two requests that can wait for the *)
(* lock together, and a socket.                                                     *)
EXTENDS Proxy, Shell, WebControl

Url(scheme, host, port, flaw) == [scheme |-> scheme, host |-> host, port |-> port, flaw |-> flaw]

Secure == Url("https", "a.test", NoPort, "none")
Plain80 == Url("http", "a.test", NoPort, "none")
Other == Url("https", "b.test", 8443, "none")
Dotted == Url("https", "a.test.", 443, "none")
Sock == Url("ws", "a.test", NoPort, "none")
Raw == Url("tcp", "127.0.0.1", 22, "none")

MCUrls == {Secure, Plain80, Other, Dotted, Sock, Raw,
           Url("https", "a.test", NoPort, "credentials"), Url("https", ".", NoPort, "none"),
           Url("tcp", "a.test", NoPort, "none"), Url("tcp", "a.test", 22, "path")}

MCNormal == [h \in {"a.test", "a.test.", "b.test", "127.0.0.1", "."} |->
                 CASE h = "a.test." -> "a.test" [] h = "." -> "" [] OTHER -> h]

MCLiteral == [h \in {"a.test", "b.test", "127.0.0.1", ""} |->
                  IF h = "127.0.0.1" THEN {V4(<<127, 0, 0, 1>>)} ELSE {}]

Public == V4(<<93, 184, 216, 34>>)

\* First and last address of each block and its neighbours.
Borders4 ==
    {V4(<<0, 255, 255, 255>>), V4(<<10, 0, 0, 0>>), V4(<<11, 0, 0, 0>>),
     V4(<<100, 64, 0, 0>>), V4(<<100, 127, 255, 255>>), V4(<<100, 128, 0, 0>>),
     V4(<<127, 0, 0, 1>>), V4(<<169, 254, 0, 0>>), V4(<<172, 15, 255, 255>>),
     V4(<<172, 16, 0, 0>>), V4(<<172, 31, 255, 255>>), V4(<<172, 32, 0, 0>>),
     V4(<<192, 0, 0, 255>>), V4(<<192, 0, 1, 0>>), V4(<<192, 0, 2, 0>>), V4(<<192, 88, 99, 0>>),
     V4(<<192, 168, 255, 255>>), V4(<<192, 169, 0, 0>>), V4(<<198, 18, 0, 0>>),
     V4(<<198, 19, 255, 255>>), V4(<<198, 20, 0, 0>>), V4(<<198, 51, 100, 0>>),
     V4(<<203, 0, 113, 255>>), V4(<<223, 255, 255, 255>>), V4(<<224, 0, 0, 0>>),
     V4(<<239, 255, 255, 255>>), V4(<<240, 0, 0, 0>>), V4(<<255, 255, 255, 255>>)}

Mapped(ip) == V6(<<0, 0, 0, 0, 0, 65535, ip.a[1] * 256 + ip.a[2], ip.a[3] * 256 + ip.a[4]>>)

Borders6 ==
    {V6(Words(0, 0, z)) : z \in {0, 1, 2}}
    \cup {V6(Words(8193, y, 0)) : y \in {3511, 3512}}
    \cup {V6(Words(x, 0, 0)) : x \in {64511, 64512, 65023, 65152, 65215, 65216, 65280}}

MCAnswerSets ==
    {<<ip>> : ip \in Borders4 \cup Borders6 \cup {Mapped(ip) : ip \in {Public, V4(<<127, 0, 0, 1>>), V4(<<192, 0, 2, 0>>)}}}
    \cup {<<Public, V4(<<1, 1, 1, 1>>)>>, <<Public, V4(<<10, 0, 0, 1>>)>>}

Strict == [allowed_schemes |-> Schemes, allowed_ports |-> {}, allow_user_confirmation |-> FALSE,
           allow_local_targets |-> FALSE, allow_cross_origin_redirects |-> FALSE,
           allow_insecure_redirects |-> FALSE,
           allowed_targets |-> {target_key(u) : u \in {Secure, Plain80, Sock}}]

MCPolicies ==
    {Strict,
     [Strict EXCEPT !.allow_cross_origin_redirects = TRUE, !.allow_user_confirmation = TRUE],
     [Strict EXCEPT !.allow_insecure_redirects = TRUE, !.allowed_ports = {{443, 22}},
                    !.allow_local_targets = TRUE,
                    !.allowed_targets = {target_key(u) : u \in {Secure, Plain80, Raw}}]}

Command(program, args, bad_arg, cwd) ==
    [program |-> program, args |-> args, bad_arg |-> bad_arg, cwd |-> cwd]

MCCommands == {Command("echo", 1, FALSE, ""), Command("echo", 1, FALSE, "inside"),
               Command("", 0, FALSE, ""), Command("rm", 0, FALSE, ""),
               Command("echo", 2, FALSE, ""), Command("echo", 1, TRUE, ""),
               Command("echo", 1, FALSE, "linked_out")}

---------------------------------------------------------------------------------
VARIABLE job

MCInit ==
    /\ job \in {"proxy", "shell", "web"}
    /\ ProxyInit /\ ShellInit /\ Init
    /\ job # "proxy" => policy = Strict

MCNext ==
    \/ job = "proxy" /\ ProxyNext /\ UNCHANGED <<job, shellVars, vars>>
    \/ job = "shell" /\ ShellNext /\ UNCHANGED <<job, proxyVars, vars>>
    \/ job = "web" /\ Next /\ UNCHANGED <<job, proxyVars, shellVars>>

\* A part that is not chosen stays as it starts, where none of its fair steps is
\* enabled, so the fairness of one part restricts no behaviour of another.
MCSpec ==
    /\ MCInit /\ [][MCNext]_<<job, proxyVars, shellVars, vars>>
    /\ ShellFairness /\ Fairness
=================================================================================
