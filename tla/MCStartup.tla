----------------------------- MODULE MCStartup -----------------------------
(* Instance of Startup for TLC: command lines and configuration files. *)
EXTENDS Startup, TLC

Element_(d, l, e, ls, w) == [dashes |-> d, long |-> l, eq |-> e, letters |-> ls, word |-> w]

Distro   == Element_(0, None, FALSE, <<None>>, "d")
Arm      == Element_(0, None, FALSE, <<None>>, "arm")
DashH    == Element_(1, None, FALSE, <<"helpflag">>, "-h")
DashQ    == Element_(1, None, FALSE, <<"althelp">>, "-?")
DashA    == Element_(1, None, FALSE, <<"arch">>, "-a")
DashVA   == Element_(1, None, FALSE, <<"verbose", "arch">>, "-va")
DashAV   == Element_(1, None, FALSE, <<"arch", "verbose">>, "-av")
DashAA   == Element_(1, None, FALSE, <<"arch", "arch">>, "-aa")
DashZ    == Element_(1, None, FALSE, <<None>>, "-z")
Dash     == Element_(1, None, FALSE, <<>>, "-")
Mark2    == Element_(2, None, FALSE, <<>>, "--")
LongArch == Element_(2, "arch", FALSE, <<"arch", None>>, "--arch")
LongEq   == Element_(2, "arch", TRUE, <<"arch", None>>, "i686")
OneVerb  == Element_(1, "verbose", FALSE, <<"verbose", None>>, "-verbose")
VerbEq   == Element_(2, "verbose", TRUE, <<"verbose", None>>, "1")
Unknown  == Element_(2, None, FALSE, <<None>>, "--unknown")

Few == {Distro, Arm, DashA, DashVA, DashAV, OneVerb, Mark2, LongArch}
All == Few \cup {DashH, DashQ, DashAA, DashZ, Dash, LongEq, VerbEq, Unknown}

\* Every command line of two elements, and of up to four of the more involved.
MCArgvs == UNION {[1..n -> All] : n \in 0..2} \cup [1..3 -> Few]
             \cup {<<x, y, Arm, Distro>> : x \in Few, y \in Few}

MCSettings == ({"system"} \X {"rootfs", "homefs", "archive", "prefix", "source"})
                \cup {<<"shell", "d">>}

Root1 == Entry("rootfs", "a")
Root2 == Entry("rootfs", "b")
Content == {<<>>, <<Root1>>, <<Header("system"), Root1>>,
            <<Header("system"), Root1, [kind |-> "comment"], Root2>>,
            <<Header("shell"), Root2, [kind |-> "blank"], Header("system"), Root1>>,
            <<Header("system"), Root2, Header("shell"), Root1, Entry("d", "a")>>,
            <<Header("system"), Entry("homefs", "b"), [kind |-> "plain"], Root2>>,
            <<Header("system"), Root1, Entry("archive", Empty), Root2>>}
MCConfigs == {<<f, g>> : f \in Content \cup {NoFile}, g \in {NoFile, <<Header("system"), Root2>>}}

MCRootfs == {<<r, "d", m>> : r \in {"default", "b"}, m \in {"amd64", "arm", "i386"}}
=============================================================================
