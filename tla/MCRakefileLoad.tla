--------------------------- MODULE MCRakefileLoad ---------------------------
(***************************************************************************)
(* Rakefiles of up to three targets, each family of inputs varying what one *)
(* part of the loader looks at; `x` is never declared, `y` is for another   *)
(* platform wherever it is declared.                                       *)
(***************************************************************************)
EXTENDS RakefileLoad

Absent == [is |-> "absent"]
Toml(value) == [is |-> "toml", value |-> value]
\* The table of the pairs <<key, value>>, in their order.
FileOf(pairs) ==
  Table([n \in 1..Len(pairs) |-> pairs[n][1]],
        [k \in {pairs[n][1] : n \in 1..Len(pairs)} |->
           pairs[CHOOSE n \in 1..Len(pairs) : pairs[n][1] = k][2]])

Linux == [os |-> "linux", family |-> "unix", arch |-> "x86_64"]
Mac == [os |-> "macos", family |-> "unix", arch |-> "aarch64"]
Windows == [os |-> "windows", family |-> "windows", arch |-> "x86_64"]
AnyUser == [rakeShell |-> "none", login |-> "bash", nest |-> <<"bash">>, pwshOnPath |-> TRUE]

Input(b, l, h, u) == [base |-> b, local |-> l, host |-> h, user |-> u]
Plain(file) == Input(Toml(file), Absent, Linux, AnyUser)

Bodies(sh, fish, ps) == [sh |-> sh, fish |-> fish, ps |-> ps]
NoBodies == Bodies("none", "none", "none")
Program(name) == Command(name, "program", NoBodies, <<>>, <<>>, <<>>)
Commands(list) == <<"command", Leaf("commands", list)>>
DependsOn(list) == <<"depends_on", Leaf("dependencies", list)>>
ToolNames(list) == <<"tools", Leaf("names", list)>>
On(t) == [skip |-> FALSE, to |-> t]
Not(t) == [skip |-> TRUE, to |-> t]
Ons(list) == [n \in 1..Len(list) |-> On(list[n])]
Nots(list) == [n \in 1..Len(list) |-> Not(list[n])]

Works(list) == FileOf(<<Commands(<<Program("p")>>), DependsOn(list)>>)
Waits(list) == FileOf(<<DependsOn(list)>>)
Targets(pairs) == FileOf(<<<<"target", FileOf(pairs)>>>>)

-----------------------------------------------------------------------------
(* Graphs: every shape of three targets, listed in either order, and        *)
(* references that dangle, contradict or lead off this platform.            *)

Listings == {SelectSeq(s, LAMBDA n : n \in S) :
               s \in {<<"a", "b", "c">>, <<"c", "b", "a">>}, S \in SUBSET {"a", "b", "c"}}
Shapes ==
  {Plain(Targets(<<<<"a", Works(Ons(a))>>, <<"b", Works(Ons(b))>>, <<"c", Works(Ons(c))>>>>)) :
     a \in Listings, b \in Listings, c \in Listings}

Elsewhere == <<"y", FileOf(<<<<"windows", Works(<<>>)>>>>)>>
References ==
  {Plain(Targets(<<<<"a", a>>, Elsewhere, <<"b", Waits(Ons(b))>>, <<"c", Waits(Ons(c) \o skips)>>>>)) :
     a \in {Works(<<>>), Waits(<<On("y")>>), Waits(<<Not("b")>>), Waits(<<Not("none")>>)},
     b \in {<<"a">>, <<"y", "a">>, <<"x">>}, c \in {<<>>, <<"b">>, <<"a", "y">>},
     skips \in {<<>>, <<Not("none")>>, Nots(<<"a">>), Nots(<<"y", "b">>),
                Nots(<<"x", "a">>), Nots(<<"a", "x">>)}}

-----------------------------------------------------------------------------
(* Variants, commands, tools and headers.                                  *)

Keyed(S) ==
  FileOf(SelectSeq(<<Commands(<<Program("base")>>), <<"unix", Works(<<>>)>>,
                     <<"linux", Waits(<<On("b")>>)>>, <<"windows", Works(<<On("b")>>)>>,
                     <<"platform", Leaf("names", <<"linux">>)>>,
                     ToolNames(<<>>)>>, LAMBDA p : p[1] \in S))
VariantInputs ==
  {Input(Toml(Targets(<<<<"a", Keyed(S)>>, <<"b", Works(<<>>)>>, <<"c", Waits(<<On("a")>>)>>>>)),
         Absent, h, AnyUser) :
     S \in SUBSET {"command", "unix", "linux", "windows", "platform", "tools"},
     h \in {Linux, Mac, Windows}}

OneCommand(c) ==
  Targets(<<<<"a", FileOf(<<Commands(<<c, Program("last")>>)>>)>>>>)
CommandInputs ==
  {Plain(OneCommand(Command(name, cmd, Bodies(sh, fish, ps), <<>>, <<>>, <<>>))) :
     name \in {"p", "last"}, cmd \in {"none", "empty", "program"},
     sh \in {"none", "blank", "text"}, fish \in {"none", "blank", "text"}, ps \in {"none", "text"}}
  \cup
  {Input(Toml(OneCommand(Command("p", "program", NoBodies, platform, arch, <<>>))), Absent, h, AnyUser) :
     platform \in {<<>>, <<{}>>, <<{"linux"}>>, <<{"unix", "beos"}>>, <<{"windows"}>>, <<{"unix"}>>},
     arch \in {<<>>, <<{}>>, <<{"x86_64"}>>, <<{"aarch64"}>>, <<{"z80"}>>},
     h \in {Linux, Mac, Windows}}

CargoTool(check, install, update, crate) ==
  Leaf("cargo", [check |-> check, install |-> install, update |-> update, crate |-> crate])
OsTool(check) == Leaf("os", [check |-> check])
FishTool == Leaf("fish", <<>>)
ToolTable(cargo, os, fish) ==
  <<"tool", FileOf(<<<<"cargo", FileOf(cargo)>>, <<"os", FileOf(os)>>, <<"fish", FileOf(fish)>>>>)>>
WithTools(tools, mine, its) ==
  FileOf(<<<<"target", FileOf(<<<<"a", FileOf(<<ToolNames(mine),
             Commands(<<[Program("p") EXCEPT !.tools = its]>>)>>)>>>>)>>, tools>>)
ToolInputs ==
  {Plain(WithTools(ToolTable(<<<<"t", CargoTool(check, install, update, crate)>>>>, os, fish), mine, its)) :
     check \in BOOLEAN, install \in BOOLEAN, update \in BOOLEAN, crate \in BOOLEAN,
     os \in {<<>>, <<<<"u", OsTool(TRUE)>>>>, <<<<"t", OsTool(TRUE)>>>>, <<<<"u", OsTool(FALSE)>>>>},
     fish \in {<<>>, <<<<"t", FishTool>>>>, <<<<"u", FishTool>>>>},
     mine \in {<<>>, <<"t">>}, its \in {<<>>, <<"u">>, <<"u", "t">>}}

Headed(pairs) == Plain(FileOf(Append(pairs, <<"target", FileOf(<<<<"a", Works(<<>>)>>>>)>>)))
Lifecycle(value) == <<"lifecycle", FileOf(<<<<"address", value>>>>)>>
HeaderInputs ==
  {Headed(<<<<"toolchain", Leaf("text", word)>>>>) : word \in {"blank", "stable"}}
  \cup {Headed(<<<<"toolchain", Leaf("flag", "true")>>>>), Headed(<<<<"lifecycle", EmptyTable>>>>)}
  \cup {Headed(<<Lifecycle(Leaf("addresses", list))>>) :
          list \in {<<>>, <<"good">>, <<"good", "bad">>}}

-----------------------------------------------------------------------------
(* The personal layer over a Rakefile, and the user's shells.               *)

TheBase ==
  WithTools(ToolTable(<<<<"t", CargoTool(TRUE, TRUE, TRUE, TRUE)>>>>, <<>>, <<>>), <<"t">>, <<>>)
Layers ==
  {Absent, [is |-> "unreadable"], [is |-> "malformed"]} \cup
  {Toml(layer) : layer \in
     {EmptyTable, Targets(<<<<"a", Waits(<<>>)>>>>), Targets(<<<<"a", Leaf("flag", "true")>>>>),
      Targets(<<<<"a", FileOf(<<ToolNames(<<"u">>)>>)>>>>), Targets(<<<<"b", Works(<<On("a")>>)>>>>),
      Targets(<<<<"a", FileOf(<<<<"linux", Waits(<<On("b")>>)>>>>)>>, <<"b", Works(<<>>)>>>>),
      FileOf(<<<<"target", Leaf("flag", "true")>>>>), FileOf(<<ToolTable(<<>>, <<<<"t", OsTool(TRUE)>>>>, <<>>)>>),
      FileOf(<<<<"tool", FileOf(<<<<"cargo", FileOf(<<<<"t", CargoTool(TRUE, TRUE, FALSE, FALSE)>>>>)>>>>)>>>>)}}
LayerInputs ==
  {Input(b, l, Linux, AnyUser) :
     b \in {Toml(TheBase), Toml(Targets(<<<<"a", Leaf("flag", "true")>>>>)),
            [is |-> "unreadable"], [is |-> "malformed"]}, l \in Layers}

Nests == {<<>>} \cup {<<s>> : s \in {"bash", "fish", "pwsh", "powershell"}}
         \cup {<<s, t>> : s \in {"bash", "fish", "pwsh", "powershell"}, t \in {"bash", "fish", "pwsh", "powershell"}}
ShellInputs ==
  {Input(Toml(OneCommand(Command("p", "none", Bodies("text", "none", "text"), <<>>, <<>>, <<>>))), Absent, h,
         [rakeShell |-> r, login |-> login, nest |-> nest, pwshOnPath |-> path]) :
     h \in {Linux, Windows}, r \in {"none", "fish", "pwsh"}, login \in {"none", "bash", "fish"},
     nest \in Nests, path \in BOOLEAN}

MCInputs == Shapes \cup References \cup VariantInputs \cup CommandInputs \cup ToolInputs
            \cup HeaderInputs \cup LayerInputs \cup ShellInputs
=============================================================================
