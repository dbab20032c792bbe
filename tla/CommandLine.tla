---------------------------- MODULE CommandLine ----------------------------
(***************************************************************************)
(* The constructor of class Application: options and file name from argv,  *)
(* one argument or option a turn.  An argument is a text, a sequence of    *)
(* characters, in which the name of an option counts as one character.     *)
(***************************************************************************)
EXTENDS Naturals, SequencesExt

CONSTANTS Lines,     \* command lines: sequences of options and file names
          NoArg      \* argv[argc]

Blank == << >>

\* The fields that options with one value set.
Field == [x \in {"-namespace", "-classname", "-lt", "-todir"} |->
            CASE x = "-namespace" -> "global" [] x = "-classname" -> "classname"
              [] x = "-lt" -> "lt" [] x = "-todir" -> "todir"]

Options == DOMAIN Field \cup {"-ns"}

VARIABLES
  line,   \* what the caller means
  args,   \* argv without argv[0]: only read
  i,      \* the argument the loop is at
  app,    \* the fields of the application
  phase   \* "loop", "done", or "usage" when it has exited

vars == <<line, args, i, app, phase>>

Arg(k) == IF k \in DOMAIN args THEN args[k] ELSE NoArg

\* An element of a line: an option with its arguments, a file name ("file") or
\* arguments that are no option for want of values ("short").
OptionAs(x, values) == [option |-> x, values |-> values]

Arguments(element) ==
  (IF element.option \in {"file", "short"} THEN << >> ELSE << <<element.option>> >>) \o element.values

ArgvOf(elements) == FlattenSeq([k \in DOMAIN elements |-> Arguments(elements[k])])

\* What a caller means by an element that is not short of values.
Complete(e) ==
  \/ e.option \in DOMAIN Field /\ Len(e.values) = 1
  \/ e.option = "-ns" /\ Len(e.values) = 2
  \/ e.option = "file" /\ Len(e.values) = 1 /\ \A x \in Options : e.values[1] # <<x>>

Text == Seq(STRING)

\* What Lines and NoArg must be; that names are strings is for the provers.
WellFormed ==
  /\ NoArg \notin Text
  /\ Options \cup {".", "_", "vector"} \subseteq STRING
  /\ Lines \subseteq Seq([option : Options \cup {"file", "short"}, values : Seq(Text)])
  /\ \A l \in Lines : \A k \in DOMAIN l : l[k].option = "short" \/ Complete(l[k])

Defaults == [global |-> Blank, classname |-> Blank, lt |-> <<"vector">>, todir |-> <<".">>,
             filename |-> Blank, nsmap |-> {}]

-----------------------------------------------------------------------------
Init ==
  /\ line \in Lines /\ args = ArgvOf(line)
  /\ i = 1 /\ app = Defaults
  /\ phase = IF args = << >> THEN "usage" ELSE "loop"

\* Broken: the value of the option is read once more, as an argument.
TakeOptionTwice(x) ==
  /\ phase = "loop" /\ Arg(i) = <<x>> /\ i < Len(args)
  /\ app' = [app EXCEPT ![Field[x]] = Arg(i + 1)]
  /\ i' = i + 1
  /\ UNCHANGED <<line, args, phase>>

\* The options with one value.
TakeOption(x) ==
  /\ phase = "loop" /\ Arg(i) = <<x>> /\ i < Len(args)
  /\ app' = [app EXCEPT ![Field[x]] = Arg(i + 1)]
  /\ i' = i + 2
  /\ UNCHANGED <<line, args, phase>>

\* nsmap_[href] = prefix.
Mapped(map, href, prefix) == {p \in map : p[1] # href} \cup {<<href, prefix>>}

\* Broken: one value would do.
TakeNsShort ==
  /\ phase = "loop" /\ Arg(i) = <<"-ns">> /\ i < Len(args)
  /\ app' = [app EXCEPT !.nsmap = Mapped(@, Arg(i + 1), Arg(i + 2))]
  /\ i' = i + 3
  /\ UNCHANGED <<line, args, phase>>

TakeNs ==
  /\ phase = "loop" /\ Arg(i) = <<"-ns">> /\ i + 1 < Len(args)
  /\ app' = [app EXCEPT !.nsmap = Mapped(@, Arg(i + 1), Arg(i + 2))]
  /\ i' = i + 3
  /\ UNCHANGED <<line, args, phase>>

\* All else, an option short of values too, is a file name.
TakeFilename ==
  /\ phase = "loop" /\ i <= Len(args)
  /\ \A x \in DOMAIN Field : Arg(i) = <<x>> => i = Len(args)
  /\ Arg(i) = <<"-ns">> => i + 1 >= Len(args)
  /\ app' = [app EXCEPT !.filename = Arg(i)]
  /\ i' = i + 1
  /\ UNCHANGED <<line, args, phase>>

\* What a class name may not hold; an option has a dash in it.
Special == {".", "-", "+", "%"} \cup Options

Identifier(name) == [k \in DOMAIN name |-> IF name[k] \in Special THEN "_" ELSE name[k]]

\* The file name up to its last dot, wherever that is.
Stem(name) ==
  LET dot == SelectLastInSeq(name, LAMBDA c : c = ".")
  IN IF dot = 0 THEN Blank ELSE SubSeq(name, 1, dot - 1)

\* The class name is the one asked for, or that of the file.
NameClass ==
  /\ phase = "loop" /\ i > Len(args)
  /\ app' = [app EXCEPT !.classname = Identifier(IF @ = Blank THEN Stem(app.filename) ELSE @)]
  /\ phase' = "done"
  /\ UNCHANGED <<line, args, i>>

Next == (\E x \in DOMAIN Field : TakeOption(x)) \/ TakeNs \/ TakeFilename \/ NameClass

-----------------------------------------------------------------------------
\* What an option sets, before the class name is made.
LastValue(x, default) ==
  LET last == SelectLastInSeq(line, LAMBDA e : e.option = x)
  IN IF last = 0 THEN default ELSE line[last].values[1]

\* The constructor never reads past argv: the loop ends right behind the last
\* argument, and argv[argc] becomes no value, also where an option lacks its
\* values or a value looks like an option.
ReadsWithinArgv ==
  /\ i <= Len(args) + 1
  /\ \A f \in DOMAIN app \ {"nsmap"} : app[f] # NoArg
  /\ \A p \in app.nsmap : p[2] # NoArg

\* A line of complete options and file names in any order is read as the usage
\* says: each option by its last value, -ns by the last prefix of each href,
\* the file by the last name; values may look like options.  An empty class name
\* is none.
ReadAsUsage ==
  phase = "loop" /\ phase' = "done" /\ (\A k \in DOMAIN line : line[k].option # "short") =>
    /\ \A x \in DOMAIN Field \ {"-classname"} :
         app'[Field[x]] = LastValue(x, Defaults[Field[x]])
    /\ app'.filename = LastValue("file", Blank)
    /\ app'.classname =
         Identifier(IF LastValue("-classname", Blank) = Blank THEN Stem(LastValue("file", Blank))
                    ELSE LastValue("-classname", Blank))
    /\ app'.nsmap = {v \in {line[k].values : k \in DOMAIN line} :
         \E k \in DOMAIN line : line[k] = OptionAs("-ns", v)
           /\ \A j \in DOMAIN line : j > k /\ line[j].option = "-ns" => line[j].values[1] # v[1]}

OptionsAsUsage == [][ReadAsUsage]_vars
=============================================================================
